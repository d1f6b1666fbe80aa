---------------------------- MODULE CatalogProofs ----------------------------
(* Proofs about Catalog, for any names, slugs and requests, and about a       *)
(* client that pages through a list.  The first inductive invariant says what *)
(* the copy a request works on still tells of the row: its version is no      *)
(* later than the row's, and a row whose version is still the one that was    *)
(* read has not been deleted; a slug that was chosen is one that nobody had   *)
(* at the last look, so whoever has it now got it since.  Then come names and *)
(* slugs, the compared version, the tree of categories, and the pages.        *)
EXTENDS Catalog, CursorPages, FiniteSetTheorems, WellFoundedInduction, TLAPS

\* The requests that have begun and not ended.
AtWork(q) == editing[q] \in {"count", "list", "write", "delete"}

\* A request works on a row whose version is the one it read or a later one, and
\* that was live when it read it.
CopiesAreOld ==
    \A q \in CatalogRequests : AtWork(q) =>
        /\ edit[q].row \in Rows
        /\ edit[q].version <= row[edit[q].row].version
        /\ edit[q].version = row[edit[q].row].version /\ edit[q].version > 0
           => row[edit[q].row].live
        /\ editing[q] = "delete" => edit[q].version > 0

\* A request that looks for a slug has a name.
NamesAreSlugged ==
    \A q \in CatalogRequests : editing[q] \in {"count", "list"} => edit[q].name \in Names

\* The slug the request is about to write is the row's own if the row is still
\* the one it has read ...
KeepsSlug(q) ==
    /\ edit[q].version > 0
    /\ row[edit[q].row].version = edit[q].version => row[edit[q].row].slug = edit[q].slug

\* ... or one that rows can have got only since its last look.
FreshSlug(q) ==
    /\ edit[q].slug # <<>>
    /\ \A s \in There : SameTable(s, edit[q].row) /\ row[s].slug = edit[q].slug
                        => s \in amid[q]

SlugsAreFresh ==
    \A q \in CatalogRequests : editing[q] = "write" => KeepsSlug(q) \/ FreshSlug(q)

\* Rows that are not there have no slug and are not live.
NoRowNoSlug == \A r \in Rows : row[r].version = 0 => row[r].slug = <<>> /\ ~row[r].live

CatalogInv ==
    /\ CatalogTypeOK
    /\ CopiesAreOld
    /\ NamesAreSlugged
    /\ SlugsAreFresh
    /\ NoRowNoSlug
    /\ SlugClashNeedsRace

\* A function into a smaller set takes some value twice.
LEMMA Collision ==
    ASSUME NEW S, NEW T, NEW f \in [S -> T],
           IsFiniteSet(S), IsFiniteSet(T), Cardinality(T) < Cardinality(S)
    PROVE  \E i, j \in S : i # j /\ f[i] = f[j]
  BY FS_PigeonHole

USE CatalogAssumption

-----------------------------------------------------------------------------
(* generate_slug *)

\* Every set of numbers that is not empty has a least one.
LEMMA LeastOfSet ==
    ASSUME NEW T, T \subseteq Nat, T # {}
    PROVE  \E x \in T : \A y \in T : x <= y
  <1>1. PICK x \in T : \A y \in T : ~(<<y, x>> \in OpToRel(<, Nat))
    BY NatLessThanWellFounded, WFMin
  <1>2. \A y \in T : ~(y < x)
    BY <1>1 DEF OpToRel
  <1>3. QED
    BY <1>2

\* The candidates of a base are sequences that extend it, and differ.
LEMMA Candidates ==
    ASSUME NEW base \in Seq(Nat)
    PROVE  \A k \in Nat \ {0} :
               /\ Candidate(base, k) \in Seq(Nat)
               /\ Len(Candidate(base, k)) >= Len(base)
               /\ SubSeq(Candidate(base, k), 1, Len(base)) = base
               /\ base # <<>> => Candidate(base, k) # <<>>
               /\ \A j \in Nat \ {0} : Candidate(base, j) = Candidate(base, k) => j = k
  <1>1. Len(base) \in Nat /\ \A k \in Nat : Append(base, k) \in Seq(Nat)
    OBVIOUS
  <1>2. \A k \in Nat : /\ Len(Append(base, k)) = Len(base) + 1
                       /\ Append(base, k)[Len(base) + 1] = k
                       /\ \A i \in 1..Len(base) : Append(base, k)[i] = base[i]
    OBVIOUS
  <1>3. \A k \in Nat : SubSeq(Append(base, k), 1, Len(base)) = base
    BY <1>1, <1>2
  <1>4. SubSeq(base, 1, Len(base)) = base
    OBVIOUS
  <1>5. \A k \in Nat : Append(base, k) # <<>>
    <2>1. Len(<<>>) = 0
      OBVIOUS
    <2>2. \A k \in Nat : Len(Append(base, k)) # 0
      BY <1>1, <1>2
    <2>3. QED
      BY <2>1, <2>2
  <1>6. ASSUME NEW j \in Nat \ {0}, NEW k \in Nat \ {0}, Candidate(base, j) = Candidate(base, k)
        PROVE  j = k
    <2>1. /\ \A i \in Nat \ {0, 1} : Candidate(base, i) = Append(base, i)
          /\ Candidate(base, 1) = base
      BY DEF Candidate
    <2>2. \A i \in Nat : Append(base, i) # base
      BY <1>1, <1>2
    <2>3. \A h, i \in Nat : Append(base, h) = Append(base, i) => h = i
      BY <1>2
    <2>4. QED
      BY <1>6, <2>1, <2>2, <2>3
  <1>7. QED
    BY <1>1, <1>2, <1>3, <1>4, <1>5, <1>6 DEF Candidate

\* SlugsLike finds the slugs of the table that extend the base.
LEMMA SlugsLikeFinds ==
    ASSUME NEW q, NEW s \in There, SameTable(s, edit[q].row),
           Len(row[s].slug) >= Len(BaseSlug(q)),
           SubSeq(row[s].slug, 1, Len(BaseSlug(q))) = BaseSlug(q)
    PROVE  row[s].slug \in SlugsLike(q)
  BY DEF SlugsLike

\* The slugs of a table are finite in number.
LEMMA SlugsLikeFinite ==
    ASSUME NEW q
    PROVE  /\ IsFiniteSet(SlugsLike(q)) /\ Cardinality(SlugsLike(q)) \in Nat
           /\ Cardinality(SlugsLike(q)) <= Cardinality(Rows)
  <1> DEFINE S == {s \in There : /\ SameTable(s, edit[q].row)
                                 /\ Len(row[s].slug) >= Len(BaseSlug(q))
                                 /\ SubSeq(row[s].slug, 1, Len(BaseSlug(q))) = BaseSlug(q)}
             f == [s \in S |-> row[s].slug]
  <1>1. IsFiniteSet(S) /\ Cardinality(S) <= Cardinality(Rows)
    BY FS_Subset DEF There
  <1>2. f \in Surjection(S, SlugsLike(q))
    BY DEF Surjection, SlugsLike
  <1>3. IsFiniteSet(SlugsLike(q)) /\ Cardinality(SlugsLike(q)) <= Cardinality(S)
    BY <1>1, <1>2, FS_Surjection
  <1>4. /\ Cardinality(S) \in Nat /\ Cardinality(SlugsLike(q)) \in Nat
        /\ Cardinality(Rows) \in Nat
    BY <1>1, <1>3, FS_CardinalityType
  <1>5. QED
    BY <1>1, <1>3, <1>4

\* With n slugs taken, one of n + 1 candidates is free, and FirstFree is one.
LEMMA FirstFreeIsFree ==
    ASSUME NEW base \in Seq(Nat) \ {<<>>}, NEW slugs, IsFiniteSet(slugs)
    PROVE  /\ FirstFree(base, slugs) \notin slugs
           /\ FirstFree(base, slugs) \in Seq(Nat) \ {<<>>}
           /\ \E k \in 1..(Cardinality(slugs) + 1) : FirstFree(base, slugs) = Candidate(base, k)
           /\ Len(FirstFree(base, slugs)) >= Len(base)
           /\ SubSeq(FirstFree(base, slugs), 1, Len(base)) = base
  <1> DEFINE n == Cardinality(slugs)
             Free == {k \in 1..(n + 1) : Candidate(base, k) \notin slugs}
             First(k) == /\ Candidate(base, k) \notin slugs
                         /\ \A j \in 1..(k - 1) : Candidate(base, j) \in slugs
  <1>1. n \in Nat
    BY FS_CardinalityType
  <1>2. Free # {}
    <2>1. SUFFICES ASSUME Free = {} PROVE FALSE
      OBVIOUS
    <2> DEFINE f == [k \in 1..(n + 1) |-> Candidate(base, k)]
    <2>2. \A j, k \in 1..(n + 1) : Candidate(base, j) = Candidate(base, k) => j = k
      BY <1>1, Candidates
    <2>3. f \in Injection(1..(n + 1), slugs)
      BY <2>1, <2>2 DEF Injection, IsInjective
    <2>4. Cardinality(1..(n + 1)) <= n
      BY <2>3, FS_Injection
    <2>5. Cardinality(1..(n + 1)) = n + 1
      <3>1. 1 \in Int /\ n + 1 \in Int /\ ~(1 > n + 1) /\ (n + 1) - 1 + 1 = n + 1
        BY <1>1
      <3> HIDE DEF n
      <3>2. QED
        BY <3>1, FS_Interval
    <2>6. QED
      BY <1>1, <2>4, <2>5
  <1>3. \E k \in 1..(n + 1) : First(k)
    <2>1. Free \subseteq Nat
      BY <1>1
    <2>2. PICK k \in Free : \A j \in Free : k <= j
      BY <1>2, <2>1, LeastOfSet
    <2>3. QED
      BY <1>1, <2>2
  <1>4. PICK k \in 1..(n + 1) : First(k) /\ FirstFree(base, slugs) = Candidate(base, k)
    BY <1>3 DEF FirstFree
  <1>5. QED
    BY <1>1, <1>4, Candidates

-----------------------------------------------------------------------------
(* Types *)

RowType == [name : Names \union {"none"}, slug : Seq(Nat),
            parent : Categories \union {0}, live : BOOLEAN, version : Nat]
EditType == [row : Rows \union {0}, name : Names \union {"none"}, slug : Seq(Nat),
             parent : Categories \union {0}, version : Nat, seen : Nat]

\* The empty slug.
LEMMA NoSlug == <<>> \in Seq(Nat)
  OBVIOUS

\* The initial state satisfies the invariant.
LEMMA CatalogInitInv == CatalogInit => CatalogInv
  <1> SUFFICES ASSUME CatalogInit PROVE CatalogInv
    OBVIOUS
  <1>1. \A r \in DOMAIN Existing :
           Existing[r].name \in Names /\ Existing[r].parent \in Categories \union {0}
    OBVIOUS
  <1>2. \A r \in DOMAIN Existing : SlugOf[Existing[r].name] \in Seq(Nat)
    BY <1>1
  <1>3. \A r \in Rows : row[r] \in RowType
    <2>1. NoRow \in RowType
      BY DEF NoRow, RowType
    <2>2. ASSUME NEW r \in DOMAIN Existing
          PROVE  [name |-> Existing[r].name, slug |-> SlugOf[Existing[r].name],
                  parent |-> Existing[r].parent, live |-> TRUE, version |-> 1] \in RowType
      BY <1>1, <1>2 DEF RowType
    <2>3. QED
      BY <2>1, <2>2 DEF CatalogInit
  <1>4. CatalogTypeOK
    <2>1. row \in [Rows -> RowType]
      BY <1>3 DEF CatalogInit
    <2>2. NoEdit \in EditType
      BY NoSlug DEF NoEdit, Edit, EditType
    <2>3. QED
      BY <2>1, <2>2 DEF CatalogInit, CatalogTypeOK, RowType, EditType
  <1>5. CopiesAreOld /\ NamesAreSlugged /\ SlugsAreFresh
    BY DEF CatalogInit, CopiesAreOld, AtWork, NamesAreSlugged, SlugsAreFresh
  <1>6. NoRowNoSlug
    BY DEF CatalogInit, NoRowNoSlug, NoRow
  <1>7. SlugClashNeedsRace
    <2>1. \A r \in There : r \in DOMAIN Existing /\ row[r].slug = SlugOf[Existing[r].name]
      BY DEF There, CatalogInit, NoRow
    <2>2. QED
      BY <2>1 DEF SlugClashNeedsRace
  <1>8. QED
    BY <1>4, <1>5, <1>6, <1>7 DEF CatalogInv

-----------------------------------------------------------------------------
(* The inductive step, one lemma for each kind of action *)

\* A request that begins with a copy of a row that is not there or live keeps
\* the invariant.
LEMMA BeginKeepsInv ==
    ASSUME CatalogInv, NEW q \in CatalogRequests, NEW e \in EditType,
           NEW step \in {"count", "write", "delete"}, Begin(q, e, step),
           e.row \in Rows, e.version = row[e.row].version,
           e.version > 0 => row[e.row].live,
           step = "count" => e.name \in Names,
           step = "delete" => e.version > 0,
           step = "write" => e.version > 0 /\ e.slug = row[e.row].slug
    PROVE  CatalogInv'
  <1> USE DEF CatalogInv
  <1>1. /\ edit'[q] = e /\ editing'[q] = step
        /\ \A o \in CatalogRequests \ {q} : edit'[o] = edit[o] /\ editing'[o] = editing[o]
        /\ UNCHANGED <<row, amid, rowAmid>>
    BY DEF Begin, CatalogTypeOK
  <1>2. CatalogTypeOK'
    BY DEF Begin, CatalogTypeOK, EditType
  <1>3. e.version \in Nat
    BY DEF EditType
  <1>4. CopiesAreOld'
    BY <1>1, <1>3 DEF CopiesAreOld, AtWork
  <1>5. NamesAreSlugged'
    BY <1>1 DEF NamesAreSlugged
  <1>6. SlugsAreFresh'
    <2>1. There' = There
      BY <1>1 DEF There
    <2>2. ASSUME NEW o \in CatalogRequests, editing'[o] = "write"
          PROVE  (KeepsSlug(o) \/ FreshSlug(o))'
      <3>1. CASE o = q
        BY <1>1, <2>2, <3>1 DEF KeepsSlug
      <3>2. CASE o # q
        BY <1>1, <2>1, <2>2, <3>2 DEF SlugsAreFresh, KeepsSlug, FreshSlug
      <3>3. QED
        BY <3>1, <3>2
    <2>3. QED
      BY <2>2 DEF SlugsAreFresh
  <1>7. NoRowNoSlug' /\ SlugClashNeedsRace'
    BY <1>1 DEF NoRowNoSlug, SlugClashNeedsRace, There
  <1>8. QED
    BY <1>2, <1>4, <1>5, <1>6, <1>7

\* The operations of the catalog begin in this way.
LEMMA OperationsKeepInv ==
    ASSUME CatalogInv, NEW q \in CatalogRequests, NEW r \in Rows,
           NEW n \in Names \union {"none"}, NEW p \in Parents,
           CreateRow(q, r, n, p) \/ UpdateRow(q, r, n, p)
    PROVE  CatalogInv'
  <1>1. row[r] \in RowType
    BY DEF CatalogInv, CatalogTypeOK, RowType
  <1>2. row[r].version \in Nat /\ row[r].slug \in Seq(Nat) /\ p \in Categories \union {0}
    BY <1>1 DEF RowType, Parents
  <1>3. CASE CreateRow(q, r, n, p)
    <2> DEFINE e == Edit(r, n, <<>>, p, 0, 0)
    <2>1. e \in EditType /\ e.row = r /\ e.version = 0 /\ e.name = n
      BY <1>2, NoSlug DEF Edit, EditType
    <2>2. n \in Names /\ row[r].version = 0 /\ Begin(q, e, "count")
      BY <1>3 DEF CreateRow
    <2> HIDE DEF e
    <2>3. QED
      BY <2>1, <2>2, BeginKeepsInv
  <1>4. CASE UpdateRow(q, r, n, p)
    <2>1. PICK seen \in 1..row[r].version :
             Begin(q, Edit(r, n, row[r].slug, p, row[r].version, seen),
                   IF n \in {row[r].name, "none"} THEN "write" ELSE "count")
      BY <1>4 DEF UpdateRow
    <2> DEFINE e == Edit(r, n, row[r].slug, p, row[r].version, seen)
               step == IF n \in {row[r].name, "none"} THEN "write" ELSE "count"
    <2>2. seen \in Nat /\ row[r].version > 0
      BY <1>2, <2>1
    <2>3. /\ e \in EditType /\ e.row = r /\ e.version = row[r].version
          /\ e.name = n /\ e.slug = row[r].slug
      BY <1>2, <2>2 DEF Edit, EditType
    <2>4. row[r].live /\ step \in {"count", "write"} /\ Begin(q, e, step)
      BY <1>4, <2>1 DEF UpdateRow, Live
    <2>5. /\ step \in {"count", "write", "delete"} /\ step # "delete"
          /\ step = "count" => e.name \in Names
      BY <2>3
    <2> HIDE DEF e, step
    <2>6. e.version > 0 /\ row[e.row].live
          /\ e.row \in Rows /\ e.version = row[e.row].version /\ e.slug = row[e.row].slug
      BY <2>2, <2>3, <2>4
    <2>7. QED
      BY <2>3, <2>4, <2>5, <2>6, BeginKeepsInv
  <1>5. QED
    BY <1>3, <1>4

\* A deletion begins so, too.
LEMMA DeletionKeepsInv ==
    ASSUME CatalogInv, NEW q \in CatalogRequests, NEW r \in Rows, DeleteRow(q, r)
    PROVE  CatalogInv'
  <1> DEFINE e == Edit(r, "none", <<>>, 0, row[r].version, 0)
  <1>1. row[r] \in RowType
    BY DEF CatalogInv, CatalogTypeOK, RowType
  <1>2. row[r].version \in Nat /\ row[r].version > 0
    BY <1>1 DEF RowType, CatalogInv, NoRowNoSlug, DeleteRow, Live
  <1>3. e \in EditType /\ e.row = r /\ e.version = row[r].version
    BY <1>2, NoSlug DEF Edit, EditType
  <1>4. row[r].live /\ Begin(q, e, "delete")
    BY DEF DeleteRow, Live
  <1> HIDE DEF e
  <1>5. QED
    BY <1>2, <1>3, <1>4, BeginKeepsInv

\* A slug that no row of the table has is a fresh one.
LEMMA SlugIsTaken ==
    ASSUME CatalogInv, NEW q \in CatalogRequests, editing[q] \in {"count", "list"},
           NEW slug \in Seq(Nat) \ {<<>>}, TakeSlug(q, slug),
           \A s \in There : SameTable(s, edit[q].row) => row[s].slug # slug,
           amid' = [amid EXCEPT ![q] = {}], UNCHANGED <<row, rowAmid>>
    PROVE  CatalogInv'
  <1> USE DEF CatalogInv
  <1>1. /\ edit[q] \in EditType /\ edit \in [CatalogRequests -> EditType]
        /\ edit' = [edit EXCEPT ![q].slug = slug] /\ editing'[q] = "write"
        /\ \A o \in CatalogRequests \ {q} : /\ edit'[o] = edit[o] /\ editing'[o] = editing[o]
                                            /\ amid'[o] = amid[o]
    BY DEF TakeSlug, CatalogTypeOK, EditType
  <1>2. edit'[q] \in EditType
    BY <1>1 DEF EditType
  <1>3. /\ edit'[q].row = edit[q].row /\ edit'[q].version = edit[q].version
        /\ edit'[q].name = edit[q].name /\ edit'[q].slug = slug
    BY <1>1 DEF EditType
  <1>4. CatalogTypeOK'
    <2>1. edit' \in [CatalogRequests -> EditType]
      BY <1>1, <1>2
    <2>2. QED
      BY <2>1 DEF TakeSlug, CatalogTypeOK, EditType
  <1>5. CopiesAreOld'
    <2>1. ASSUME NEW o \in CatalogRequests \ {q}
          PROVE  edit'[o] = edit[o] /\ editing'[o] = editing[o]
      BY <1>1
    <2>2. AtWork(q) /\ editing'[q] # "delete"
      BY <1>1 DEF AtWork
    <2>3. QED
      BY <1>3, <2>1, <2>2 DEF CopiesAreOld, AtWork
  <1>6. NamesAreSlugged'
    BY <1>1 DEF NamesAreSlugged
  <1>7. There' = There
    BY DEF There
  <1>8. SlugsAreFresh'
    <2>1. FreshSlug(q)'
      BY <1>3, <1>7 DEF FreshSlug
    <2>2. ASSUME NEW o \in CatalogRequests \ {q}, editing'[o] = "write"
          PROVE  (KeepsSlug(o) \/ FreshSlug(o))'
      BY <1>1, <1>7, <2>2 DEF SlugsAreFresh, KeepsSlug, FreshSlug
    <2>3. QED
      BY <2>1, <2>2 DEF SlugsAreFresh
  <1>9. NoRowNoSlug' /\ SlugClashNeedsRace'
    BY <1>7 DEF NoRowNoSlug, SlugClashNeedsRace
  <1>10. QED
    BY <1>4, <1>5, <1>6, <1>8, <1>9

\* A request that looks for similar slugs and finds some lists them next.
LEMMA CountKeepsInv ==
    ASSUME CatalogInv, NEW q \in CatalogRequests, CountSlugs(q)
    PROVE  CatalogInv'
  <1> USE DEF CatalogInv
  <1>1. BaseSlug(q) \in Seq(Nat) \ {<<>>}
    BY DEF CountSlugs, BaseSlug, NamesAreSlugged
  <1>2. CASE SlugsLike(q) = {}
    <2>1. ASSUME NEW s \in There, SameTable(s, edit[q].row), row[s].slug = BaseSlug(q)
          PROVE  FALSE
      <3>1. /\ Len(BaseSlug(q)) >= Len(BaseSlug(q))
            /\ SubSeq(BaseSlug(q), 1, Len(BaseSlug(q))) = BaseSlug(q)
        BY <1>1
      <3>2. QED
        BY <1>2, <2>1, <3>1, SlugsLikeFinds
    <2>2. QED
      BY <1>1, <1>2, <2>1, SlugIsTaken DEF CountSlugs
  <1>3. CASE SlugsLike(q) # {}
    <2>1. /\ editing[q] = "count" /\ editing'[q] = "list" /\ UNCHANGED <<edit, row, rowAmid>>
          /\ \A o \in CatalogRequests \ {q} : editing'[o] = editing[o] /\ amid'[o] = amid[o]
      BY <1>3 DEF CountSlugs, CatalogTypeOK
    <2>2. CatalogTypeOK'
      BY <1>3 DEF CountSlugs, CatalogTypeOK
    <2>3. CopiesAreOld' /\ NamesAreSlugged'
      BY <2>1 DEF CopiesAreOld, AtWork, NamesAreSlugged
    <2>4. There' = There
      BY <2>1 DEF There
    <2>5. SlugsAreFresh'
      BY <2>1, <2>4 DEF SlugsAreFresh, KeepsSlug, FreshSlug
    <2>6. NoRowNoSlug' /\ SlugClashNeedsRace'
      BY <2>1, <2>4 DEF NoRowNoSlug, SlugClashNeedsRace
    <2>7. QED
      BY <2>2, <2>3, <2>5, <2>6
  <1>4. QED
    BY <1>2, <1>3

\* The first candidate that was not listed is the slug of no row.
LEMMA ListKeepsInv ==
    ASSUME CatalogInv, NEW q \in CatalogRequests, ListSlugs(q)
    PROVE  CatalogInv'
  <1> DEFINE base == BaseSlug(q)
             slug == FirstFree(BaseSlug(q), SlugsLike(q))
  <1>1. base \in Seq(Nat) \ {<<>>}
    BY DEF ListSlugs, BaseSlug, NamesAreSlugged, CatalogInv
  <1>2. /\ slug \notin SlugsLike(q) /\ slug \in Seq(Nat) \ {<<>>}
        /\ Len(slug) >= Len(base) /\ SubSeq(slug, 1, Len(base)) = base
    BY <1>1, SlugsLikeFinite, FirstFreeIsFree
  <1>3. \A s \in There : SameTable(s, edit[q].row) => row[s].slug # slug
    <2> HIDE DEF slug
    <2>1. SUFFICES ASSUME NEW s \in There, SameTable(s, edit[q].row), row[s].slug = slug
                   PROVE  row[s].slug \in SlugsLike(q)
      BY <1>2
    <2>2. Len(row[s].slug) >= Len(base) /\ SubSeq(row[s].slug, 1, Len(base)) = base
      BY <1>2, <2>1
    <2>3. QED
      BY <2>1, <2>2, SlugsLikeFinds
  <1>4. TakeSlug(q, slug) /\ editing[q] = "list"
    BY DEF ListSlugs
  <1>5. amid' = [amid EXCEPT ![q] = {}] /\ UNCHANGED <<row, rowAmid>>
    BY DEF ListSlugs
  <1> HIDE DEF slug
  <1>6. QED
    BY <1>2, <1>3, <1>4, <1>5, SlugIsTaken

\* A request whose version is not found, ends; so does any that is answered.
LEMMA StaleKeepsInv ==
    ASSUME CatalogInv, NEW q \in CatalogRequests,
           editing' = [editing EXCEPT ![q] = "done"],
           UNCHANGED <<row, edit, amid, rowAmid>>
    PROVE  CatalogInv'
  <1> USE DEF CatalogInv
  <1>1. /\ editing'[q] = "done" /\ \A o \in CatalogRequests \ {q} : editing'[o] = editing[o]
        /\ There' = There
    BY DEF CatalogTypeOK, There
  <1>2. CatalogTypeOK' /\ CopiesAreOld' /\ NamesAreSlugged'
    BY <1>1 DEF CatalogTypeOK, CopiesAreOld, AtWork, NamesAreSlugged
  <1>3. SlugsAreFresh'
    BY <1>1 DEF SlugsAreFresh, KeepsSlug, FreshSlug
  <1>4. NoRowNoSlug' /\ SlugClashNeedsRace'
    BY <1>1 DEF NoRowNoSlug, SlugClashNeedsRace
  <1>5. QED
    BY <1>2, <1>3, <1>4

\* What a write makes of its row.
LEMMA WrittenRow ==
    ASSUME CatalogInv, NEW q \in CatalogRequests, editing[q] \in {"write", "delete"}
    PROVE  /\ edit[q].row \in Rows /\ row[edit[q].row].version \in Nat
           /\ Written(q) \in RowType
           /\ Written(q).version = row[edit[q].row].version + 1
           /\ editing[q] = "delete" =>
                  ~Written(q).live /\ Written(q).slug = row[edit[q].row].slug
           /\ editing[q] = "write" => Written(q).live /\ Written(q).slug = edit[q].slug
  <1>1. edit[q].row \in Rows /\ edit[q] \in EditType /\ row[edit[q].row] \in RowType
    BY DEF CatalogInv, CopiesAreOld, AtWork, CatalogTypeOK, EditType, RowType
  <1>2. CASE editing[q] = "delete"
    BY <1>1, <1>2 DEF Written, RowType
  <1>3. CASE editing[q] = "write"
    BY <1>1, <1>3 DEF Written, RowType, EditType
  <1>4. QED
    BY <1>2, <1>3

\* A write of the version that was read keeps the invariant.
LEMMA WriteKeepsInv ==
    ASSUME CatalogInv, NEW q \in CatalogRequests, WriteRow(q)
    PROVE  CatalogInv'
  <1> USE DEF CatalogInv
  <1> DEFINE r == edit[q].row
             new == Written(q)
  <1>1. CASE ~SameVersion(q)
    BY <1>1, StaleKeepsInv DEF WriteRow
  <1>2. CASE SameVersion(q)
    <2>1. /\ r \in Rows /\ row[r].version \in Nat
          /\ new \in RowType /\ new.version = row[r].version + 1
          /\ editing[q] = "delete" => ~new.live /\ new.slug = row[r].slug
          /\ editing[q] = "write" => new.live /\ new.slug = edit[q].slug
      BY WrittenRow DEF WriteRow
    <2>2. /\ row' = [row EXCEPT ![r] = new]
          /\ editing[q] \in {"write", "delete"} /\ editing' = [editing EXCEPT ![q] = "done"]
          /\ UNCHANGED edit
          /\ new.slug # row[r].slug =>
                 /\ amid' = [o \in CatalogRequests |-> amid[o] \union {r}]
                 /\ rowAmid' = [rowAmid EXCEPT ![r] = amid[q]]
          /\ new.slug = row[r].slug => UNCHANGED <<amid, rowAmid>>
      BY <1>2 DEF WriteRow
    <2>3. row[r].version = edit[q].version
      BY <1>2 DEF SameVersion
    <2>15. r \in Rows /\ row[r].version \in Nat /\ new.version = row[r].version + 1
      BY <2>1
    <2>16. /\ r \in There <=> row[r].version # 0
           /\ row[r].version = 0 => row[r].slug = <<>>
      <3>1. row[r].version > 0 <=> row[r].version # 0
        BY <2>15
      <3>2. r \in There <=> row[r].version > 0
        BY <2>15 DEF There
      <3>3. QED
        BY <2>15, <3>1, <3>2 DEF NoRowNoSlug
    <2> HIDE DEF new
    <2>4. row \in [Rows -> RowType] /\ row' \in [Rows -> RowType]
      BY <2>1, <2>2 DEF CatalogTypeOK, RowType
    <2>5. CatalogTypeOK'
      <3>1. amid \in [CatalogRequests -> SUBSET Rows] /\ rowAmid \in [Rows -> SUBSET Rows]
        BY DEF CatalogTypeOK
      <3>2. amid' \in [CatalogRequests -> SUBSET Rows] /\ rowAmid' \in [Rows -> SUBSET Rows]
        <4>1. CASE new.slug # row[r].slug
          <5>1. \A o \in CatalogRequests : amid[o] \union {r} \in SUBSET Rows
            BY <2>15, <3>1
          <5>2. amid' \in [CatalogRequests -> SUBSET Rows]
            BY <2>2, <4>1, <5>1
          <5>3. rowAmid' \in [Rows -> SUBSET Rows]
            BY <2>2, <3>1, <4>1
          <5>4. QED
            BY <5>2, <5>3
        <4>2. CASE new.slug = row[r].slug
          BY <2>2, <3>1, <4>2
        <4>3. QED
          BY <4>1, <4>2
      <3>3. QED
        BY <2>2, <2>4, <3>2 DEF CatalogTypeOK, RowType
    <2>6. /\ row'[r] = new /\ \A s \in Rows \ {r} : row'[s] = row[s]
          /\ editing'[q] = "done"
          /\ \A o \in CatalogRequests \ {q} : editing'[o] = editing[o]
          /\ \A o \in CatalogRequests : amid[o] \subseteq amid'[o]
          /\ new.slug # row[r].slug => \A o \in CatalogRequests : r \in amid'[o]
          /\ new.slug # row[r].slug => rowAmid'[r] = amid[q]
          /\ \A s \in Rows \ {r} : rowAmid'[s] = rowAmid[s]
      BY <2>1, <2>2, <2>4 DEF CatalogTypeOK
    <2>7. \A s \in Rows : row[s].version \in Nat
      BY <2>4 DEF RowType
    <2>8. /\ r \in There' /\ There \subseteq There'
          /\ \A s \in There' \ {r} : s \in There
      <3>1. row'[r].version > 0 /\ \A s \in Rows \ {r} : row'[s] = row[s]
        BY <2>15, <2>6
      <3>2. QED
        BY <2>15, <3>1 DEF There
    <2>9. CopiesAreOld'
      <3>1. ASSUME NEW o \in CatalogRequests \ {q}, AtWork(o)
            PROVE  /\ edit[o].row \in Rows
                   /\ edit[o].version <= row'[edit[o].row].version
                   /\ edit[o].version = row'[edit[o].row].version /\ edit[o].version > 0
                      => row'[edit[o].row].live
                   /\ editing[o] = "delete" => edit[o].version > 0
        <4>1. /\ edit[o].row \in Rows /\ edit[o].version \in Nat
              /\ edit[o].version <= row[edit[o].row].version
              /\ edit[o].version = row[edit[o].row].version /\ edit[o].version > 0
                 => row[edit[o].row].live
              /\ editing[o] = "delete" => edit[o].version > 0
          BY <3>1 DEF CopiesAreOld, CatalogTypeOK
        <4>2. CASE edit[o].row = r
          BY <2>1, <2>6, <4>1, <4>2
        <4>3. CASE edit[o].row # r
          BY <2>6, <4>1, <4>3
        <4>4. QED
          BY <4>2, <4>3
      <3>2. QED
        BY <2>2, <2>6, <3>1 DEF CopiesAreOld, AtWork
    <2>10. NamesAreSlugged'
      BY <2>2, <2>6 DEF NamesAreSlugged
    <2>11. NoRowNoSlug'
      BY <2>1, <2>6 DEF NoRowNoSlug
    <2>12. SlugsAreFresh'
      <3>1. SUFFICES ASSUME NEW o \in CatalogRequests \ {q}, editing[o] = "write"
                     PROVE  (KeepsSlug(o) \/ FreshSlug(o))'
        BY <2>6 DEF SlugsAreFresh
      <3>2. /\ edit[o].row \in Rows /\ edit[o].version \in Nat
            /\ edit[o].version <= row[edit[o].row].version
        BY <3>1 DEF CopiesAreOld, AtWork, CatalogTypeOK
      <3>3. CASE KeepsSlug(o)
        <4>1. KeepsSlug(o)'
          <5>1. CASE edit[o].row = r
            BY <2>1, <2>2, <2>6, <3>2, <3>3, <5>1 DEF KeepsSlug
          <5>2. CASE edit[o].row # r
            BY <2>2, <2>6, <3>2, <3>3, <5>2 DEF KeepsSlug
          <5>3. QED
            BY <5>1, <5>2
        <4>2. QED
          BY <4>1
      <3>4. CASE FreshSlug(o)
        <4>1. ASSUME NEW s \in There', SameTable(s, edit[o].row), row'[s].slug = edit[o].slug
              PROVE  s \in amid'[o]
          <5>1. CASE s # r
            BY <2>6, <2>8, <3>4, <4>1, <5>1 DEF FreshSlug, There
          <5>2. CASE s = r /\ new.slug # row[r].slug
            BY <2>6, <5>2
          <5>3. CASE s = r /\ new.slug = row[r].slug
            <6>1. row[r].slug = edit[o].slug /\ edit[o].slug # <<>>
              BY <2>6, <3>4, <4>1, <5>3 DEF FreshSlug
            <6>2. r \in There
              BY <2>16, <6>1
            <6>3. QED
              BY <2>6, <3>4, <4>1, <5>3, <6>1, <6>2 DEF FreshSlug
          <5>4. QED
            BY <5>1, <5>2, <5>3
        <4>2. FreshSlug(o)'
          BY <2>2, <3>4, <4>1 DEF FreshSlug, SameTable
        <4>3. QED
          BY <4>2
      <3>5. QED
        BY <3>1, <3>3, <3>4 DEF SlugsAreFresh
    <2>13. SlugClashNeedsRace'
      <3>1. ASSUME NEW s \in There' \ {r}, SameTable(r, s), new.slug = row[s].slug
            PROVE  r \in rowAmid'[s] \/ s \in rowAmid'[r]
        <4>1. s \in There /\ s \in Rows
          BY <2>8 DEF There
        <4>2. CASE new.slug = row[r].slug /\ r \in There
          BY <2>2, <3>1, <4>1, <4>2 DEF SlugClashNeedsRace
        <4>3. CASE new.slug # row[r].slug
          <5>1. editing[q] = "write" /\ new.slug = edit[q].slug
            BY <2>1, <2>2, <4>3
          <5>2. FreshSlug(q)
            BY <2>3, <4>3, <5>1 DEF SlugsAreFresh, KeepsSlug
          <5>3. s \in amid[q]
            BY <3>1, <4>1, <5>1, <5>2 DEF FreshSlug, SameTable
          <5>4. QED
            BY <2>6, <4>3, <5>3
        <4>4. CASE new.slug = row[r].slug /\ r \notin There
          <5>1. row[r].version = 0 /\ row[r].slug = <<>> /\ edit[q].version = 0
            BY <2>3, <2>16, <4>4
          <5>2. CASE editing[q] = "write"
            BY <2>1, <4>4, <5>1, <5>2 DEF SlugsAreFresh, KeepsSlug, FreshSlug
          <5>3. CASE editing[q] = "delete"
            BY <5>1, <5>3 DEF CopiesAreOld, AtWork
          <5>4. QED
            BY <2>2, <5>2, <5>3
        <4>5. QED
          BY <4>2, <4>3, <4>4
      <3>2. ASSUME NEW s \in There', NEW t \in There', s # t, SameTable(s, t),
                   row'[s].slug = row'[t].slug
            PROVE  s \in rowAmid'[t] \/ t \in rowAmid'[s]
        <4>1. CASE s = r
          BY <2>6, <3>1, <3>2, <4>1 DEF There
        <4>2. CASE t = r
          BY <2>6, <3>1, <3>2, <4>2 DEF There, SameTable
        <4>3. CASE s # r /\ t # r
          BY <2>6, <2>8, <3>2, <4>3 DEF SlugClashNeedsRace, There
        <4>4. QED
          BY <4>1, <4>2, <4>3
      <3>3. QED
        BY <3>2 DEF SlugClashNeedsRace
    <2>14. QED
      BY <2>5, <2>9, <2>10, <2>11, <2>12, <2>13
  <1>3. QED
    BY <1>1, <1>2

\* Every step keeps the invariant.
LEMMA CatalogStepInv == CatalogInv /\ [CatalogNext]_catalogVars => CatalogInv'
  <1> SUFFICES ASSUME CatalogInv, [CatalogNext]_catalogVars PROVE CatalogInv'
    OBVIOUS
  <1>1. ASSUME NEW q \in CatalogRequests, NEW n \in Names \union {"none"}, NEW p \in Parents,
               NEW r \in Rows, CreateRow(q, r, n, p) \/ UpdateRow(q, r, n, p)
        PROVE  CatalogInv'
    BY <1>1, OperationsKeepInv
  <1>2. ASSUME NEW q \in CatalogRequests, NEW r \in Rows, DeleteRow(q, r)
        PROVE  CatalogInv'
    BY <1>2, DeletionKeepsInv
  <1>3. ASSUME NEW q \in CatalogRequests, CountSlugs(q) \/ ListSlugs(q) \/ WriteRow(q)
        PROVE  CatalogInv'
    BY <1>3, CountKeepsInv, ListKeepsInv, WriteKeepsInv
  <1>4. CASE UNCHANGED catalogVars
    BY <1>4
    DEF catalogVars, CatalogInv, CatalogTypeOK, CopiesAreOld, AtWork, NamesAreSlugged,
        SlugsAreFresh, KeepsSlug, FreshSlug, NoRowNoSlug, SlugClashNeedsRace, There
  <1>5. QED
    BY <1>1, <1>2, <1>3, <1>4
    DEF CatalogNext, CreateProduct, CreateCategory, UpdateProduct, UpdateCategory,
        DeleteProduct, DeleteCategory, Rows

\* The invariant holds in every reachable state.
LEMMA CatalogInvHolds == CatalogSpec => []CatalogInv
  BY CatalogInitInv, CatalogStepInv, PTL DEF CatalogSpec

-----------------------------------------------------------------------------
(* Theorems *)

\* Every variable of the catalog keeps its type.
THEOREM CatalogTypeCorrect == CatalogSpec => []CatalogTypeOK
  <1>1. CatalogInv => CatalogTypeOK
    BY DEF CatalogInv
  <1>2. QED
    BY <1>1, CatalogInvHolds, PTL

\* Two rows of a table share a slug only if one of them was given it after the
\* other's request had looked at the slugs for the last time.
THEOREM ClashRaced == CatalogSpec => []SlugClashNeedsRace
  <1>1. CatalogInv => SlugClashNeedsRace
    BY DEF CatalogInv
  <1>2. QED
    BY <1>1, CatalogInvHolds, PTL

-----------------------------------------------------------------------------
(* Renaming.  Whatever a request is about to write, its slug is one of its     *)
(* name; and as long as the row is the one that was read, a new slug comes     *)
(* with a new name.                                                            *)

SlugsToWrite ==
    \A q \in CatalogRequests : editing[q] = "write" => MadeFrom(edit[q].slug, edit[q].name)

NewSlugsHaveNewNames ==
    \A q \in CatalogRequests :
        LET e == edit[q] IN
        /\ editing[q] \in {"count", "list", "write"}
        /\ e.version > 0
        /\ row[e.row].version = e.version
        => \/ e.name # row[e.row].name
           \/ editing[q] = "write" /\ e.slug = row[e.row].slug

RenamingInv == SlugsAreOfNames /\ SlugsToWrite /\ NewSlugsHaveNewNames

\* The slugs generate_slug chooses are of the name.
LEMMA SlugsChosen ==
    ASSUME CatalogInv, NEW q \in CatalogRequests
    PROVE  /\ CountSlugs(q) => MadeFrom(BaseSlug(q), edit[q].name)
           /\ ListSlugs(q) => MadeFrom(FirstFree(BaseSlug(q), SlugsLike(q)), edit[q].name)
  <1> DEFINE n == Cardinality(SlugsLike(q))
  <1>1. n \in Nat /\ Cardinality(Rows) \in Nat /\ n <= Cardinality(Rows)
    BY SlugsLikeFinite, FS_CardinalityType
  <1>2. BaseSlug(q) = Candidate(SlugOf[edit[q].name], 1)
    BY DEF BaseSlug, Candidate
  <1>3. MadeFrom(BaseSlug(q), edit[q].name)
    BY <1>1, <1>2 DEF MadeFrom
  <1>4. ASSUME ListSlugs(q)
        PROVE  MadeFrom(FirstFree(BaseSlug(q), SlugsLike(q)), edit[q].name)
    <2>1. BaseSlug(q) \in Seq(Nat) \ {<<>>}
      BY <1>4 DEF ListSlugs, BaseSlug, NamesAreSlugged, CatalogInv
    <2>2. PICK k \in 1..(n + 1) :
              FirstFree(BaseSlug(q), SlugsLike(q)) = Candidate(BaseSlug(q), k)
      BY <2>1, SlugsLikeFinite, FirstFreeIsFree
    <2>3. k \in 1..(Cardinality(Rows) + 1)
      BY <1>1
    <2>4. QED
      BY <2>2, <2>3 DEF MadeFrom, BaseSlug
  <1>5. QED
    BY <1>3, <1>4

\* A request begins with the slug of its name, or with a new name.
LEMMA BeginKeepsNames ==
    ASSUME CatalogInv, RenamingInv, NEW q \in CatalogRequests, NEW e,
           NEW step \in {"count", "write", "delete"}, Begin(q, e, step),
           step = "write" => MadeFrom(e.slug, e.name),
           \/ e.version = 0 \/ step = "delete" \/ e.name # row[e.row].name
           \/ step = "write" /\ e.slug = row[e.row].slug
    PROVE  RenamingInv'
  <1>1. /\ edit'[q] = e /\ editing'[q] = step /\ row' = row
        /\ \A o \in CatalogRequests \ {q} : edit'[o] = edit[o] /\ editing'[o] = editing[o]
    BY DEF Begin, CatalogInv, CatalogTypeOK
  <1>2. SlugsAreOfNames'
    BY <1>1 DEF RenamingInv, SlugsAreOfNames, There
  <1>3. SlugsToWrite'
    BY <1>1 DEF RenamingInv, SlugsToWrite
  <1>4. NewSlugsHaveNewNames'
    BY <1>1 DEF RenamingInv, NewSlugsHaveNewNames
  <1>5. QED
    BY <1>2, <1>3, <1>4 DEF RenamingInv

\* The operations of the catalog begin in this way.
LEMMA OperationsKeepNames ==
    ASSUME CatalogInv, RenamingInv, NEW q \in CatalogRequests, NEW r \in Rows,
           NEW n \in Names \union {"none"}, NEW p,
           CreateRow(q, r, n, p) \/ UpdateRow(q, r, n, p) \/ DeleteRow(q, r)
    PROVE  RenamingInv'
  <1>1. CASE CreateRow(q, r, n, p)
    BY <1>1, BeginKeepsNames DEF CreateRow, Edit
  <1>2. CASE UpdateRow(q, r, n, p)
    <2>1. PICK seen :
             Begin(q, Edit(r, n, row[r].slug, p, row[r].version, seen),
                   IF n \in {row[r].name, "none"} THEN "write" ELSE "count")
      BY <1>2 DEF UpdateRow
    <2> DEFINE e == Edit(r, n, row[r].slug, p, row[r].version, seen)
               step == IF n \in {row[r].name, "none"} THEN "write" ELSE "count"
    <2>2. e.row = r /\ e.name = n /\ e.slug = row[r].slug
      BY DEF Edit
    <2>3. r \in There
      BY <1>2 DEF UpdateRow, Live, There, CatalogInv, NoRowNoSlug, CatalogTypeOK
    <2>4. step \in {"count", "write", "delete"} /\ Begin(q, e, step)
      BY <2>1
    <2>5. step = "write" => MadeFrom(e.slug, e.name)
      BY <2>2, <2>3 DEF MadeFrom, RenamingInv, SlugsAreOfNames
    <2>6. e.name # row[e.row].name \/ (step = "write" /\ e.slug = row[e.row].slug)
      BY <2>2
    <2> HIDE DEF e, step
    <2>7. QED
      BY <2>4, <2>5, <2>6, BeginKeepsNames
  <1>3. CASE DeleteRow(q, r)
    BY <1>3, BeginKeepsNames DEF DeleteRow
  <1>4. QED
    BY <1>1, <1>2, <1>3

\* The step of a request that has counted similar slugs.
GoesToList(q) == editing' = [editing EXCEPT ![q] = "list"] /\ UNCHANGED edit

\* A request that takes a slug of its name, or goes on to list the slugs, still
\* has its new name.
LEMMA TakingKeepsNames ==
    ASSUME CatalogInv, RenamingInv, NEW q \in CatalogRequests,
           editing[q] \in {"count", "list"}, row' = row, NEW slug,
           MadeFrom(slug, edit[q].name), TakeSlug(q, slug) \/ GoesToList(q)
    PROVE  RenamingInv'
  <1>1. /\ edit'[q].row = edit[q].row /\ edit'[q].version = edit[q].version
        /\ edit'[q].name = edit[q].name
        /\ editing'[q] = "write" => edit'[q].slug = slug
        /\ editing'[q] \in {"write", "list"}
        /\ \A o \in CatalogRequests \ {q} : edit'[o] = edit[o] /\ editing'[o] = editing[o]
    <2>1. edit \in [CatalogRequests -> EditType] /\ edit[q] \in EditType
      BY DEF CatalogInv, CatalogTypeOK, EditType
    <2>2. editing \in [CatalogRequests -> {"idle", "count", "list", "write", "delete", "done"}]
      BY DEF CatalogInv, CatalogTypeOK
    <2>3. QED
      BY <2>1, <2>2 DEF TakeSlug, GoesToList, EditType
  <1>2. SlugsAreOfNames'
    BY DEF RenamingInv, SlugsAreOfNames, There
  <1>3. SlugsToWrite'
    BY <1>1 DEF RenamingInv, SlugsToWrite
  <1>4. NewSlugsHaveNewNames'
    <2>1. ASSUME editing'[q] \in {"list", "write"}, edit[q].version > 0,
                 row[edit[q].row].version = edit[q].version
          PROVE  edit'[q].name # row'[edit'[q].row].name
      BY <1>1, <2>1 DEF RenamingInv, NewSlugsHaveNewNames
    <2>2. ASSUME NEW o \in CatalogRequests \ {q}
          PROVE  edit'[o] = edit[o] /\ editing'[o] = editing[o]
      BY <1>1
    <2>3. QED
      BY <1>1, <2>1, <2>2 DEF RenamingInv, NewSlugsHaveNewNames
  <1>5. QED
    BY <1>2, <1>3, <1>4 DEF RenamingInv

\* A write leaves its row with a slug of its name, and all who have read the row
\* before with an old version.
LEMMA WriteKeepsNames ==
    ASSUME CatalogInv, RenamingInv, NEW q \in CatalogRequests, WriteRow(q)
    PROVE  RenamingInv'
  <1> DEFINE r == edit[q].row
             new == Written(q)
  <1>1. /\ edit' = edit /\ editing'[q] = "done" /\ editing[q] \in {"write", "delete"}
        /\ \A o \in CatalogRequests \ {q} : editing'[o] = editing[o]
    BY DEF WriteRow, CatalogInv, CatalogTypeOK
  <1>2. SlugsToWrite'
    BY <1>1 DEF RenamingInv, SlugsToWrite
  <1>3. CASE ~SameVersion(q)
    <2>1. row' = row
      BY <1>3 DEF WriteRow
    <2>2. QED
      BY <1>1, <1>2, <2>1
      DEF RenamingInv, SlugsAreOfNames, There, NewSlugsHaveNewNames
  <1>4. CASE SameVersion(q)
    <2>1. /\ r \in Rows /\ row[r].version \in Nat
          /\ new.version = row[r].version + 1
      BY <1>1, WrittenRow
    <2>2. /\ row'[r] = new /\ \A s \in Rows \ {r} : row'[s] = row[s]
      BY <1>4, <2>1 DEF WriteRow, CatalogInv, CatalogTypeOK
    <2>3. AtWork(q)
      BY <1>1 DEF AtWork
    <2>4. MadeFrom(new.slug, new.name)
      <3>1. CASE editing[q] = "write"
        BY <3>1 DEF Written, RenamingInv, SlugsToWrite
      <3>2. CASE editing[q] = "delete"
        <4>1. r \in There
          BY <1>4, <2>1, <2>3, <3>2 DEF SameVersion, There, CatalogInv, CopiesAreOld
        <4>2. QED
          BY <3>2, <4>1 DEF Written, RenamingInv, SlugsAreOfNames
      <3>3. QED
        BY <1>1, <3>1, <3>2
    <2> HIDE DEF new
    <2>5. SlugsAreOfNames'
      BY <2>2, <2>4 DEF RenamingInv, SlugsAreOfNames, There
    <2>6. ASSUME NEW o \in CatalogRequests \ {q}, editing[o] \in {"count", "list", "write"},
                 edit[o].row = r, row'[r].version = edit[o].version
          PROVE  FALSE
      <3>1. edit[o].version <= row[r].version /\ edit[o].version \in Nat
        BY <2>6 DEF CatalogInv, CopiesAreOld, AtWork, CatalogTypeOK
      <3>2. QED
        BY <2>1, <2>2, <2>6, <3>1
    <2>7. ASSUME NEW o \in CatalogRequests, editing[o] \in {"count", "list", "write"}
          PROVE  edit[o].row \in Rows
      BY <2>7 DEF CatalogInv, CopiesAreOld, AtWork
    <2>8. NewSlugsHaveNewNames'
      BY <1>1, <2>2, <2>6, <2>7 DEF RenamingInv, NewSlugsHaveNewNames
    <2>9. QED
      BY <1>2, <2>5, <2>8 DEF RenamingInv
  <1>5. QED
    BY <1>3, <1>4

\* The invariant holds in every reachable state.
LEMMA RenamingHolds == CatalogSpec => []RenamingInv
  <1>1. CatalogInit => RenamingInv
    <2> SUFFICES ASSUME CatalogInit PROVE RenamingInv
      OBVIOUS
    <2>1. SlugsToWrite /\ NewSlugsHaveNewNames
      BY DEF CatalogInit, SlugsToWrite, NewSlugsHaveNewNames
    <2>2. ASSUME NEW r \in There
          PROVE  MadeFrom(row[r].slug, row[r].name)
      <3>1. r \in DOMAIN Existing
        BY DEF There, CatalogInit, NoRow
      <3>2. row[r].slug = Candidate(SlugOf[row[r].name], 1)
        BY <3>1 DEF CatalogInit, Candidate
      <3>3. Cardinality(Rows) \in Nat
        BY FS_CardinalityType
      <3>4. QED
        BY <3>2, <3>3 DEF MadeFrom
    <2>3. QED
      BY <2>1, <2>2 DEF RenamingInv, SlugsAreOfNames
  <1>2. CatalogInv /\ RenamingInv /\ [CatalogNext]_catalogVars => RenamingInv'
    <2> SUFFICES ASSUME CatalogInv, RenamingInv, [CatalogNext]_catalogVars
                 PROVE  RenamingInv'
      OBVIOUS
    <2>1. ASSUME NEW q \in CatalogRequests, NEW r \in Rows, NEW n \in Names \union {"none"}, NEW p,
                 CreateRow(q, r, n, p) \/ UpdateRow(q, r, n, p) \/ DeleteRow(q, r)
          PROVE  RenamingInv'
      BY <2>1, OperationsKeepNames
    <2>2. ASSUME NEW q \in CatalogRequests, CountSlugs(q) \/ ListSlugs(q)
          PROVE  RenamingInv'
      <3>1. editing[q] \in {"count", "list"} /\ row' = row
        BY <2>2 DEF CountSlugs, ListSlugs
      <3>2. CASE CountSlugs(q)
        <4>1. MadeFrom(BaseSlug(q), edit[q].name)
          BY <3>2, SlugsChosen
        <4>2. TakeSlug(q, BaseSlug(q)) \/ GoesToList(q)
          BY <3>2 DEF CountSlugs, GoesToList
        <4>3. QED
          BY <3>1, <4>1, <4>2, TakingKeepsNames
      <3>3. CASE ListSlugs(q)
        <4> DEFINE slug == FirstFree(BaseSlug(q), SlugsLike(q))
        <4>1. MadeFrom(slug, edit[q].name) /\ TakeSlug(q, slug)
          BY <3>3, SlugsChosen DEF ListSlugs
        <4> HIDE DEF slug
        <4>2. QED
          BY <3>1, <4>1, TakingKeepsNames
      <3>4. QED
        BY <2>2, <3>2, <3>3
    <2>3. ASSUME NEW q \in CatalogRequests, WriteRow(q)
          PROVE  RenamingInv'
      BY <2>3, WriteKeepsNames
    <2>4. CASE UNCHANGED catalogVars
      BY <2>4
      DEF catalogVars, RenamingInv, SlugsAreOfNames, There, SlugsToWrite, NewSlugsHaveNewNames
    <2>5. QED
      BY <2>1, <2>2, <2>3, <2>4
      DEF CatalogNext, CreateProduct, CreateCategory, UpdateProduct, UpdateCategory,
          DeleteProduct, DeleteCategory, Rows
  <1>3. QED
    BY <1>1, <1>2, CatalogInvHolds, PTL DEF CatalogSpec

\* The slug of a row is always one of its name, numbered by the rows there are.
THEOREM SlugsOfNames == CatalogSpec => []SlugsAreOfNames
  <1>1. RenamingInv => SlugsAreOfNames
    BY DEF RenamingInv
  <1>2. QED
    BY <1>1, RenamingHolds, PTL

\* A request that read its row before another deleted or renamed it undoes
\* neither: a deleted row is never written, and a slug changes with the name.
THEOREM LateWritesHarmless == CatalogSpec => LateWritesUndoNothing
  <1> DEFINE Sound(r) ==
                 row'[r] # row[r] =>
                     /\ r \in Live
                     /\ row'[r].slug # row[r].slug => row'[r].name # row[r].name
  <1>1. CatalogInv /\ RenamingInv /\ [CatalogNext]_catalogVars
        => [\A r \in There : Sound(r)]_catalogVars
    <2> SUFFICES ASSUME CatalogInv, RenamingInv, CatalogNext, NEW r \in There
                 PROVE  Sound(r)
      OBVIOUS
    <2>1. ASSUME NEW q \in CatalogRequests, WriteRow(q)
          PROVE  Sound(r)
      <3>1. CASE ~SameVersion(q)
        BY <2>1, <3>1 DEF WriteRow
      <3>2. CASE edit[q].row # r
        <4>1. row \in [Rows -> RowType] /\ r \in Rows
          BY DEF CatalogInv, CatalogTypeOK, RowType, There
        <4>2. \/ UNCHANGED row
              \/ row' = [row EXCEPT ![edit[q].row] = Written(q)]
          BY <2>1 DEF WriteRow
        <4>3. QED
          BY <3>2, <4>1, <4>2
      <3>3. CASE SameVersion(q) /\ edit[q].row = r
        <4>1. edit[q].version = row[r].version /\ row[r].version > 0 /\ r \in Rows
          BY <3>3 DEF SameVersion, There
        <4>2. AtWork(q)
          BY <2>1 DEF WriteRow, AtWork
        <4>3. r \in Live
          BY <3>3, <4>1, <4>2 DEF CatalogInv, CopiesAreOld, Live
        <4>4. row'[r] = Written(q)
          BY <2>1, <3>3, <4>1 DEF WriteRow, CatalogInv, CatalogTypeOK
        <4>5. CASE editing[q] = "delete"
          BY <3>3, <4>3, <4>4, <4>5 DEF Written
        <4>6. CASE editing[q] = "write"
          <5>1. edit[q].name # row[r].name \/ edit[q].slug = row[r].slug
            BY <3>3, <4>1, <4>6 DEF RenamingInv, NewSlugsHaveNewNames
          <5>2. QED
            BY <4>3, <4>4, <4>6, <5>1 DEF Written
        <4>7. QED
          BY <2>1, <4>5, <4>6 DEF WriteRow
      <3>4. QED
        BY <3>1, <3>2, <3>3
    <2>2. ASSUME NEW q \in CatalogRequests, CountSlugs(q) \/ ListSlugs(q)
          PROVE  Sound(r)
      BY <2>2 DEF CountSlugs, ListSlugs
    <2>3. ASSUME NEW q, NEW e, NEW step, Begin(q, e, step)
          PROVE  Sound(r)
      BY <2>3 DEF Begin
    <2>4. QED
      BY <2>1, <2>2, <2>3
      DEF CatalogNext, CreateProduct, CreateCategory, UpdateProduct, UpdateCategory,
          DeleteProduct, DeleteCategory, CreateRow, UpdateRow, DeleteRow
  <1>2. QED
    BY <1>1, CatalogInvHolds, RenamingHolds, PTL DEF CatalogSpec, LateWritesUndoNothing

\* The version column does the rest of optimistic locking: were the version of the
\* client compared with the one that is read, no update would overwrite a later
\* version than its client has seen.
THEOREM ComparedUpdatesAreSeen ==
    CatalogSpec /\ []ClientsAreCurrent => UpdatesTheVersionSeen
  <1> DEFINE Seen(q) ==
                 LET e == edit[q] IN
                 /\ editing[q] = "write" /\ e.version > 0
                 /\ editing'[q] = "done" /\ row'[e.row] # row[e.row]
                 => e.seen = row[e.row].version
  <1>1. CatalogInv /\ ClientsAreCurrent /\ [CatalogNext]_catalogVars
        => [\A q \in CatalogRequests : Seen(q)]_catalogVars
    <2> SUFFICES ASSUME CatalogInv, ClientsAreCurrent, CatalogNext, NEW q \in CatalogRequests,
                        editing[q] = "write", edit[q].version > 0,
                        editing'[q] = "done", row'[edit[q].row] # row[edit[q].row]
                 PROVE  edit[q].seen = row[edit[q].row].version
      OBVIOUS
    <2>1. ASSUME NEW o \in CatalogRequests, WriteRow(o)
          PROVE  edit[q].seen = row[edit[q].row].version
      <3>1. o = q
        BY <2>1 DEF WriteRow, CatalogInv, CatalogTypeOK
      <3>2. SameVersion(q)
        BY <2>1, <3>1 DEF WriteRow
      <3>3. QED
        BY <3>2 DEF SameVersion, ClientsAreCurrent
    <2>2. ASSUME NEW o \in CatalogRequests, CountSlugs(o) \/ ListSlugs(o)
          PROVE  FALSE
      BY <2>2 DEF CountSlugs, ListSlugs
    <2>3. ASSUME NEW o, NEW e, NEW step, Begin(o, e, step)
          PROVE  FALSE
      BY <2>3 DEF Begin
    <2>4. QED
      BY <2>1, <2>2, <2>3
      DEF CatalogNext, CreateProduct, CreateCategory, UpdateProduct, UpdateCategory,
          DeleteProduct, DeleteCategory, CreateRow, UpdateRow, DeleteRow
  <1>2. QED
    BY <1>1, CatalogInvHolds, PTL DEF CatalogSpec, UpdatesTheVersionSeen

-----------------------------------------------------------------------------
(* The category tree *)

\* A path of the tree: live categories, from a root, each the parent of the next.
Path(P) ==
    /\ P \in Seq(Categories) /\ P # <<>>
    /\ P[1] \in ChildrenOf(0)
    /\ \A i \in 1..(Len(P) - 1) : P[i + 1] \in ChildrenOf(P[i])

Depth == Cardinality(Categories)

LEMMA DepthType == IsFiniteSet(Categories) /\ Depth \in Nat
  BY FS_Subset, FS_CardinalityType DEF Rows, Depth

LEMMA Children ==
    ASSUME NEW c, NEW p
    PROVE  c \in ChildrenOf(p) <=> c \in Categories /\ c \in Live /\ row[c].parent = p
  BY DEF ChildrenOf

\* Paths grow at their end, and every beginning of a path is a path.
LEMMA PathGrows ==
    ASSUME NEW P, Path(P), NEW c \in ChildrenOf(P[Len(P)])
    PROVE  /\ Path(Append(P, c)) /\ Len(Append(P, c)) = Len(P) + 1
           /\ Append(P, c)[Len(P) + 1] = c
  <1>1. c \in Categories /\ P \in Seq(Categories) /\ Len(P) \in Nat \ {0}
    BY Children DEF Path
  <1> DEFINE Q == Append(P, c)
  <1>2. /\ Q \in Seq(Categories) /\ Len(Q) = Len(P) + 1 /\ Q[Len(P) + 1] = c
        /\ \A i \in 1..Len(P) : Q[i] = P[i]
    BY <1>1
  <1> HIDE DEF Q
  <1>3. Q # <<>>
    BY <1>1, <1>2
  <1>4. Q[1] \in ChildrenOf(0)
    BY <1>1, <1>2 DEF Path
  <1>5. ASSUME NEW i \in 1..(Len(Q) - 1) PROVE Q[i + 1] \in ChildrenOf(Q[i])
    <2>1. CASE i = Len(P)
      BY <1>1, <1>2, <2>1
    <2>2. CASE i # Len(P)
      <3>1. i \in 1..(Len(P) - 1) /\ i \in 1..Len(P) /\ i + 1 \in 1..Len(P)
        BY <1>1, <1>2, <2>2
      <3>2. QED
        BY <1>2, <3>1 DEF Path
    <2>3. QED
      BY <2>1, <2>2
  <1>6. QED
    BY <1>2, <1>3, <1>4, <1>5 DEF Path, Q

LEMMA PathBegins ==
    ASSUME NEW P, Path(P), NEW k \in 1..Len(P)
    PROVE  /\ Path(SubSeq(P, 1, k)) /\ Len(SubSeq(P, 1, k)) = k
           /\ \A i \in 1..k : SubSeq(P, 1, k)[i] = P[i]
  <1>1. P \in Seq(Categories) /\ Len(P) \in Nat /\ k \in Nat \ {0}
    BY DEF Path
  <1> DEFINE Q == SubSeq(P, 1, k)
  <1>2. Q \in Seq(Categories) /\ Len(Q) = k /\ \A i \in 1..k : Q[i] = P[i]
    BY <1>1
  <1> HIDE DEF Q
  <1>3. Q # <<>> /\ Q[1] \in ChildrenOf(0)
    BY <1>1, <1>2 DEF Path
  <1>4. ASSUME NEW i \in 1..(Len(Q) - 1) PROVE Q[i + 1] \in ChildrenOf(Q[i])
    <2>1. i \in 1..(Len(P) - 1) /\ i \in 1..k /\ i + 1 \in 1..k
      BY <1>1, <1>2
    <2>2. QED
      BY <1>2, <2>1 DEF Path
  <1>5. QED
    BY <1>2, <1>3, <1>4 DEF Path, Q

\* Only one path leads to a category: a row has one parent, and a root has none.
LEMMA PathUnique ==
    ASSUME NEW P, Path(P), NEW Q, Path(Q), P[Len(P)] = Q[Len(Q)]
    PROVE  P = Q
  <1>1. /\ P \in Seq(Categories) /\ Q \in Seq(Categories)
        /\ Len(P) \in Nat \ {0} /\ Len(Q) \in Nat \ {0}
        /\ \A i \in 1..Len(P) : P[i] \in Categories
        /\ \A i \in 1..Len(Q) : Q[i] \in Categories
    BY DEF Path
  <1>2. 0 \notin Categories
    BY DEF Rows
  <1> DEFINE Alike(k) == k < Len(P) /\ k < Len(Q) => P[Len(P) - k] = Q[Len(Q) - k]
             Bad == {k \in Nat : ~Alike(k)}
  <1>3. Bad = {}
    <2> SUFFICES ASSUME Bad # {} PROVE FALSE
      OBVIOUS
    <2>1. PICK k \in Bad : \A j \in Bad : k <= j
      <3>1. Bad \subseteq Nat
        OBVIOUS
      <3> HIDE DEF Bad
      <3>2. QED
        BY <3>1, LeastOfSet
    <2>2. k \in Nat /\ k < Len(P) /\ k < Len(Q) /\ P[Len(P) - k] # Q[Len(Q) - k]
      OBVIOUS
    <2>3. k # 0
      BY <1>1, <2>2
    <2>4. k - 1 \in Nat /\ k - 1 \notin Bad
      <3> HIDE DEF Bad
      <3>1. QED
        BY <2>1, <2>2, <2>3
    <2>5. P[Len(P) - (k - 1)] = Q[Len(Q) - (k - 1)]
      BY <1>1, <2>2, <2>4
    <2> DEFINE i == Len(P) - k
               j == Len(Q) - k
    <2>6. /\ i \in 1..(Len(P) - 1) /\ i + 1 = Len(P) - (k - 1)
          /\ j \in 1..(Len(Q) - 1) /\ j + 1 = Len(Q) - (k - 1)
      BY <1>1, <2>2, <2>3
    <2> HIDE DEF i, j
    <2>7. row[P[i + 1]].parent = P[i] /\ row[Q[j + 1]].parent = Q[j]
      BY <2>6, Children DEF Path
    <2>8. QED
      BY <2>2, <2>5, <2>6, <2>7 DEF i, j
  <1>4. \A k \in Nat : k < Len(P) /\ k < Len(Q) => P[Len(P) - k] = Q[Len(Q) - k]
    BY <1>3
  <1>5. ASSUME NEW R, Path(R), NEW S, Path(S), Len(R) < Len(S),
               \A k \in Nat : k < Len(R) /\ k < Len(S) => R[Len(R) - k] = S[Len(S) - k]
        PROVE  FALSE
    <2>1. Len(R) \in Nat \ {0} /\ Len(S) \in Nat /\ S \in Seq(Categories)
      BY <1>5 DEF Path
    <2> DEFINE j == Len(S) - Len(R)
    <2>2. j \in 1..(Len(S) - 1) /\ j \in 1..Len(S) /\ j + 1 = Len(S) - (Len(R) - 1)
      BY <1>5, <2>1
    <2>3. Len(R) - 1 \in Nat /\ Len(R) - 1 < Len(R) /\ Len(R) - 1 < Len(S)
          /\ Len(R) - (Len(R) - 1) = 1
      BY <1>5, <2>1
    <2>4. R[Len(R) - (Len(R) - 1)] = S[Len(S) - (Len(R) - 1)]
      BY <1>5, <2>3
    <2> HIDE DEF j
    <2>5. R[1] = S[j + 1]
      BY <2>2, <2>3, <2>4
    <2>6. row[R[1]].parent = 0 /\ row[S[j + 1]].parent = S[j] /\ S[j] \in Categories
      BY <1>5, <2>1, <2>2, Children DEF Path
    <2>7. QED
      BY <1>2, <2>5, <2>6
  <1>6. ~(Len(P) < Len(Q))
    BY <1>4, <1>5
  <1>7. ~(Len(Q) < Len(P))
    <2>1. \A k \in Nat : k < Len(Q) /\ k < Len(P) => Q[Len(Q) - k] = P[Len(P) - k]
      BY <1>4
    <2>2. QED
      BY <1>5, <2>1
  <1>8. Len(P) = Len(Q)
    BY <1>1, <1>6, <1>7
  <1>9. ASSUME NEW i \in 1..Len(P) PROVE P[i] = Q[i]
    <2>1. Len(P) - i \in Nat /\ Len(P) - i < Len(P) /\ Len(P) - (Len(P) - i) = i
      BY <1>1
    <2>2. P[Len(P) - (Len(P) - i)] = Q[Len(Q) - (Len(P) - i)]
      BY <1>4, <1>8, <2>1
    <2>3. QED
      BY <1>8, <2>1, <2>2
  <1>10. QED
    BY <1>1, <1>8, <1>9

\* So no path meets a category twice, and the levels of the tree are enough.
LEMMA PathShort ==
    ASSUME NEW P, Path(P)
    PROVE  Len(P) \in 1..Depth
  <1>1. P \in Seq(Categories) /\ Len(P) \in Nat \ {0} /\ P \in [1..Len(P) -> Categories]
    BY DEF Path
  <1>2. ASSUME NEW i \in 1..Len(P), NEW j \in 1..Len(P), P[i] = P[j] PROVE i = j
    <2>1. i \in Nat \ {0} /\ j \in Nat \ {0}
      BY <1>1
    <2>2. /\ Path(SubSeq(P, 1, i)) /\ Len(SubSeq(P, 1, i)) = i /\ SubSeq(P, 1, i)[i] = P[i]
          /\ Path(SubSeq(P, 1, j)) /\ Len(SubSeq(P, 1, j)) = j /\ SubSeq(P, 1, j)[j] = P[j]
      BY <2>1, PathBegins
    <2>3. SubSeq(P, 1, i) = SubSeq(P, 1, j)
      BY <1>2, <2>2, PathUnique
    <2>4. QED
      BY <2>2, <2>3
  <1>3. ~(Depth < Len(P))
    <2> SUFFICES ASSUME Depth < Len(P) PROVE FALSE
      OBVIOUS
    <2> DEFINE S == 1..Len(P)
    <2>1. IsFiniteSet(S) /\ Cardinality(S) = Len(P) /\ P \in [S -> Categories]
      BY <1>1, FS_Interval
    <2>2. \E i, j \in S : i # j /\ P[i] = P[j]
      <3> HIDE DEF S
      <3>1. IsFiniteSet(Categories) /\ Cardinality(Categories) < Cardinality(S)
        BY <2>1, DepthType DEF Depth
      <3>2. IsFiniteSet(S) /\ P \in [S -> Categories]
        BY <2>1
      <3> USE <3>1, <3>2
      <3> HIDE CatalogAssumption
      <3>3. QED
        BY Collision
    <2>3. QED
      BY <1>2, <2>2
  <1>4. QED
    BY <1>1, <1>3, DepthType

\* _build_tree finds the paths of each length.
LEMMA TreeLevels ==
    \A n \in 1..Depth : TreeLevel[n] = {P \in Seq(Categories) : Path(P) /\ Len(P) = n}
  <1> DEFINE Paths(n) == {P \in Seq(Categories) : Path(P) /\ Len(P) = n}
             Longer(n, level) == UNION {{Append(path, c) : c \in ChildrenOf(path[n - 1])} :
                                            path \in level}
             Rec(h) == [n \in 1..Depth |-> IF n = 1 THEN {<<c>> : c \in ChildrenOf(0)}
                                           ELSE Longer(n, h[n - 1])]
             g == [n \in 1..Depth |-> Paths(n)]
  <1>1. {<<c>> : c \in ChildrenOf(0)} = Paths(1)
    <2>1. ASSUME NEW c \in ChildrenOf(0) PROVE <<c>> \in Paths(1)
      <3>1. <<c>> \in Seq(Categories) /\ Len(<<c>>) = 1 /\ <<c>>[1] = c /\ <<c>> # <<>>
        BY Children
      <3>2. QED
        BY <3>1 DEF Path
    <2>2. ASSUME NEW P \in Paths(1) PROVE \E c \in ChildrenOf(0) : P = <<c>>
      <3>1. P \in Seq(Categories) /\ Len(P) = 1 /\ P[1] \in ChildrenOf(0)
        BY DEF Path
      <3>2. P = <<P[1]>>
        BY <3>1
      <3>3. QED
        BY <3>1, <3>2
    <2>3. QED
      BY <2>1, <2>2
  <1>2. ASSUME NEW n \in 1..Depth, n # 1 PROVE Longer(n, Paths(n - 1)) = Paths(n)
    <2>0. n \in Nat /\ n - 1 \in Nat \ {0} /\ (n - 1) + 1 = n
      BY <1>2, DepthType
    <2>1. ASSUME NEW P \in Paths(n - 1), NEW c \in ChildrenOf(P[n - 1])
          PROVE  Append(P, c) \in Paths(n)
      <3>1. Path(P) /\ Len(P) = n - 1
        OBVIOUS
      <3>2. Path(Append(P, c)) /\ Len(Append(P, c)) = n
        BY <2>0, <3>1, PathGrows
      <3>3. QED
        BY <3>2 DEF Path
    <2>2. ASSUME NEW Q \in Paths(n)
          PROVE  \E P \in Paths(n - 1) : \E c \in ChildrenOf(P[n - 1]) : Q = Append(P, c)
      <3> DEFINE P == SubSeq(Q, 1, n - 1)
      <3>1. Path(Q) /\ Len(Q) = n /\ Q \in Seq(Categories) /\ n - 1 \in 1..Len(Q)
        BY <2>0
      <3>2. Path(P) /\ Len(P) = n - 1 /\ \A i \in 1..(n - 1) : P[i] = Q[i]
        BY <3>1, PathBegins
      <3>3. P \in Paths(n - 1)
        BY <3>2 DEF Path
      <3>4. Q[n] \in ChildrenOf(Q[n - 1])
        BY <2>0, <3>1 DEF Path
      <3>5. P[n - 1] = Q[n - 1]
        BY <2>0, <3>2
      <3>6. Q = Append(P, Q[n])
        BY <2>0, <3>1
      <3>7. QED
        BY <3>3, <3>4, <3>5, <3>6
    <2>3. \A x : x \in Longer(n, Paths(n - 1))
                 <=> \E P \in Paths(n - 1) : \E c \in ChildrenOf(P[n - 1]) : x = Append(P, c)
      <3> HIDE DEF Paths
      <3>1. QED
        OBVIOUS
    <2> HIDE DEF Paths, Longer
    <2>4. \A x : x \in Longer(n, Paths(n - 1)) <=> x \in Paths(n)
      <3>1. ASSUME NEW x \in Longer(n, Paths(n - 1)) PROVE x \in Paths(n)
        <4>1. PICK P \in Paths(n - 1) : \E c \in ChildrenOf(P[n - 1]) : x = Append(P, c)
          BY <2>3
        <4>2. PICK c \in ChildrenOf(P[n - 1]) : x = Append(P, c)
          BY <4>1
        <4>3. Append(P, c) \in Paths(n)
          BY <2>1
        <4>4. QED
          BY <4>2, <4>3
      <3>2. ASSUME NEW x \in Paths(n) PROVE x \in Longer(n, Paths(n - 1))
        <4>1. \E P \in Paths(n - 1) : \E c \in ChildrenOf(P[n - 1]) : x = Append(P, c)
          BY <2>2
        <4>2. QED
          BY <2>3, <4>1
      <3>3. QED
        BY <3>1, <3>2
    <2> DEFINE S == Longer(n, Paths(n - 1))
               T == Paths(n)
    <2>5. \A x : x \in S <=> x \in T
      BY <2>4
    <2> HIDE DEF S, T
    <2>6. S = T
      BY <2>5
    <2>7. QED
      BY <2>6 DEF S, T
  <1>3. g = Rec(g)
    <2>1. ASSUME NEW n \in 1..Depth, n # 1 PROVE n - 1 \in 1..Depth
      BY <2>1, DepthType
    <2> HIDE DEF Paths, Longer
    <2>2. QED
      BY <1>1, <1>2, <2>1
  <1>4. TreeLevel = CHOOSE h : h = Rec(h)
    BY DEF TreeLevel, Depth
  <1> HIDE DEF Paths, Longer, g
  <1>5. TreeLevel = Rec(TreeLevel)
    <2> HIDE DEF Rec
    <2>1. QED
      BY <1>3, <1>4
  <1> DEFINE Bad == {n \in 1..Depth : TreeLevel[n] # Paths(n)}
  <1>6. Bad = {}
    <2> SUFFICES ASSUME Bad # {} PROVE FALSE
      OBVIOUS
    <2>1. PICK n \in Bad : \A j \in Bad : n <= j
      <3>1. Bad \subseteq Nat
        BY DepthType
      <3> HIDE DEF Bad
      <3>2. QED
        BY <3>1, LeastOfSet
    <2>2. n \in 1..Depth /\ TreeLevel[n] # Paths(n)
      OBVIOUS
    <2>3. TreeLevel[n] = IF n = 1 THEN {<<c>> : c \in ChildrenOf(0)}
                         ELSE Longer(n, TreeLevel[n - 1])
      BY <1>5, <2>2
    <2>4. n # 1
      BY <1>1, <2>2, <2>3
    <2>5. n - 1 \in 1..Depth /\ ~(n <= n - 1)
      BY <2>2, <2>4, DepthType
    <2>6. TreeLevel[n - 1] = Paths(n - 1)
      BY <2>1, <2>5
    <2>7. QED
      BY <1>2, <2>2, <2>3, <2>4, <2>6
  <1>7. QED
    BY <1>6 DEF Paths

LEMMA TreeIsPaths == Tree = {P \in Seq(Categories) : Path(P)}
  <1>1. \A P : P \in Tree <=> \E n \in 1..Depth : P \in TreeLevel[n]
    BY DEF Tree, Depth
  <1>2. \A P : P \in Tree <=> \E n \in 1..Depth : P \in Seq(Categories) /\ Path(P) /\ Len(P) = n
    BY <1>1, TreeLevels
  <1>3. QED
    BY <1>2, PathShort

Hangs(c) == \E cut \in SUBSET (Categories \intersect Live) : c \in cut /\ InTheAir(cut)

\* A category on a path does not hang in the air: the first category of the
\* path that is in the cut would have its parent on the path and out of it.
LEMMA PathsAreRooted ==
    ASSUME NEW P, Path(P)
    PROVE  P[Len(P)] \in Categories /\ P[Len(P)] \in Live /\ ~Hangs(P[Len(P)])
  <1>1. P \in Seq(Categories) /\ Len(P) \in Nat \ {0}
    BY DEF Path
  <1>2. ASSUME NEW i \in 1..Len(P)
        PROVE  /\ P[i] \in Categories /\ P[i] \in Live
               /\ i = 1 => row[P[i]].parent = 0
               /\ i # 1 => i - 1 \in 1..Len(P) /\ row[P[i]].parent = P[i - 1]
    <2>1. CASE i = 1
      BY <2>1, Children DEF Path
    <2>2. CASE i # 1
      <3>1. i - 1 \in 1..(Len(P) - 1) /\ (i - 1) + 1 = i /\ i - 1 \in 1..Len(P)
        BY <1>1, <2>2
      <3>2. P[i] \in ChildrenOf(P[i - 1])
        BY <3>1 DEF Path
      <3>3. QED
        BY <2>2, <3>1, <3>2, Children
    <2>3. QED
      BY <2>1, <2>2
  <1>3. ASSUME NEW cut \in SUBSET (Categories \intersect Live), P[Len(P)] \in cut, InTheAir(cut)
        PROVE  FALSE
    <2> DEFINE In == {i \in 1..Len(P) : P[i] \in cut}
    <2>1. Len(P) \in In /\ In \subseteq Nat
      BY <1>1, <1>3
    <2>2. PICK i \in In : \A j \in In : i <= j
      <3> HIDE DEF In
      <3>1. QED
        BY <2>1, LeastOfSet
    <2>3. row[P[i]].parent # 0 /\ (row[P[i]].parent \in cut \/ row[P[i]].parent \notin Live)
      BY <1>3 DEF InTheAir
    <2>4. i # 1 /\ i - 1 \in 1..Len(P) /\ row[P[i]].parent = P[i - 1] /\ P[i - 1] \in Live
      BY <1>2, <2>3
    <2>5. i - 1 \in In
      BY <2>3, <2>4
    <2>6. QED
      BY <1>1, <2>2, <2>4, <2>5
  <1>4. QED
    BY <1>1, <1>2, <1>3 DEF Hangs

\* Live categories without a path hang in the air, all of them together.
LEMMA TheRestHangs ==
    ASSUME CatalogTypeOK, NEW c \in Categories, c \in Live,
           ~\E P : Path(P) /\ P[Len(P)] = c
    PROVE  Hangs(c)
  <1> DEFINE cut == {d \in Categories \intersect Live : ~\E P : Path(P) /\ P[Len(P)] = d}
  <1>1. ASSUME NEW d \in cut
        PROVE  row[d].parent # 0 /\ (row[d].parent \in cut \/ row[d].parent \notin Live)
    <2>1. d \in Categories /\ d \in Live /\ row[d].parent \in Categories \union {0}
      BY DEF CatalogTypeOK, Rows
    <2>2. row[d].parent # 0
      <3> SUFFICES ASSUME row[d].parent = 0 PROVE FALSE
        OBVIOUS
      <3>1. <<d>> \in Seq(Categories) /\ Len(<<d>>) = 1 /\ <<d>>[1] = d /\ <<d>> # <<>>
        BY <2>1
      <3>2. d \in ChildrenOf(0)
        BY <2>1, Children
      <3>3. Path(<<d>>)
        BY <3>1, <3>2 DEF Path
      <3>4. QED
        BY <3>1, <3>3
    <2>3. ASSUME NEW P, Path(P), P[Len(P)] = row[d].parent PROVE FALSE
      <3>1. d \in ChildrenOf(P[Len(P)])
        BY <2>1, <2>3, Children
      <3>2. Path(Append(P, d)) /\ Append(P, d)[Len(Append(P, d))] = d
        BY <2>3, <3>1, PathGrows
      <3>3. QED
        BY <3>2
    <2>4. QED
      BY <2>1, <2>2, <2>3
  <1>2. InTheAir(cut) /\ c \in cut /\ cut \in SUBSET (Categories \intersect Live)
    <2>1. c \in cut /\ cut \in SUBSET (Categories \intersect Live)
      OBVIOUS
    <2> HIDE DEF cut
    <2>2. QED
      BY <1>1, <2>1 DEF InTheAir
  <1>3. QED
    BY <1>2 DEF Hangs

\* get_tree shows every live category exactly once, at the end of the one path
\* from its root, and leaves out just those that hang under a deleted category
\* or a cycle, whatever requests have moved and deleted side by side.
THEOREM TreeIsRooted == CatalogSpec => []TreeShowsTheRooted
  <1>1. CatalogTypeOK => TreeShowsTheRooted
    <2> SUFFICES ASSUME CatalogTypeOK, NEW c \in Categories
                 PROVE  Cardinality({path \in Tree : path[Len(path)] = c})
                        = IF c \in Live /\ ~Hangs(c) THEN 1 ELSE 0
      BY DEF TreeShowsTheRooted, Hangs
    <2> DEFINE To == {path \in Tree : path[Len(path)] = c}
    <2>1. \A P : P \in To <=> Path(P) /\ P[Len(P)] = c
      BY TreeIsPaths DEF Path
    <2> HIDE DEF To
    <2>2. CASE \E P : Path(P) /\ P[Len(P)] = c
      <3>1. PICK P : Path(P) /\ P[Len(P)] = c
        BY <2>2
      <3>2. To = {P}
        BY <2>1, <3>1, PathUnique
      <3>3. c \in Live /\ ~Hangs(c)
        BY <3>1, PathsAreRooted
      <3>4. QED
        BY <3>2, <3>3, FS_Singleton DEF To
    <2>3. CASE ~\E P : Path(P) /\ P[Len(P)] = c
      <3>1. To = {}
        BY <2>1, <2>3
      <3>2. ~(c \in Live /\ ~Hangs(c))
        BY <2>3, TheRestHangs
      <3>3. QED
        BY <3>1, <3>2, FS_EmptySet DEF To
    <2>4. QED
      BY <2>2, <2>3
  <1>2. QED
    BY <1>1, CatalogTypeCorrect, PTL

-----------------------------------------------------------------------------
(* CursorPages.  The order of a page is total, so a page that is not the last *)
(* one has a row with exactly limit - 1 rows ahead of it: its cursor.  The    *)
(* inductive invariant keeps what was returned on one side of the cursor and  *)
(* what was there all the while but not yet returned on the other.            *)

\* Rows that have been returned have been committed.
ShownWereLive == \A r \in ListRows : shown[r] > 0 => kept[r] \in {"live", "deleted"}

\* Nothing is returned before the first page, and then only what is not before
\* the cursor.
ShownAreBehind ==
    /\ reading = "first" => \A r \in ListRows : shown[r] = 0
    /\ sort = "desc" /\ reading = "next" =>
           \A r \in ListRows : shown[r] > 0 => ~BeforeCursor(r)

\* Rows that were there all the while are there.
StableAreLive ==
    /\ \A r \in stable : kept[r] = "live"
    /\ reading = "first" => stable = {}

PagesInv ==
    /\ PagesTypeOK
    /\ ShownWereLive
    /\ ShownAreBehind
    /\ StableAreLive
    /\ NoRowTwice
    /\ NoRowSkipped

HIDE CatalogAssumption
USE CursorPagesAssumption

-----------------------------------------------------------------------------
(* The order of a page *)

\* The order of the rows is strict and total.
LEMMA PageOrder ==
    ASSUME PagesTypeOK
    PROVE  /\ \A r \in ListRows : ~Precedes(r, r)
           /\ \A r, s \in ListRows : r # s => Precedes(r, s) \/ Precedes(s, r)
           /\ \A r, s, t \in ListRows :
                  Precedes(r, s) /\ Precedes(s, t) => Precedes(r, t)
  <1>1. \A r \in ListRows : r \in Nat /\ stamp[r] \in Nat
    BY DEF PagesTypeOK
  <1>2. CASE sort = "desc"
    BY <1>1, <1>2 DEF Precedes
  <1>3. CASE sort = "asc"
    BY <1>1, <1>3 DEF Precedes
  <1>4. QED
    BY <1>2, <1>3 DEF PagesTypeOK

\* The rows ahead of a row are counted; those of an earlier row are fewer, and
\* no row has as many as there are.
LEMMA AheadCounts ==
    ASSUME PagesTypeOK
    PROVE  /\ Cardinality(Matching) \in Nat
           /\ \A r \in ListRows : Ahead(r) \in Nat
           /\ \A r \in Matching : Ahead(r) < Cardinality(Matching)
           /\ \A r, s \in Matching : Precedes(s, r) => Ahead(s) < Ahead(r)
  <1> DEFINE Before(r) == {s \in Matching : Precedes(s, r)}
  <1>1. Matching \subseteq ListRows
    BY DEF Matching
  <1>2. IsFiniteSet(Matching) /\ Cardinality(Matching) \in Nat
    BY <1>1, FS_Subset, FS_CardinalityType
  <1>3. \A r : /\ Before(r) \in SUBSET Matching /\ IsFiniteSet(Before(r))
               /\ Cardinality(Before(r)) \in Nat /\ Ahead(r) = Cardinality(Before(r))
    BY <1>2, FS_Subset, FS_CardinalityType DEF Ahead
  <1>4. ASSUME NEW r \in Matching
        PROVE  Ahead(r) < Cardinality(Matching)
    <2>1. r \notin Before(r)
      BY <1>1, PageOrder
    <2>2. /\ Cardinality(Before(r)) <= Cardinality(Matching)
          /\ Cardinality(Matching) = Cardinality(Before(r)) => Matching = Before(r)
      BY <1>2, <1>3, FS_Subset
    <2>3. QED
      BY <1>2, <1>3, <2>1, <2>2
  <1>5. ASSUME NEW r \in Matching, NEW s \in Matching, Precedes(s, r)
        PROVE  Ahead(s) < Ahead(r)
    <2>1. s \in Before(r) /\ s \notin Before(s)
      BY <1>1, <1>5, PageOrder
    <2>2. Before(s) \in SUBSET Before(r)
      BY <1>1, <1>5, PageOrder
    <2>3. /\ Cardinality(Before(s)) <= Cardinality(Before(r))
          /\ Cardinality(Before(r)) = Cardinality(Before(s)) => Before(r) = Before(s)
      <3>1. IsFiniteSet(Before(r))
        BY <1>3
      <3> HIDE DEF Before
      <3>2. QED
        BY <2>2, <3>1, FS_Subset
    <2>4. QED
      BY <1>3, <2>1, <2>3
  <1>6. QED
    BY <1>2, <1>3, <1>4, <1>5

\* With more matching rows than the limit, one has exactly limit - 1 ahead.
LEMMA PageHasLast ==
    ASSUME PagesTypeOK, HasMore
    PROVE  \E r \in Page : Ahead(r) = limit - 1
  <1> DEFINE n == Cardinality(Matching)
             Ranks == 0..(n - 1)
             rank == [r \in Matching |-> Ahead(r)]
  <1>1. n \in Nat /\ n > limit /\ limit \in Nat \ {0} /\ Matching \subseteq ListRows
    BY AheadCounts DEF HasMore, PagesTypeOK, Matching
  <1>2. rank \in Injection(Matching, Ranks)
    <2>1. \A r \in Matching : Ahead(r) \in Ranks
      BY <1>1, AheadCounts
    <2>2. ASSUME NEW r \in Matching, NEW s \in Matching, Ahead(r) = Ahead(s)
          PROVE  r = s
      BY <1>1, <2>2, PageOrder, AheadCounts
    <2>3. QED
      BY <2>1, <2>2 DEF Injection, IsInjective
  <1>3. IsFiniteSet(Ranks) /\ Cardinality(Ranks) = n
    <2>1. 0 \in Int /\ n - 1 \in Int /\ ~(0 > n - 1) /\ (n - 1) - 0 + 1 = n
      BY <1>1
    <2> HIDE DEF n
    <2>2. QED
      BY <2>1, FS_Interval
  <1>4. rank \in Surjection(Matching, Ranks)
    BY <1>2, <1>3, FS_Injection
  <1>5. limit - 1 \in Ranks
    BY <1>1
  <1>6. PICK r \in Matching : Ahead(r) = limit - 1
    BY <1>4, <1>5 DEF Surjection
  <1>7. QED
    BY <1>1, <1>6 DEF Page

-----------------------------------------------------------------------------
(* The inductive step *)

\* The initial state satisfies the invariant.
LEMMA PagesInitInv == PagesInit => PagesInv
  <1> SUFFICES ASSUME PagesInit PROVE PagesInv
    OBVIOUS
  <1>1. PagesTypeOK
    BY DEF PagesInit, PagesTypeOK, NoCursor
  <1>2. /\ ShownWereLive /\ ShownAreBehind /\ StableAreLive
        /\ NoRowTwice /\ NoRowSkipped
    BY DEF PagesInit, ShownWereLive, ShownAreBehind, StableAreLive, NoRowTwice, NoRowSkipped
  <1>3. QED
    BY <1>1, <1>2 DEF PagesInv

\* The clock, insertions and deletions move no row that was returned or is
\* stable to the other side of the cursor.
LEMMA TableKeepsInv ==
    ASSUME PagesInv,
           \/ Tick
           \/ \E r \in ListRows : BeginInsert(r) \/ CommitInsert(r) \/ SoftDelete(r)
    PROVE  PagesInv'
  <1> USE DEF PagesInv
  <1>1. /\ UNCHANGED <<limit, sort, reading, cursor, shown>>
        /\ PagesTypeOK'
    <2>1. UNCHANGED <<limit, sort, reading, cursor, shown>>
      BY DEF Tick, BeginInsert, CommitInsert, SoftDelete, readerVars
    <2>2. CASE Tick
      BY <2>1, <2>2 DEF Tick, readerVars, PagesTypeOK
    <2>3. ASSUME NEW r \in ListRows, BeginInsert(r) PROVE PagesTypeOK'
      BY <2>1, <2>3 DEF BeginInsert, readerVars, PagesTypeOK
    <2>4. ASSUME NEW r \in ListRows, CommitInsert(r) PROVE PagesTypeOK'
      BY <2>1, <2>4 DEF CommitInsert, readerVars, PagesTypeOK
    <2>5. ASSUME NEW r \in ListRows, SoftDelete(r) PROVE PagesTypeOK'
      BY <2>1, <2>5 DEF SoftDelete, PagesTypeOK
    <2>6. QED
      BY <2>1, <2>2, <2>3, <2>4, <2>5
  <1>2. \A r \in ListRows : kept[r] # "absent" => stamp'[r] = stamp[r]
    BY DEF Tick, BeginInsert, CommitInsert, SoftDelete, PagesTypeOK
  <1>3. \A r \in ListRows : kept[r] \in {"live", "deleted"} => kept'[r] \in {"live", "deleted"}
    BY DEF Tick, BeginInsert, CommitInsert, SoftDelete, PagesTypeOK
  <1>4. stable' \subseteq stable /\ \A r \in stable' : kept'[r] = "live"
    BY DEF Tick, BeginInsert, CommitInsert, SoftDelete, readerVars, PagesTypeOK, StableAreLive
  <1>5. \A r \in ListRows : kept[r] # "absent" => (BeforeCursor(r)' <=> BeforeCursor(r))
    BY <1>1, <1>2 DEF BeforeCursor
  <1>6. ShownWereLive' /\ ShownAreBehind' /\ NoRowTwice'
    BY <1>1, <1>3, <1>5 DEF ShownWereLive, ShownAreBehind, NoRowTwice
  <1>7. StableAreLive' /\ NoRowSkipped'
    <2>1. \A r \in stable' : r \in ListRows /\ kept[r] # "absent" /\ r \in stable
      BY <1>4 DEF StableAreLive, PagesTypeOK
    <2>2. StableAreLive'
      BY <1>1, <1>4 DEF StableAreLive
    <2>3. NoRowSkipped'
      BY <1>1, <1>5, <2>1 DEF NoRowSkipped
    <2>4. QED
      BY <2>2, <2>3
  <1>8. QED
    BY <1>1, <1>6, <1>7

\* A row of the page is live, on the far side of the cursor, and new.
LEMMA PageIsNew ==
    ASSUME PagesInv, reading # "end", sort = "desc", NEW r \in Page
    PROVE  /\ r \in ListRows /\ r \in Matching /\ kept[r] = "live"
           /\ BeforeCursor(r) /\ shown[r] = 0
  <1>1. r \in ListRows /\ r \in Matching /\ kept[r] = "live" /\ BeforeCursor(r)
    BY DEF Page, Matching
  <1>2. shown[r] \in Nat
    BY <1>1 DEF PagesInv, PagesTypeOK
  <1>3. shown[r] = 0
    BY <1>1, <1>2 DEF PagesInv, ShownAreBehind, PagesTypeOK
  <1>4. QED
    BY <1>1, <1>3

\* A page keeps the types, in both orders.
LEMMA ReadTypes ==
    ASSUME PagesTypeOK, ReadPage
    PROVE  PagesTypeOK'
  <1>1. /\ UNCHANGED <<now, stamp, kept, limit, sort>>
        /\ shown' = [r \in ListRows |-> shown[r] + IF r \in Page THEN 1 ELSE 0]
        /\ stable' = IF reading = "first" THEN {r \in ListRows : kept[r] = "live"} ELSE stable
        /\ \/ HasMore /\ reading' = "next" /\ cursor' = NextCursor
           \/ reading' = "end" /\ UNCHANGED cursor
    BY DEF ReadPage, tableVars
  <1>2. shown' \in [ListRows -> Nat]
    <2>1. \A r \in ListRows : shown[r] + (IF r \in Page THEN 1 ELSE 0) \in Nat
      BY DEF PagesTypeOK
    <2>2. QED
      BY <1>1, <2>1
  <1>3. stable' \in SUBSET ListRows
    BY <1>1 DEF PagesTypeOK
  <1>4. cursor' \in [at : Nat, id : ListRows \union {0}]
    <2>1. CASE HasMore /\ cursor' = NextCursor
      <3>1. PICK last \in Page : NextCursor = [at |-> stamp[last], id |-> last]
        BY <2>1, PageHasLast DEF NextCursor
      <3>2. last \in ListRows /\ stamp[last] \in Nat
        BY DEF Page, Matching, PagesTypeOK
      <3>3. QED
        BY <2>1, <3>1, <3>2
    <2>2. QED
      BY <1>1, <2>1 DEF PagesTypeOK
  <1>5. QED
    BY <1>1, <1>2, <1>3, <1>4 DEF PagesTypeOK

\* A page keeps the invariant: its last row parts what was returned from what
\* is left.
LEMMA ReadKeepsInv ==
    ASSUME PagesInv, ReadPage
    PROVE  PagesInv'
  <1> USE DEF PagesInv
  <1>1. PagesTypeOK'
    BY ReadTypes
  <1>2. /\ reading # "end" /\ UNCHANGED <<now, stamp, kept, limit, sort>>
        /\ shown' = [r \in ListRows |-> shown[r] + IF r \in Page THEN 1 ELSE 0]
        /\ stable' = IF reading = "first" THEN {r \in ListRows : kept[r] = "live"} ELSE stable
        /\ reading' = IF HasMore THEN "next" ELSE "end"
        /\ HasMore => cursor' = NextCursor
    BY DEF ReadPage, tableVars
  <1>3. \A r \in Page : r \in ListRows /\ kept[r] = "live"
    BY DEF Page, Matching
  <1>4. \A r \in ListRows : /\ shown[r] \in Nat
                            /\ r \in Page => shown'[r] = shown[r] + 1
                            /\ r \notin Page => shown'[r] = shown[r]
    BY <1>2 DEF PagesTypeOK
  <1>5. ShownWereLive'
    BY <1>2, <1>3, <1>4 DEF ShownWereLive
  <1>6. StableAreLive'
    BY <1>2 DEF StableAreLive
  <1>7. CASE sort # "desc"
    BY <1>1, <1>2, <1>5, <1>6, <1>7 DEF ShownAreBehind, NoRowTwice, NoRowSkipped
  <1>8. CASE sort = "desc"
    <2>1. NoRowTwice'
      BY <1>2, <1>4, <1>8, PageIsNew DEF NoRowTwice
    <2>2. ASSUME HasMore
          PROVE  \E last \in Page : /\ Ahead(last) = limit - 1
                                    /\ \A r \in ListRows : BeforeCursor(r)' <=> Precedes(last, r)
      <3>1. PICK last \in Page : /\ Ahead(last) = limit - 1
                                 /\ NextCursor = [at |-> stamp[last], id |-> last]
        BY <2>2, PageHasLast DEF NextCursor
      <3>2. reading' = "next" /\ cursor'.at = stamp[last] /\ cursor'.id = last
        BY <1>2, <2>2, <3>1
      <3>3. \A r \in ListRows : r \in Nat /\ stamp[r] \in Nat
        BY DEF PagesTypeOK
      <3>4. ASSUME NEW r \in ListRows
            PROVE  BeforeCursor(r)' <=> Precedes(last, r)
        BY <1>2, <1>3, <1>8, <3>2, <3>3 DEF BeforeCursor, Precedes
      <3>5. QED
        BY <3>1, <3>4
    <2>3. ShownAreBehind'
      <3>1. SUFFICES ASSUME HasMore, NEW r \in ListRows, shown'[r] > 0
                     PROVE  ~BeforeCursor(r)'
        BY <1>2 DEF ShownAreBehind
      <3>2. PICK last \in Page : /\ Ahead(last) = limit - 1
                                 /\ BeforeCursor(r)' <=> Precedes(last, r)
        BY <2>2, <3>1
      <3>3. last \in Matching /\ last \in ListRows /\ BeforeCursor(last)
        BY <1>2, <1>8, PageIsNew
      <3>4. CASE r \in Page
        <4>1. r \in Matching /\ Ahead(r) < limit
          BY <3>4 DEF Page
        <4>2. Ahead(r) \in Nat /\ limit \in Nat
          BY AheadCounts DEF PagesTypeOK
        <4>3. Precedes(last, r) => Ahead(last) < Ahead(r)
          BY <3>3, <4>1, AheadCounts
        <4>4. QED
          BY <3>2, <4>1, <4>2, <4>3
      <3>5. CASE r \notin Page
        <4>1. shown[r] > 0
          BY <1>4, <3>1, <3>5
        <4>2. reading = "next" /\ ~BeforeCursor(r)
          BY <1>2, <1>8, <4>1 DEF ShownAreBehind, PagesTypeOK
        <4>3. /\ stamp[r] \in Nat /\ stamp[last] \in Nat /\ r \in Nat /\ last \in Nat
              /\ cursor.at \in Nat /\ cursor.id \in Nat
          <5>1. cursor.at \in Nat /\ cursor.id \in ListRows \union {0}
            BY DEF PagesTypeOK
          <5>2. stamp[r] \in Nat /\ stamp[last] \in Nat
            BY <3>3 DEF PagesTypeOK
          <5>3. r \in Nat /\ last \in Nat
            BY <3>3
          <5>4. cursor.id \in Nat
            <6>1. cursor.id \in ListRows \/ cursor.id = 0
              BY <5>1
            <6>2. 0 \in Nat /\ \A x \in ListRows : x \in Nat
              OBVIOUS
            <6>3. QED
              BY <6>1, <6>2, Zenon
          <5>5. QED
            BY <5>1, <5>2, <5>3, <5>4
        <4>4. ~Precedes(last, r)
          BY <1>8, <3>3, <4>2, <4>3 DEF BeforeCursor, Precedes
        <4>5. QED
          BY <3>2, <4>4
      <3>6. QED
        BY <3>4, <3>5
    <2>4. NoRowSkipped'
      <3>1. SUFFICES ASSUME NEW r \in stable'
                     PROVE  shown'[r] = 1 \/ (reading' = "next" /\ BeforeCursor(r)')
        BY DEF NoRowSkipped
      <3>2. r \in ListRows /\ kept[r] = "live"
        BY <1>2 DEF StableAreLive, PagesTypeOK
      <3>3. CASE shown[r] = 1
        <4>1. r \notin Page
          BY <1>2, <1>8, <3>3, PageIsNew
        <4>2. QED
          BY <1>4, <3>2, <3>3, <4>1
      <3>4. CASE r \in Page
        BY <1>2, <1>4, <1>8, <3>2, <3>4, PageIsNew
      <3>5. CASE shown[r] # 1 /\ r \notin Page
        <4>1. BeforeCursor(r)
          BY <1>2, <1>8, <3>5 DEF NoRowSkipped, BeforeCursor
        <4>2. r \in Matching
          BY <3>2, <4>1 DEF Matching
        <4>3. /\ Ahead(r) \in Nat /\ limit \in Nat /\ Cardinality(Matching) \in Nat
              /\ Ahead(r) < Cardinality(Matching) /\ ~(Ahead(r) < limit)
          BY <3>5, <4>2, AheadCounts DEF Page, PagesTypeOK, Matching
        <4>4. HasMore
          BY <4>3 DEF HasMore
        <4>5. PICK last \in Page : /\ Ahead(last) = limit - 1
                                   /\ BeforeCursor(r)' <=> Precedes(last, r)
          BY <2>2, <3>2, <4>4
        <4>6. last \in Matching /\ last \in ListRows /\ last # r
          BY <1>2, <1>8, <3>5, <4>5, PageIsNew
        <4>7. ~Precedes(r, last)
          <5>1. Precedes(r, last) => Ahead(r) < Ahead(last)
            BY <4>2, <4>6, AheadCounts
          <5>2. QED
            BY <4>3, <4>5, <5>1
        <4>8. Precedes(last, r)
          BY <3>2, <4>6, <4>7, PageOrder
        <4>9. QED
          BY <1>2, <4>4, <4>5, <4>8
      <3>6. QED
        BY <3>3, <3>4, <3>5
    <2>5. QED
      BY <1>1, <1>5, <1>6, <2>1, <2>3, <2>4
  <1>9. QED
    BY <1>7, <1>8

\* The invariant holds in every reachable state.
LEMMA PagesInvHolds == PagesSpec => []PagesInv
  <1>1. PagesInv /\ [PagesNext]_pagesVars => PagesInv'
    <2> SUFFICES ASSUME PagesInv, [PagesNext]_pagesVars PROVE PagesInv'
      OBVIOUS
    <2>1. CASE PagesNext
      BY <2>1, TableKeepsInv, ReadKeepsInv DEF PagesNext
    <2>2. CASE UNCHANGED pagesVars
      BY <2>2
      DEF pagesVars, tableVars, readerVars, PagesInv, PagesTypeOK, ShownWereLive,
          ShownAreBehind, StableAreLive, NoRowTwice, NoRowSkipped, BeforeCursor
    <2>3. QED
      BY <2>1, <2>2
  <1>2. QED
    BY PagesInitInv, <1>1, PTL DEF PagesSpec

-----------------------------------------------------------------------------
(* Theorems *)

\* Every variable of the pages keeps its type; the cursor names a row.
THEOREM PagesTypeCorrect == PagesSpec => []PagesTypeOK
  <1>1. PagesInv => PagesTypeOK
    BY DEF PagesInv
  <1>2. QED
    BY <1>1, PagesInvHolds, PTL

\* In the default order, no page returns a row that an earlier one returned.
THEOREM NothingTwice == PagesSpec => []NoRowTwice
  <1>1. PagesInv => NoRowTwice
    BY DEF PagesInv
  <1>2. QED
    BY <1>1, PagesInvHolds, PTL

\* In the default order, the pages return every row that was there at each of
\* them.
THEOREM NothingSkipped == PagesSpec => []NoRowSkipped
  <1>1. PagesInv => NoRowSkipped
    BY DEF PagesInv
  <1>2. QED
    BY <1>1, PagesInvHolds, PTL

\* In ascending order the rows past the cursor stay out of reach: the cursor only
\* moves back, and no row is returned that is not before it.
LEMMA OutOfReachStays ==
    ASSUME PagesInv, [PagesNext]_pagesVars, NEW r \in ListRows, OutOfReach(r)
    PROVE  OutOfReach(r)'
  <1> USE DEF PagesInv
  <1>1. stamp[r] \in Nat /\ cursor.at \in Nat
    BY DEF PagesTypeOK
  <1>2. CASE Tick \/ \E s \in ListRows : BeginInsert(s) \/ CommitInsert(s) \/ SoftDelete(s)
    BY <1>2
    DEF Tick, BeginInsert, CommitInsert, SoftDelete, OutOfReach, PagesTypeOK, readerVars
  <1>3. CASE ReadPage
    <2>1. reading = "next" /\ sort = "asc" /\ shown[r] = 0 /\ stamp[r] > cursor.at
      BY <1>3 DEF ReadPage, OutOfReach, PagesTypeOK
    <2>2. /\ sort' = sort /\ stamp' = stamp /\ kept' = kept
          /\ shown' = [s \in ListRows |-> shown[s] + IF s \in Page THEN 1 ELSE 0]
          /\ \/ HasMore /\ reading' = "next" /\ cursor' = NextCursor
             \/ reading' = "end" /\ UNCHANGED cursor
      BY <1>3 DEF ReadPage, tableVars
    <2>3. \A s \in Matching : s \in ListRows /\ stamp[s] \in Nat /\ stamp[s] <= cursor.at
      BY <1>1, <2>1 DEF Matching, BeforeCursor, PagesTypeOK
    <2>4. r \notin Page
      BY <1>1, <2>1, <2>3 DEF Page
    <2>5. shown'[r] = 0
      BY <2>1, <2>2, <2>4 DEF PagesTypeOK
    <2>6. stamp[r] > cursor'.at
      <3>1. CASE HasMore /\ cursor' = NextCursor
        <4>1. PICK last \in Page : NextCursor = [at |-> stamp[last], id |-> last]
          BY <3>1, PageHasLast DEF NextCursor
        <4>2. stamp[last] \in Nat /\ stamp[last] <= cursor.at
          BY <2>3 DEF Page
        <4>3. cursor'.at = stamp[last]
          BY <3>1, <4>1
        <4>4. QED
          BY <1>1, <2>1, <4>2, <4>3
      <3>2. QED
        BY <2>1, <2>2, <3>1
    <2>7. QED
      BY <2>1, <2>2, <2>5, <2>6 DEF OutOfReach
  <1>4. CASE UNCHANGED pagesVars
    BY <1>4 DEF pagesVars, tableVars, readerVars, OutOfReach
  <1>5. QED
    BY <1>2, <1>3, <1>4 DEF PagesNext

\* The first page in ascending order leaves out rows of its last row's time, or
\* later ones.
LEMMA FirstPageEnds ==
    ASSUME PagesInv, reading = "first", sort = "asc", ReadPage, HasMore,
           NEW r \in Matching \ Page
    PROVE  OutOfReach(r)' \/ stamp[r] = cursor'.at
  <1> USE DEF PagesInv
  <1>1. \E last \in Page : Ahead(last) = limit - 1
    BY PageHasLast
  <1> DEFINE last == CHOOSE s \in Page : Ahead(s) = limit - 1
  <1>2. last \in Page /\ Ahead(last) = limit - 1
    BY <1>1
  <1>3. cursor' = [at |-> stamp[last], id |-> last] /\ reading' = "next"
    BY DEF ReadPage, NextCursor
  <1> HIDE DEF last
  <1>4. /\ r \in ListRows /\ kept[r] = "live" /\ last \in ListRows /\ last \in Matching
        /\ stamp[r] \in Nat /\ stamp[last] \in Nat /\ limit \in Nat \ {0}
    BY <1>2 DEF Matching, Page, PagesTypeOK
  <1>5. ~Precedes(r, last)
    <2>1. ~(Ahead(r) < limit) /\ Ahead(r) \in Nat
      BY <1>4, AheadCounts DEF Page
    <2>2. ~(Ahead(r) < Ahead(last))
      BY <1>2, <1>4, <2>1
    <2>3. QED
      BY <1>4, <2>2, AheadCounts
  <1>6. stamp[r] >= stamp[last]
    BY <1>4, <1>5 DEF Precedes
  <1>7. /\ sort' = sort /\ stamp' = stamp /\ kept' = kept /\ shown'[r] = shown[r]
    BY <1>4 DEF ReadPage, tableVars, PagesTypeOK
  <1>8. shown[r] = 0
    BY <1>4 DEF ShownAreBehind
  <1>9. cursor'.at = stamp[last]
    BY <1>3
  <1>10. QED
    BY <1>3, <1>4, <1>6, <1>7, <1>8, <1>9 DEF OutOfReach

\* In ascending order the pages after the first never reach what it left out,
\* but for the rows of one time.
THEOREM AscendingEnds == PagesSpec => AscendingEndsAfterOnePage
  <1>1. PagesInv /\ [PagesNext]_pagesVars
        => [reading = "first" /\ sort = "asc" /\ ReadPage /\ HasMore
            => \A r \in Matching \ Page : OutOfReach(r)' \/ stamp[r] = cursor'.at]_pagesVars
    BY FirstPageEnds
  <1>2. PagesInv /\ [PagesNext]_pagesVars
        => [\A r \in ListRows : OutOfReach(r) => OutOfReach(r)']_pagesVars
    BY OutOfReachStays
  <1>3. QED
    BY <1>1, <1>2, PagesInvHolds, PTL DEF PagesSpec, AscendingEndsAfterOnePage

=============================================================================
