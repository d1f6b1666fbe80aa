---------------------------- MODULE KeyedCreate ----------------------------
(* What a creation guarded by a key promises, in one atomic step: the first  *)
(* request with a key makes its row, later ones are answered with that row,  *)
(* and any request may fail, before its row is made or after.  Creating an   *)
(* order and creating an account are shown to implement it.                  *)
EXTENDS Naturals, TLAPS

CONSTANTS
    Requests,  \* positive numbers; the row a request makes has its number
    KeyOf      \* the key each request carries

VARIABLES
    holder,    \* the row that has each key, 0 if none
    answer     \* the row each request was answered with, 0 if none yet

Keys == {KeyOf[r] : r \in Requests}

Init ==
    /\ holder = [k \in Keys |-> 0]
    /\ answer = [r \in Requests |-> 0]

\* The row is made; the answer may be lost.
Create(r) ==
    /\ holder[KeyOf[r]] = 0
    /\ holder' = [holder EXCEPT ![KeyOf[r]] = r]
    /\ answer' \in {answer, [answer EXCEPT ![r] = r]}

Repeat(r) ==
    /\ holder[KeyOf[r]] # 0
    /\ answer[r] = 0
    /\ answer' = [answer EXCEPT ![r] = holder[KeyOf[r]]]
    /\ UNCHANGED holder

Next == \E r \in Requests : Create(r) \/ Repeat(r)

Spec == Init /\ [][Next]_<<holder, answer>>

\* A key is held by a row made for it, and every answer names the row that holds
\* the key it was asked with: requests with one key are answered with one row.
OneRowPerKey ==
    /\ \A k \in Keys : holder[k] # 0 => holder[k] \in Requests /\ KeyOf[holder[k]] = k
    /\ \A r \in Requests : answer[r] # 0 => answer[r] = holder[KeyOf[r]]

\* A row is never replaced, and an answer is never taken back.
NothingTakenBack == [][
    /\ \A k \in Keys : holder[k] # 0 => holder'[k] = holder[k]
    /\ \A r \in Requests : answer[r] # 0 => answer'[r] = answer[r]]_<<holder, answer>>

-----------------------------------------------------------------------------

KeyedInv ==
    /\ holder \in [Keys -> Requests \union {0}]
    /\ answer \in [Requests -> Requests \union {0}]
    /\ OneRowPerKey

\* The invariant is inductive: a row is made only for a free key, which no
\* answer can have named.
LEMMA KeyedInvHolds == Spec => []KeyedInv
  <1> USE DEF KeyedInv, OneRowPerKey, Keys
  <1>1. Init => KeyedInv
    BY DEF Init
  <1>2. ASSUME KeyedInv, [Next]_<<holder, answer>>
        PROVE  KeyedInv'
    <2>1. ASSUME NEW r \in Requests, Create(r)
          PROVE  KeyedInv'
      BY <1>2, <2>1 DEF Create
    <2>2. ASSUME NEW r \in Requests, Repeat(r)
          PROVE  KeyedInv'
      BY <1>2, <2>2 DEF Repeat
    <2>3. CASE UNCHANGED <<holder, answer>>
      BY <1>2, <2>3
    <2>4. QED
      BY <1>2, <2>1, <2>2, <2>3 DEF Next
  <1>3. QED
    BY <1>1, <1>2, PTL DEF Spec

\* A creation guarded by a key is idempotent: one row for each key, which every
\* answer names for good.
THEOREM KeyedIsIdempotent == Spec => []OneRowPerKey /\ NothingTakenBack
  <1>1. KeyedInv => OneRowPerKey
    BY DEF KeyedInv
  <1>2. ASSUME KeyedInv, [Next]_<<holder, answer>>
        PROVE  [ /\ \A k \in Keys : holder[k] # 0 => holder'[k] = holder[k]
                 /\ \A r \in Requests : answer[r] # 0 => answer'[r] = answer[r]
               ]_<<holder, answer>>
    BY <1>2 DEF Next, Create, Repeat, KeyedInv, OneRowPerKey, Keys
  <1>3. QED
    BY <1>1, <1>2, KeyedInvHolds, PTL DEF Spec, NothingTakenBack

=============================================================================
