-------------------------- MODULE CursorPagesProofs --------------------------
(***************************************************************************)
(* Proofs about CursorPages, for any table, any number of writers and any  *)
(* page size.                                                              *)
(***************************************************************************)
EXTENDS CursorPages, FiniteSetTheorems, WellFoundedInduction, TLAPS

(* ORDER BY is a strict total order on keys.                               *)
LEMMA NewerTotal ==
    ASSUME NEW r \in Keys, NEW s \in Keys
    PROVE  r = s \/ Newer(r, s) \/ Newer(s, r)
<1>1. r = [at |-> r.at, id |-> r.id] /\ s = [at |-> s.at, id |-> s.id]
    BY DEF Keys
<1>2. r.at \in Nat /\ s.at \in Nat /\ r.id \in Nat /\ s.id \in Nat
    BY KeyAssumption DEF Keys
<1>3. QED
    BY <1>1, <1>2 DEF Newer

(* ORDER BY compares timestamps, then ids: what it orders is transitive.   *)
LEMMA NewerTransitive ==
    ASSUME NEW r \in Keys, NEW s \in Keys, NEW t \in Keys,
           Newer(r, s), Newer(s, t)
    PROVE  Newer(r, t)
<1>1. /\ r.at \in Nat /\ s.at \in Nat /\ t.at \in Nat
      /\ r.id \in Nat /\ s.id \in Nat /\ t.id \in Nat
    BY KeyAssumption DEF Keys
<1>2. QED
    BY <1>1 DEF Newer

(* No row comes before itself, which is what the strict comparison of the  *)
(* cursor needs.                                                           *)
LEMMA NewerIrreflexive ==
    ASSUME NEW r \in Keys
    PROVE  ~Newer(r, r)
<1>1. r.at \in Nat /\ r.id \in Nat
    BY KeyAssumption DEF Keys
<1>2. QED
    BY <1>1 DEF Newer

(* A set of numbers that is not empty has a least one.                     *)
LEMMA LeastNumber ==
    ASSUME NEW S \in SUBSET Nat, S # {}
    PROVE  \E n \in S : \A k \in S : n <= k
<1>1. IsWellFoundedOn(OpToRel(<, Nat), Nat)
    BY NatLessThanWellFounded
<1>2. PICK n \in S : \A k \in S : ~(<<k, n>> \in OpToRel(<, Nat))
    BY <1>1, WFMin, Zenon
<1>3. \A k \in S : ~(k < n)
    BY <1>2 DEF OpToRel
<1>4. QED
    BY <1>3

(* A page that is not empty has a last row, and so a cursor.               *)
LEMMA CursorExists ==
    ASSUME NEW page \in SUBSET Keys, page # {}
    PROVE  NextCursor(page) # {}
<1> DEFINE ats == {r.at : r \in page}
<1>1. ats \in SUBSET Nat /\ ats # {}
    BY DEF Keys
<1>2. PICK a \in ats : \A k \in ats : a <= k
    BY <1>1, LeastNumber
<1> DEFINE ids == {r.id : r \in {x \in page : x.at = a}}
<1>3. ids \in SUBSET Nat /\ ids # {}
    BY <1>2, KeyAssumption DEF Keys
<1>4. PICK i \in ids : \A k \in ids : i <= k
    BY <1>3, LeastNumber
<1>5. PICK r \in page : r.at = a /\ r.id = i
    BY <1>4
<1>6. \A s \in page : ~Newer(r, s)
    BY <1>1, <1>2, <1>3, <1>4, <1>5, KeyAssumption DEF Newer, Keys
<1>7. \A s \in page : s = r \/ Newer(s, r)
    BY <1>6, NewerTotal
<1>8. QED
    BY <1>7 DEF NextCursor

(* With a cursor or without, a page lists nothing that was listed before,  *)
(* and what it leaves out of the rows after the cursor is older than all   *)
(* that it lists.                                                          *)
LEMMA PageCuts ==
    ASSUME matching \subseteq Keys, NEW cursor \in SUBSET Keys, NEW n \in Nat,
           NEW page \in SUBSET matching, IsPage(page, cursor, n),
           NEW c \in NextCursor(page)
    PROVE  /\ c \in page
           /\ \A r \in page : ~Newer(c, r)
           /\ \A r \in After(cursor) : Newer(c, r) \/ r \in page
<1>1. c \in page /\ c \in Keys /\ \A s \in page : s = c \/ Newer(s, c)
    BY DEF NextCursor
<1>2. ASSUME NEW r \in page, Newer(c, r) PROVE FALSE
    BY <1>1, <1>2, NewerTransitive, NewerIrreflexive
<1>3. ASSUME NEW r \in After(cursor) PROVE Newer(c, r) \/ r \in page
    <2>1. r \in Keys
        BY DEF After
    <2>2. r = c \/ Newer(r, c) \/ Newer(c, r)
        BY <1>1, <2>1, NewerTotal
    <2>3. QED
        BY <1>1, <2>2 DEF IsPage
<1>4. QED
    BY <1>1, <1>2, <1>3

(* The table of no rows, without a walk.                                   *)
LEMMA InitIInv == Init => IInv
<1> SUFFICES ASSUME Init PROVE IInv
    OBVIOUS
<1>1. IsFiniteSet({})
    BY FS_EmptySet
<1>2. TypeOK
    BY <1>1 DEF Init, TypeOK, IdleWalk, WalkStates
<1>3. QED
    BY <1>2 DEF Init, IInv, IdleWalk, WalkOrdered, WalkComplete

(* A step that leaves the walk alone, and lets no steady row go, keeps the *)
(* invariant.                                                              *)
LEMMA TableIInv ==
    ASSUME IInv, TypeOK', matching \subseteq matching', UNCHANGED walk
    PROVE  IInv'
<1>1. walk'.steady \subseteq matching'
    BY DEF IInv
<1>2. QED
    BY <1>1 DEF IInv, WalkOrdered, WalkComplete, Newer

(* Rows appear at a commit; the walk does not notice.                      *)
LEMMA CommitIInv ==
    ASSUME IInv, NEW w \in Writers, CommitTx(w)
    PROVE  IInv'
<1>1. PICK ids \in SUBSET (Ids \ {r.id : r \in rows}) :
        /\ IsFiniteSet(NewRows(w, ids))
        /\ rows' = rows \union NewRows(w, ids)
        /\ \E match \in SUBSET NewRows(w, ids) :
              matching' = matching \union match
    BY DEF CommitTx
<1>2. writer[w] \subseteq Nat
    BY DEF IInv, TypeOK
<1>3. NewRows(w, ids) \subseteq Keys
    BY <1>2 DEF Keys, NewRows
<1>4. IsFiniteSet(rows \union NewRows(w, ids))
    <2>1. IsFiniteSet(rows)
        BY DEF IInv, TypeOK
    <2>2. QED
        BY <1>1, <2>1, FS_Union
<1>5. TypeOK'
    BY <1>1, <1>3, <1>4 DEF IInv, TypeOK, CommitTx
<1>6. QED
    BY <1>1, <1>5, TableIInv DEF CommitTx

(* A row whose membership in the list changes is no longer steady.         *)
LEMMA FilterIInv ==
    ASSUME IInv, NEW r \in rows, FilterChanges(r)
    PROVE  IInv'
<1>1. /\ walk'.pc = walk.pc /\ walk'.limit = walk.limit
      /\ walk'.cursor = walk.cursor /\ walk'.page = walk.page
      /\ walk'.before = walk.before /\ walk'.steady = walk.steady \ {r}
      /\ walk' \in WalkStates
    BY DEF IInv, TypeOK, WalkStates, FilterChanges
<1>2. TypeOK' /\ walk'.steady \subseteq matching'
    BY <1>1 DEF IInv, TypeOK, FilterChanges
<1>3. QED
    BY <1>1, <1>2 DEF IInv, WalkOrdered, WalkComplete, Newer

(* A new walk has a limit that the store does not cut.                     *)
LEMMA StartIInv ==
    ASSUME IInv, NEW asked \in Limits, StartWalk(asked)
    PROVE  IInv'
<1>1. asked \in Nat /\ PageLimit(asked) \in 1..MaxLimit
    BY LimitAssumption DEF StartWalk, PageLimit
<1>2. /\ walk'.pc = "paging" /\ walk'.limit = PageLimit(asked)
      /\ walk'.cursor = {} /\ walk'.page = {} /\ walk'.before = {}
      /\ walk'.steady = matching
    BY DEF StartWalk, IdleWalk
<1>3. TypeOK'
    <2>1. matching \subseteq Keys /\ PageLimit(asked) \in Nat
        BY <1>1, LimitAssumption DEF IInv, TypeOK
    <2>2. walk' = [pc |-> "paging", limit |-> PageLimit(asked), cursor |-> {},
                   page |-> {}, before |-> {}, steady |-> matching]
        BY DEF StartWalk, IdleWalk
    <2>3. walk' \in WalkStates
        BY <2>1, <2>2 DEF WalkStates
    <2>4. QED
        BY <2>3 DEF IInv, TypeOK, StartWalk
<1>4. QED
    BY <1>1, <1>2, <1>3, LimitAssumption
       DEF IInv, WalkOrdered, WalkComplete, StartWalk

(* A page keeps the order, and ends the walk only if nothing is left.      *)
LEMMA ListIInv ==
    ASSUME IInv, ListPage
    PROVE  IInv'
<1>1. PICK page \in SUBSET matching :
        /\ IsPage(page, walk.cursor, StoreLimit(walk.limit))
        /\ walk' = [walk EXCEPT
              !.pc = IF HasMore(page, walk.limit) THEN @ ELSE "done",
              !.cursor = NextCursor(page),
              !.page = page,
              !.before = @ \union walk.page]
    BY DEF ListPage
<1> DEFINE listed == walk.before \union walk.page
<1>2. /\ walk \in WalkStates /\ walk.pc = "paging"
      /\ matching \subseteq Keys /\ walk.steady \subseteq matching
      /\ walk.limit \in 1..MaxLimit /\ walk.cursor \subseteq Keys
      /\ listed \subseteq Keys
    BY DEF IInv, TypeOK, ListPage, WalkStates
<1>3. walk.limit \in Nat \ {0} /\ StoreLimit(walk.limit) = walk.limit
    BY <1>2, LimitAssumption DEF StoreLimit
<1>4. NextCursor(page) \subseteq page
    BY DEF NextCursor
<1>5. /\ walk'.pc = IF HasMore(page, walk.limit) THEN "paging" ELSE "done"
      /\ walk'.limit = walk.limit /\ walk'.cursor = NextCursor(page)
      /\ walk'.page = page /\ walk'.before = listed
      /\ walk'.steady = walk.steady
      /\ walk' \in WalkStates
    BY <1>1, <1>2, <1>4 DEF WalkStates
<1>6. UNCHANGED <<clock, writer, rows, matching>>
    BY DEF ListPage
<1>7. TypeOK'
    BY <1>5, <1>6 DEF IInv, TypeOK
<1>8. WalkOrdered'
    <2> SUFFICES ASSUME NEW r \in listed, NEW s \in page PROVE Newer(r, s)
        BY <1>5 DEF WalkOrdered, Newer
    <2>1. PICK c \in walk.cursor : TRUE
        BY <1>2 DEF IInv
    <2>2. ~Newer(c, r) /\ Newer(c, s)
        BY <1>1, <1>2, <2>1 DEF IInv, IsPage, After
    <2>3. r = c \/ Newer(r, c)
        BY <1>2, <2>1, <2>2, NewerTotal
    <2>4. QED
        BY <1>2, <2>1, <2>2, <2>3, NewerTransitive
<1>9. walk.steady \subseteq listed \union After(walk.cursor)
    BY <1>2 DEF IInv, After
<1>10. Cardinality(page) \in Nat
    BY <1>2, FS_Subset, FS_CardinalityType DEF IInv, TypeOK
<1>11. WalkComplete'
    <2> SUFFICES ASSUME ~HasMore(page, walk.limit)
                 PROVE  walk.steady \subseteq listed \union page
        BY <1>5 DEF WalkComplete
    <2>1. Cardinality(page) < walk.limit
        BY <1>1, <1>3, <1>10 DEF IsPage, HasMore
    <2>2. page = After(walk.cursor)
        BY <1>1, <1>3, <2>1 DEF IsPage
    <2>3. QED
        BY <1>9, <2>2
<1>12. ASSUME HasMore(page, walk.limit)
       PROVE  NextCursor(page) # {}
    <2>1. page # {}
        BY <1>3, <1>12, FS_EmptySet DEF HasMore
    <2>2. QED
        BY <1>2, <2>1, CursorExists
<1>13. ASSUME NEW c \in NextCursor(page)
       PROVE  /\ \A r \in listed \union page : ~Newer(c, r)
              /\ \A r \in walk.steady : Newer(c, r) \/ r \in listed \union page
    <2>1. /\ c \in page /\ \A r \in page : ~Newer(c, r)
          /\ \A r \in After(walk.cursor) : Newer(c, r) \/ r \in page
        BY <1>1, <1>2, <1>3, PageCuts
    <2>2. ASSUME NEW r \in listed, Newer(c, r) PROVE FALSE
        <3>1. Newer(r, c)
            BY <1>5, <1>8, <2>1 DEF WalkOrdered, Newer
        <3>2. QED
            BY <1>2, <2>1, <2>2, <3>1, NewerTransitive, NewerIrreflexive
    <2>3. QED
        BY <1>9, <2>1, <2>2
<1>14. walk'.pc = "paging" =>
          /\ walk'.limit \in 1..MaxLimit
          /\ walk'.cursor = {} => walk'.before \union walk'.page = {}
          /\ walk'.cursor \subseteq walk'.page
          /\ \A c \in walk'.cursor :
                /\ \A r \in walk'.before \union walk'.page : ~Newer(c, r)
                /\ \A r \in walk'.steady :
                      Newer(c, r) \/ r \in walk'.before \union walk'.page
    <2> SUFFICES ASSUME HasMore(page, walk.limit)
                 PROVE  /\ walk.limit \in 1..MaxLimit
                        /\ NextCursor(page) # {}
                        /\ NextCursor(page) \subseteq page
                        /\ \A c \in NextCursor(page) :
                              /\ \A r \in listed \union page : ~Newer(c, r)
                              /\ \A r \in walk.steady :
                                    Newer(c, r) \/ r \in listed \union page
        BY <1>5, Zenon
    <2>1. QED
        BY <1>2, <1>4, <1>12, <1>13
<1>15. walk'.steady \subseteq matching'
    BY <1>2, <1>5, <1>6
<1>16. QED
    BY <1>7, <1>8, <1>11, <1>14, <1>15, LimitAssumption DEF IInv, Newer

(* The inductive invariant of a walk over a table that others add to:      *)
(* everything listed is at or before the cursor, and every steady row that *)
(* is not listed comes after it.                                           *)
THEOREM InductiveInvariant == Spec => []IInv
<1>1. ASSUME IInv, [Next]_vars PROVE IInv'
    <2>1. CASE ClockTicks
        <3>1. TypeOK'
            BY <1>1, <2>1 DEF IInv, TypeOK, ClockTicks
        <3>2. QED
            BY <1>1, <2>1, <3>1, TableIInv DEF ClockTicks
    <2>2. ASSUME NEW w \in Writers, BeginTx(w) PROVE IInv'
        <3>1. TypeOK'
            BY <1>1, <2>2 DEF IInv, TypeOK, BeginTx
        <3>2. QED
            BY <1>1, <2>2, <3>1, TableIInv DEF BeginTx
    <2>3. ASSUME NEW w \in Writers, CommitTx(w) PROVE IInv'
        BY <1>1, <2>3, CommitIInv
    <2>4. ASSUME NEW r \in rows, FilterChanges(r) PROVE IInv'
        BY <1>1, <2>4, FilterIInv
    <2>5. ASSUME NEW asked \in Limits, StartWalk(asked) PROVE IInv'
        BY <1>1, <2>5, StartIInv
    <2>6. CASE ListPage
        BY <1>1, <2>6, ListIInv
    <2>7. CASE UNCHANGED vars
        <3>1. TypeOK'
            BY <1>1, <2>7 DEF IInv, TypeOK, vars
        <3>2. QED
            BY <1>1, <2>7, <3>1, TableIInv DEF vars
    <2>8. QED
        BY <1>1, <2>1, <2>2, <2>3, <2>4, <2>5, <2>6, <2>7 DEF Next
<1>2. QED
    BY InitIInv, <1>1, PTL DEF Spec

(* No list endpoint shows a client that follows next_cursor a row twice or *)
(* out of order, whatever commits between the pages.                       *)
THEOREM WalksAreOrdered == Spec => []WalkOrdered
<1>1. IInv => WalkOrdered
    BY DEF IInv
<1>2. QED
    BY <1>1, InductiveInvariant, PTL

(* A walk that ends has missed no row that was there all along.            *)
THEOREM WalksAreComplete == Spec => []WalkComplete
<1>1. IInv => WalkComplete
    BY DEF IInv
<1>2. QED
    BY <1>1, InductiveInvariant, PTL
=============================================================================
