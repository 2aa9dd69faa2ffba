----------------------------- MODULE CursorPages -----------------------------
(***************************************************************************)
(* Keyset pagination as the four list endpoints (jobs, ledger entries,     *)
(* audit events, snapshots) do it, while transactions add rows.            *)
(*                                                                         *)
(* A row is its key: the timestamp `at' (created_at, posted_at,            *)
(* occurred_at or snapshot_at) and its id.  The timestamp is the start of  *)
(* the inserting transaction, so rows of one transaction tie and a row     *)
(* may become visible after younger ones; the id is random.                *)
(***************************************************************************)
EXTENDS Naturals, FiniteSets

CONSTANTS
    Writers,    \* transactions that insert rows
    Ids,        \* row ids; bound: as many rows as ids
    MaxClock,   \* bound: on the clock
    Limits,     \* page sizes the client asks for
    MaxLimit    \* the cap on the page size (200 in the code)

ASSUME KeyAssumption == Ids \subseteq Nat /\ MaxClock \in Nat
ASSUME LimitAssumption == Limits \subseteq Nat /\ MaxLimit \in Nat \ {0}

VARIABLES
    clock,      \* now()
    writer,     \* the open transactions: {} or the set of their timestamp
    rows,       \* the committed rows
    matching,   \* those the list's filter lets through
    walk        \* the client following next_cursor

vars == <<clock, writer, rows, matching, walk>>

Keys == [at : Nat, id : Ids]

(* A cursor is the key of a row, or none: a set of at most one key.  No    *)
(* digit is lost in the token, which prints nanoseconds where the table    *)
(* keeps microseconds.                                                     *)
WalkStates ==
    [pc : {"idle", "paging", "done"},
     limit : Nat,
     cursor : SUBSET Keys,
     page : SUBSET Keys,        \* the last page received
     before : SUBSET Keys,      \* the pages before it
     steady : SUBSET Keys]      \* rows that have matched since the start

IdleWalk == [pc |-> "idle", limit |-> 0, cursor |-> {}, page |-> {},
             before |-> {}, steady |-> {}]

TypeOK ==
    /\ clock \in Nat
    /\ writer \in [Writers -> SUBSET Nat]
    /\ rows \subseteq Keys /\ IsFiniteSet(rows)
    /\ matching \subseteq rows
    /\ walk \in WalkStates

Init ==
    /\ clock = 0
    /\ writer = [w \in Writers |-> {}]
    /\ rows = {}
    /\ matching = {}
    /\ walk = IdleWalk

-----------------------------------------------------------------------------
(* The writers.                                                            *)

ClockTicks ==
    /\ clock < MaxClock
    /\ clock' = clock + 1
    /\ UNCHANGED <<writer, rows, matching, walk>>

BeginTx(w) ==
    /\ writer[w] = {}
    /\ writer' = [writer EXCEPT ![w] = {clock}]
    /\ UNCHANGED <<clock, rows, matching, walk>>

NewRows(w, ids) == {[at |-> t, id |-> i] : t \in writer[w], i \in ids}

(* The rows of a transaction appear together, any number of them.          *)
CommitTx(w) ==
    /\ writer[w] # {}
    /\ \E ids \in SUBSET (Ids \ {r.id : r \in rows}) :
          /\ IsFiniteSet(NewRows(w, ids))
          /\ rows' = rows \union NewRows(w, ids)
          /\ \E match \in SUBSET NewRows(w, ids) :
                matching' = matching \union match
    /\ writer' = [writer EXCEPT ![w] = {}]
    /\ UNCHANGED <<clock, walk>>

(* A job changes its status, and so enters or leaves a list of one status. *)
FilterChanges(r) ==
    /\ matching' = IF r \in matching THEN matching \ {r}
                                     ELSE matching \union {r}
    /\ walk' = [walk EXCEPT !.steady = @ \ {r}]
    /\ UNCHANGED <<clock, writer, rows>>

-----------------------------------------------------------------------------
(* The query.                                                              *)

(* ORDER BY at DESC, id DESC: r is listed before s.                        *)
Newer(r, s) == r.at > s.at \/ (r.at = s.at /\ r.id > s.id)

(* Mutant: the row that ended the last page is listed again.               *)
FromCursor(cursor) == {r \in matching : \A c \in cursor : ~Newer(r, c)}

(* The WHERE clause: without a cursor everything, else what comes after it. *)
After(cursor) == {r \in matching : \A c \in cursor : Newer(c, r)}

(* What ORDER BY ... LIMIT n returns: the n newest rows after the cursor,  *)
(* or all of them if there are fewer.                                      *)
IsPage(page, cursor, n) ==
    /\ page \subseteq After(cursor)
    /\ \A r \in page, s \in After(cursor) : Newer(s, r) => s \in page
    /\ Cardinality(page) <= n
    /\ Cardinality(page) < n => page = After(cursor)

(* ParsePageParams refuses zero and caps the rest; the handler compares    *)
(* this value with the length of the page.                                 *)
PageLimit(asked) == IF asked > MaxLimit THEN MaxLimit ELSE asked

(* Mutant: the store's cap is one below the handler's.                     *)
LowerCap(limit) == IF limit > MaxLimit - 1 THEN MaxLimit - 1 ELSE limit

(* The store caps it once more, on its own; this is the value in LIMIT.    *)
StoreLimit(limit) == IF limit > MaxLimit THEN MaxLimit ELSE limit

HasMore(page, limit) == Cardinality(page) = limit

(* The cursor is the key of the page's last row.                           *)
NextCursor(page) == {r \in page : \A s \in page : s = r \/ Newer(s, r)}

-----------------------------------------------------------------------------
(* The client, which asks for the first page and then follows next_cursor. *)

StartWalk(asked) ==
    /\ walk.pc # "paging"
    /\ asked > 0
    /\ walk' = [IdleWalk EXCEPT !.pc = "paging", !.limit = PageLimit(asked),
                                !.steady = matching]
    /\ UNCHANGED <<clock, writer, rows, matching>>

ListPage ==
    /\ walk.pc = "paging"
    /\ \E page \in SUBSET matching :
          /\ IsPage(page, walk.cursor, StoreLimit(walk.limit))
          /\ walk' = [walk EXCEPT
                !.pc = IF HasMore(page, walk.limit) THEN @ ELSE "done",
                !.cursor = NextCursor(page),
                !.page = page,
                !.before = @ \union walk.page]
    /\ UNCHANGED <<clock, writer, rows, matching>>

Next ==
    \/ ClockTicks
    \/ \E w \in Writers : BeginTx(w) \/ CommitTx(w)
    \/ \E r \in rows : FilterChanges(r)
    \/ \E asked \in Limits : StartWalk(asked)
    \/ ListPage

Spec == Init /\ [][Next]_vars

-----------------------------------------------------------------------------
(* Properties.                                                             *)

(* Nothing is listed twice, and every page is older than the ones before,  *)
(* although rows with older timestamps become visible during the walk:     *)
(* the row comparison of the cursor clause and ORDER BY agree, ties too.   *)
WalkOrdered == \A r \in walk.before, s \in walk.page : Newer(r, s)

(* A walk that has come to an end (has_more is false) has listed every row *)
(* that was there at its start and matched all along, whatever page size   *)
(* was asked for: has_more, computed from the handler's cap and not by     *)
(* looking for another row, is never false too early.                      *)
WalkComplete ==
    walk.pc = "done" => walk.steady \subseteq walk.before \union walk.page

(* The inductive invariant of a walk: the limit is the one the store uses, *)
(* the cursor is a row of the last page, everything listed is at or before *)
(* it, and the steady rows not yet listed are after it.                    *)
IInv ==
    /\ TypeOK
    /\ WalkOrdered
    /\ WalkComplete
    /\ walk.steady \subseteq matching
    /\ walk.pc = "paging" =>
          /\ walk.limit \in 1..MaxLimit
          /\ walk.cursor = {} => walk.before \union walk.page = {}
          /\ walk.cursor \subseteq walk.page
          /\ \A c \in walk.cursor :
                /\ \A r \in walk.before \union walk.page : ~Newer(c, r)
                /\ \A r \in walk.steady :
                      Newer(c, r) \/ r \in walk.before \union walk.page
=============================================================================
