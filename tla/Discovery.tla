------------------------------ MODULE Discovery ------------------------------
(* The list of markets: the API pages through the Market table, newest first, *)
(* with a cursor that holds the last row's creation time to the second        *)
(* (apps/api-worker/src/read-model.ts); the home page shows the first page of *)
(* its filter and appends the next ones (apps/web/app/page.tsx), its requests *)
(* answered in any order while the user changes the filter.                   *)
EXTENDS Integers, FiniteSets, FiniteSetsExt

CONSTANTS
    Markets,       \* the rows, in order of creation: 1 .. n
    CreatedAt, Id, \* when each was created, in ticks, and its id
    SECOND,        \* ticks of a second
    Class,         \* the filter each falls under
    Filters,
    Limit,         \* rows of a page
    Mores,         \* requests for more
    MaxChanges     \* bound on changes of the filter

None == "none"
Start == 0
Off == [at |-> None]
Absent == [loaded |-> FALSE, items |-> {}, next |-> Start]

VARIABLES
    created,     \* the rows of the table: 1 .. created
    filter,
    changes,     \* changes of the filter: the effect's run
    first,       \* the filter of the first page awaited, None when it is there
    late,        \* filters of first pages asked for and then cancelled
    page,        \* what is shown, and nextCursor (Start: null)
    more,        \* requests for more: their filter and cursor; run is history,
                 \* the change of the filter they were made after
    stray,       \* history: the page has rows asked for before the filter of
                 \* now was last chosen
    loadingMore, \* the button is waiting
    error        \* an error is shown instead of the button
vars == <<created, filter, changes, first, late, page, more, stray, loadingMore, error>>

TypeOK ==
    /\ created \in Markets \cup {0}
    /\ filter \in Filters /\ changes \in 0 .. MaxChanges
    /\ first \in Filters \cup {None} /\ late \subseteq Filters
    /\ page.items \subseteq Markets /\ page.next \in Markets \cup {Start}
    /\ \A m \in Mores : more[m].at \in {None, "asked"}
    /\ stray \in BOOLEAN /\ loadingMore \in BOOLEAN /\ error \in BOOLEAN

Init ==
    /\ created \in Markets \cup {0}
    /\ filter \in Filters /\ changes = 0
    /\ first = filter /\ late = {}
    /\ page = Absent
    /\ more = [m \in Mores |-> Off]
    /\ stray = FALSE
    /\ loadingMore = FALSE /\ error = FALSE

(* ORDER BY "createdAt", "id": the rows are numbered in that order.  The      *)
(* cursor is String(createdAt), which drops the milliseconds, and the id: it  *)
(* stands at the start of its row's second.                                  *)
SecondOf(m) == CreatedAt[m] \div SECOND
BeforeCursor(m, cursor) ==
    \/ cursor = Start
    \/ CreatedAt[m] < SECOND * SecondOf(cursor)
    \/ CreatedAt[m] = SECOND * SecondOf(cursor) /\ Id[m] < Id[cursor]

Matching(f, cursor) ==
    {m \in 1 .. created : Class[m] = f /\ BeforeCursor(m, cursor)}

Newest(rows) == {m \in rows : Cardinality({o \in rows : o > m}) < Limit}

(* listMarkets: the page, and the cursor of its last row if there are more.  *)
ListMarkets(f, cursor) ==
    LET rows == Matching(f, cursor) items == Newest(rows) IN
    [loaded |-> TRUE, items |-> items, next |-> IF rows = items THEN Start ELSE Min(items)]

CreateMarket ==
    /\ created + 1 \in Markets
    /\ created' = created + 1
    /\ UNCHANGED <<filter, changes, first, late, page, more, stray, loadingMore, error>>

(* The effect of the new filter: its first page is asked for, and the answer  *)
(* of the old one's will be ignored.                                         *)
ChangeFilter(f) ==
    /\ f /= filter /\ changes < MaxChanges
    /\ filter' = f
    /\ changes' = changes + 1
    /\ late' = IF first = None THEN late ELSE late \cup {first}
    /\ first' = f
    /\ loadingMore' = FALSE /\ error' = FALSE
    /\ UNCHANGED <<created, page, more, stray>>

FirstPage ==
    /\ first /= None
    /\ \/ page' = ListMarkets(first, Start) /\ UNCHANGED error
       \/ page' = Absent /\ error' = TRUE
    /\ first' = None /\ stray' = FALSE
    /\ UNCHANGED <<created, filter, changes, late, more, loadingMore>>

CancelledPage(f) ==
    /\ f \in late
    /\ late' = late \ {f}
    /\ UNCHANGED <<created, filter, changes, first, page, more, stray, loadingMore, error>>

(* The button is there once the first page is, without an error.  The effect *)
(* and any older answer clear loadingMore, so that a second request may go    *)
(* out under the same cursor.                                                *)
LoadMore(m) ==
    /\ first = None /\ ~error /\ page.next /= Start
    /\ ~loadingMore /\ loadingMore' = TRUE
    /\ more[m] = Off
    /\ more' = [more EXCEPT ![m] = [at |-> "asked", filter |-> filter, cursor |-> page.next,
                                    run |-> changes]]
    /\ UNCHANGED <<created, filter, changes, first, late, page, stray, error>>

\* Mutant: the answer is not compared with the filter of now.
Append_Any(m) ==
    LET next == ListMarkets(more[m].filter, more[m].cursor) IN
    page' = [next EXCEPT !.items = @ \cup page.items]

Append(m) ==
    LET next == ListMarkets(more[m].filter, more[m].cursor) IN
    page' = IF more[m].filter = filter THEN [next EXCEPT !.items = @ \cup page.items] ELSE page

AnswerMore(m) ==
    /\ more[m].at = "asked"
    /\ Append(m)
    /\ stray' = (stray \/ (more[m].filter = filter /\ more[m].run # changes))
    /\ more' = [more EXCEPT ![m] = Off]
    /\ loadingMore' = FALSE
    /\ UNCHANGED <<created, filter, changes, first, late, error>>

FailMore(m) ==
    /\ more[m].at = "asked"
    /\ more' = [more EXCEPT ![m] = Off]
    /\ loadingMore' = FALSE /\ error' = TRUE
    /\ UNCHANGED <<created, filter, changes, first, late, page, stray>>

Next ==
    \/ CreateMarket
    \/ \E f \in Filters : ChangeFilter(f) \/ CancelledPage(f)
    \/ FirstPage
    \/ \E m \in Mores : LoadMore(m) \/ AnswerMore(m) \/ FailMore(m)

----------------------------------------------------------------------------
(* Once the first page of the filter has come, only its markets are shown.   *)
ShownMatchesTheFilter ==
    first = None => \A m \in page.items : Class[m] = filter

(* No market is missing between the newest and the oldest that are shown,     *)
(* save those of the second of a newer one that is shown, while no answer     *)
(* came in from before the filter was last chosen.                           *)
NothingIsSkipped ==
    first = None /\ ~stray =>
        \A m \in 1 .. created : Class[m] = filter
            /\ (\E o \in page.items : o > m) /\ (\E o \in page.items : o < m)
              => \/ m \in page.items
                 \/ \E o \in page.items : o > m /\ SecondOf(o) = SecondOf(m)
=============================================================================
