------------------------------ MODULE VisitHistory ------------------------------
(***************************************************************************)
(* The lists of visits on the customer's page: CustomerDashboard, its      *)
(* groups and cards, and listBookings behind them, page by page.  A call   *)
(* is read by the server at a moment of its own and answered later, and    *)
(* visits go on from list to list meanwhile.                               *)
(***************************************************************************)
EXTENDS Integers, Sequences, FiniteSets, SequencesExt

CONSTANTS
    ListView,    \* the lists of the page that are looked at
    LastVisit,   \* the visits are 1..LastVisit, in the order of startAt
    PageSize,    \* PAGE_SIZE
    RevealSize,  \* HISTORY_REVEAL_SIZE
    MaxCount,    \* bound on historyVisibleCount
    NoVisit      \* no cursor, no answer yet

HistoryAssumption ==
    /\ LastVisit \in Nat
    /\ {PageSize, RevealSize, MaxCount} \subseteq Nat \ {0}
    /\ ListView \subseteq {"pending", "upcoming", "history"} /\ "history" \in ListView
    /\ NoVisit \notin Nat

VARIABLES
    visits, \* the customer's bookings: the list each belongs to
    lists,  \* groups, cursors, loading and errors, by list
    count,  \* historyVisibleCount
    pages,  \* calls of getCustomerBookings without an answer
    whole   \* the history when its first page was read

historyVars == <<visits, lists, count, pages, whole>>

-----------------------------------------------------------------------------
Booked == 1..LastVisit
View == {"pending", "upcoming", "history"}

Page == [items : Seq(Booked), next : Booked \cup {NoVisit}, rows : SUBSET Booked]

List == [items : Seq(Booked), cursor : Booked \cup {NoVisit}, loading : BOOLEAN, error : BOOLEAN]

EmptyList == [items |-> <<>>, cursor |-> NoVisit, loading |-> TRUE, error |-> FALSE]

Call(view, cursor) == [view |-> view, cursor |-> cursor, page |-> NoVisit]

-----------------------------------------------------------------------------
(* CustomerAccountService.listBookings *)

(* The elements of S, a set of numbers, in their order *)
Ascending(S) ==
    CHOOSE s \in [1..Cardinality(S) -> S] : \A i, j \in 1..Cardinality(S) : i < j => s[i] < s[j]

Descending(S) == Reverse(Ascending(S))

FirstOf(s, n) == SubSeq(s, 1, IF Len(s) < n THEN Len(s) ELSE n)

(* Mutant: the cursor is the row that told that there are more. *)
CursorBeyond(found) == IF Len(found) > PageSize THEN found[PageSize + 1] ELSE NoVisit

(* nextCursor, from the rows found: at most one more than a page *)
NextCursor(found) == IF Len(found) > PageSize THEN found[PageSize] ELSE NoVisit

(* What is after the cursor, itself left out; rows, for the property: all
   there is. *)
Listed(view, cursor) ==
    LET rows == {v \in Booked : visits[v] = view}
        rest == IF cursor = NoVisit THEN rows ELSE {v \in rows : v < cursor}
        found == FirstOf(IF view = "upcoming" THEN Ascending(rest) ELSE Descending(rest),
                         PageSize + 1)
    IN  [items |-> FirstOf(found, PageSize), next |-> NextCursor(found), rows |-> rows]

ListBookings(call) ==
    /\ call.page = NoVisit
    /\ pages' = (pages \ {call}) \cup {[call EXCEPT !.page = Listed(call.view, call.cursor)]}
    /\ UNCHANGED <<visits, lists, count, whole>>

(* The salon's decision, a cancellation, and the passing of time; an account
   starts without bookings, and one more is booked at a later time. *)
VisitMovesOn(v) ==
    /\ \/ visits[v] = "none" /\ visits' = [visits EXCEPT ![v] = "pending"]
       \/ /\ visits[v] = "pending"
          /\ \E next \in {"upcoming", "history"} : visits' = [visits EXCEPT ![v] = next]
       \/ visits[v] = "upcoming" /\ visits' = [visits EXCEPT ![v] = "history"]
    /\ UNCHANGED <<lists, count, pages, whole>>

-----------------------------------------------------------------------------
(* CustomerDashboard *)

(* The effect of the first rendering; what was asked by a page that has been
   left is aborted. *)
OpenDashboard ==
    /\ lists' = [v \in ListView |-> EmptyList]
    /\ count' = RevealSize
    /\ pages' = {Call(v, NoVisit) : v \in ListView}
    /\ UNCHANGED <<visits, whole>>

LoadView(view, cursor) ==
    /\ lists' = [lists EXCEPT ![view].loading = TRUE, ![view].error = FALSE]
    /\ pages' = pages \cup {Call(view, cursor)}
    /\ UNCHANGED <<visits, count, whole>>

(* BookingGroup: "Yenile" is there as long as the error is. *)
OffersRetry(view) == lists[view].error

RetryView(view) == OffersRetry(view) /\ LoadView(view, NoVisit)

hasHiddenHistory == count < Len(lists["history"].items)

hasMoreHistory == hasHiddenHistory \/ lists["history"].cursor # NoVisit

RevealHistory ==
    /\ ~lists["history"].loading
    /\ hasHiddenHistory
    /\ count < MaxCount
    /\ count' = count + RevealSize
    /\ UNCHANGED <<visits, lists, pages, whole>>

showMoreHistory ==
    /\ ~lists["history"].loading
    /\ hasMoreHistory /\ ~hasHiddenHistory
    /\ count < MaxCount
    /\ LoadView("history", lists["history"].cursor)

(* deduplicateBookings keeps the place of the first. *)
deduplicateBookings(s) ==
    LET first == Ascending({i \in 1..Len(s) : \A j \in 1..i - 1 : s[j] # s[i]})
    IN  [k \in 1..Len(first) |-> s[first[k]]]

ListArrives(call) ==
    LET append == call.cursor # NoVisit
    IN  /\ call.page # NoVisit
        /\ lists' = [lists EXCEPT ![call.view] =
               [items |-> IF append THEN deduplicateBookings(@.items \o call.page.items)
                          ELSE call.page.items,
                cursor |-> call.page.next, loading |-> FALSE, error |-> FALSE]]
        /\ count' = IF append THEN count + RevealSize ELSE count
        /\ pages' = pages \ {call}
        /\ whole' = IF call.view = "history" /\ ~append THEN call.page.rows ELSE whole
        /\ UNCHANGED visits

ListFails(call) ==
    /\ lists' = [lists EXCEPT ![call.view].loading = FALSE, ![call.view].error = TRUE]
    /\ pages' = pages \ {call}
    /\ UNCHANGED <<visits, count, whole>>

HistoryInit ==
    /\ visits \in [Booked -> View \cup {"none"}]
    /\ lists = [v \in ListView |-> EmptyList]
    /\ count = RevealSize
    /\ pages = {Call(v, NoVisit) : v \in ListView}
    /\ whole = {}

HistoryNext ==
    \/ \E v \in Booked : VisitMovesOn(v)
    \/ \E call \in pages : ListBookings(call) \/ ListArrives(call) \/ ListFails(call)
    \/ OpenDashboard
    \/ \E view \in ListView : RetryView(view)
    \/ RevealHistory \/ showMoreHistory

HistorySpec == HistoryInit /\ [][HistoryNext]_historyVars

-----------------------------------------------------------------------------
(* Properties *)

HistoryTypeOK ==
    /\ visits \in [Booked -> View \cup {"none"}]
    /\ \A v \in ListView : lists[v] \in List
    /\ count \in Nat
    /\ \A call \in pages : call.page \in Page \cup {NoVisit}
    /\ whole \subseteq Booked

(* Page by page, whatever fails and is tried again, and although visits go
   on becoming history meanwhile: when there is no more to load, all that
   was history when the first page was read is there, each visit once, the
   last first. *)
HistoryIsWhole ==
    LET list == lists["history"] IN
    /\ \A i, j \in DOMAIN list.items : i < j => list.items[i] > list.items[j]
    /\ ~list.loading /\ ~list.error /\ list.cursor = NoVisit => whole \subseteq ToSet(list.items)

(* Why: a list has one call at a time, and what a page brings goes on where
   the list ends; between two pages nothing of the history is left out. *)
HistoryCalls == {c \in pages : c.view = "history"}

Falls(items) == \A i, j \in DOMAIN items : i < j => items[i] > items[j]

(* items go down to the cursor, or to the end. *)
EndsAt(items, cursor) ==
    /\ items \in Seq(Booked) /\ Falls(items)
    /\ cursor # NoVisit => Len(items) > 0 /\ cursor = items[Len(items)]

(* Of S nothing is left out but what comes after the cursor. *)
Covers(items, cursor, S) ==
    \A v \in S : v \in ToSet(items) \/ (cursor # NoVisit /\ v < cursor)

PageOK(c) ==
    /\ {"items", "next", "rows"} \subseteq DOMAIN c.page
    /\ EndsAt(c.page.items, c.page.next)
    /\ c.cursor = NoVisit =>
          /\ Covers(c.page.items, c.page.next, c.page.rows)
          /\ \A v \in c.page.rows : v \in Booked /\ visits[v] = "history"
    /\ c.cursor # NoVisit =>
          /\ \A v \in ToSet(c.page.items) : v < c.cursor
          /\ Covers(c.page.items, c.page.next, {v \in whole : v < c.cursor})

HistoryInv ==
    LET list == lists["history"] IN
    /\ DOMAIN visits = Booked /\ \A v \in whole : v \in Booked /\ visits[v] = "history"
    /\ DOMAIN lists = ListView /\ {"items", "cursor", "loading", "error"} \subseteq DOMAIN list
    /\ EndsAt(list.items, list.cursor)
    /\ \/ Covers(list.items, list.cursor, whole)
       \/ list.items = <<>> /\ list.cursor = NoVisit /\ (list.loading \/ list.error)
    /\ \A c, d \in HistoryCalls : c = d
    /\ \A c \in pages : {"view", "cursor", "page"} \subseteq DOMAIN c
    /\ \A c \in HistoryCalls :
          /\ list.loading /\ ~list.error
          /\ c.cursor \in {NoVisit, list.cursor}
          /\ c.page # NoVisit => PageOK(c)

(* A visit is on one list.  Refuted: the lists are read one after another,
   and a visit goes from list to list between the two. *)
VisitOnOneList ==
    \A u, v \in ListView : u # v => ToSet(lists[u].items) \cap ToSet(lists[v].items) = {}
=============================================================================
