------------------------------ MODULE AdminBoard ------------------------------
(***************************************************************************)
(* How the salon's screen follows the calendar: AdminRealtimeController    *)
(* streams events by a cursor on the time they were created,               *)
(* useAdminRealtime puts those that come together into one call, and       *)
(* useBookingBoard fetches the board again, at an event, every fifteen     *)
(* seconds, when the page comes back, for another date, and at the end of  *)
(* what a handler of AdminDashboard does, which keeps the refresh of the   *)
(* date it began under.  What is                                           *)
(* fetched is seen as of the moment the server reads it; answers come in   *)
(* any order.  A change is numbered by the time of its event; it is seen   *)
(* when its transaction commits.                                           *)
(***************************************************************************)
EXTENDS Integers, FiniteSets

CONSTANTS
    BoardDate,         \* the dates the page may show
    Requested,   \* the changes that are a customer's new request
    MaxChange,   \* bound on changes
    MaxFetches,  \* bound on calls without an answer
    Unset          \* nothing yet

Change == 1..MaxChange

(* What the page shows: the bookings of a date, as of some changes *)
Board == [day : BoardDate, seen : SUBSET Change]

BoardAssumption ==
    /\ MaxChange \in Nat
    /\ MaxFetches \in Nat \ {0}
    /\ Requested \subseteq Change
    /\ BoardDate # {} /\ Unset \notin Board

VARIABLES
    begun,    \* changes that have taken their time
    log,      \* table "admin_realtime_events", with the changes themselves
    day,      \* the date of the page
    board,    \* the board shown: its date, and the changes it has seen
    failed,   \* error
    handler,  \* a handler under way: the date it began under, or Unset
    behind,   \* the last call was such a handler's, for a date that is left
    fetches,  \* calls of getAdminBookingBoard
    visible,  \* document.visibilityState
    stream,   \* the connection: cursor and what it has delivered, or Unset
    known,    \* what the page has been told of
    waiting,  \* the call that waits for the burst to end
    awaited,  \* pendingAlertIds
    alerted   \* alertedBookingIds

boardVars == <<begun, log, day, board, failed, handler, behind, fetches, visible, stream,
               known, waiting, awaited, alerted>>

-----------------------------------------------------------------------------
(* latest: its number is still requestSequence.current. *)
Fetch == [nr : 1..MaxFetches, day : BoardDate, latest : BOOLEAN, read : (SUBSET Change) \cup {Unset}]

(* refresh: a new number makes all others old. *)
Fetching(d) ==
    LET old == {[f EXCEPT !.latest = FALSE] : f \in fetches}
        free == {n \in 1..MaxFetches : \A f \in fetches : f.nr # n}
    IN  /\ free # {}
        /\ fetches' = old \cup {[nr |-> CHOOSE n \in free : TRUE, day |-> d,
                                 latest |-> TRUE, read |-> Unset]}
        /\ failed' = FALSE
        /\ behind' = (d # day')

Server == <<begun, log>>
Page == <<day, board, failed, handler, behind, fetches, visible>>
Events == <<stream, known, waiting>>
Alerts == <<awaited, alerted>>

-----------------------------------------------------------------------------
(* The salon and its customers *)

BeginChange ==
    /\ begun < MaxChange
    /\ begun' = begun + 1
    /\ UNCHANGED <<log, Page, Events, Alerts>>

CommitChange(n) ==
    /\ n <= begun
    /\ n \notin log
    /\ log' = log \cup {n}
    /\ UNCHANGED <<begun, Page, Events, Alerts>>

-----------------------------------------------------------------------------
(* useBookingBoard *)

(* The timer runs only while the page is visible. *)
PollBoard ==
    /\ visible
    /\ UNCHANGED <<Server, day, board, handler, visible, Events, Alerts>>
    /\ Fetching(day)

VisibilityChanges ==
    /\ visible' = ~visible
    /\ UNCHANGED <<Server, day, board, handler, Events, Alerts>>
    /\ IF visible THEN UNCHANGED <<fetches, failed, behind>> ELSE Fetching(day)

SelectDay(d) ==
    /\ d # day
    /\ day' = d
    /\ Fetching(d)
    /\ UNCHANGED <<Server, board, handler, visible, Events, Alerts>>

(* handleAction, handleWeekReschedule and what the drawer's dialogs do *)
HandlerBegins ==
    /\ board # Unset /\ handler = Unset
    /\ handler' = day
    /\ UNCHANGED <<Server, day, board, failed, behind, fetches, visible, Events, Alerts>>

HandlerEnds ==
    /\ handler # Unset
    /\ handler' = Unset
    /\ UNCHANGED <<Server, day, board, visible, Events, Alerts>>
    /\ Fetching(handler)

ReadBoard(f) ==
    /\ f.read = Unset
    /\ fetches' = (fetches \ {f}) \cup {[f EXCEPT !.read = log]}
    /\ UNCHANGED <<Server, day, board, failed, handler, behind, visible, Events, Alerts>>

(* Mutant: every answer is shown. *)
AnyAnswer(f) == TRUE

IsCurrent(f) == f.latest

(* AdminDashboard: the first board says nothing, later ones announce the
   requests that an event has named. *)
Announces(seen) ==
    IF board = Unset THEN alerted' = alerted \cup (seen \cap Requested) /\ UNCHANGED awaited
    ELSE /\ alerted' = alerted \cup (awaited \cap seen)
         /\ awaited' = awaited \ (seen \ alerted)

BoardArrives(f) ==
    /\ f.read # Unset
    /\ fetches' = fetches \ {f}
    /\ IF IsCurrent(f)
       THEN board' = [day |-> f.day, seen |-> f.read] /\ Announces(f.read)
       ELSE UNCHANGED <<board, Alerts>>
    /\ UNCHANGED <<Server, day, failed, handler, behind, visible, Events>>

FetchFails(f) ==
    /\ fetches' = fetches \ {f}
    /\ failed' = (failed \/ IsCurrent(f))
    /\ UNCHANGED <<Server, day, board, handler, behind, visible, Events, Alerts>>

-----------------------------------------------------------------------------
(* AdminRealtimeController and useAdminRealtime *)

(* A new EventSource sends no Last-Event-ID: the cursor is fifteen seconds
   back, which is some of the changes. *)
connect(cursor) ==
    /\ stream = Unset
    /\ stream' = [cursor |-> cursor, delivered |-> {}]
    /\ UNCHANGED <<Server, Page, known, waiting, Alerts>>

Due == {n \in log : n >= stream.cursor /\ n \notin stream.delivered}

Newest(changes) == CHOOSE n \in changes : \A m \in changes : m <= n

(* One round of poll: all that is new is sent at once.  The page drops what
   it knows, and each event takes the place of the one before that has not
   been acted on. *)
PollEvents ==
    LET news == Due \ known
    IN  /\ stream # Unset
        /\ Due # {}
        /\ stream' = [cursor |-> Newest(Due), delivered |-> stream.delivered \cup Due]
        /\ known' = known \cup news
        /\ waiting' = IF news = {} THEN waiting ELSE Newest(news)
        /\ UNCHANGED <<Server, Page, Alerts>>

(* A quarter of a second after the last event *)
OnResourceChanged ==
    /\ waiting # Unset
    /\ waiting' = Unset
    /\ awaited' = IF board # Unset /\ waiting \in Requested THEN awaited \cup {waiting} ELSE awaited
    /\ UNCHANGED <<Server, day, board, handler, visible, stream, known, alerted>>
    /\ Fetching(day)

StreamBreaks ==
    /\ stream # Unset
    /\ stream' = Unset
    /\ UNCHANGED <<Server, Page, known, waiting, Alerts>>

BoardInit ==
    /\ begun = 0 /\ log = {}
    /\ day \in {CHOOSE d \in BoardDate : TRUE}
    /\ board = Unset /\ failed = FALSE /\ handler = Unset /\ behind = FALSE
    /\ fetches = {[nr |-> 1, day |-> day, latest |-> TRUE, read |-> Unset]}
    /\ visible = TRUE
    /\ stream = Unset /\ known = {} /\ waiting = Unset
    /\ awaited = {} /\ alerted = {}

BoardNext ==
    \/ BeginChange
    \/ \E n \in Change : CommitChange(n)
    \/ PollBoard \/ VisibilityChanges \/ HandlerBegins \/ HandlerEnds
    \/ \E d \in BoardDate : SelectDay(d)
    \/ \E f \in fetches : ReadBoard(f) \/ BoardArrives(f) \/ FetchFails(f)
    \/ \E n \in 0..begun : connect(n)
    \/ PollEvents \/ OnResourceChanged \/ StreamBreaks

BoardSpec == BoardInit /\ [][BoardNext]_boardVars

-----------------------------------------------------------------------------
(* Properties *)

BoardTypeOK ==
    /\ begun \in 0..MaxChange /\ log \subseteq 1..begun
    /\ day \in BoardDate
    /\ board \in Board \cup {Unset}
    /\ fetches \subseteq Fetch
    /\ {failed, behind, visible} \subseteq BOOLEAN
    /\ handler \in BoardDate \cup {Unset}
    /\ stream \in [cursor : 0..MaxChange, delivered : SUBSET Change] \cup {Unset}
    /\ waiting \in Change \cup {Unset}
    /\ known \subseteq Change /\ awaited \subseteq Requested /\ alerted \subseteq Requested

(* The bookings under a date are those of the date, once the last call has
   been answered, unless a handler made it that began before the date was
   changed. *)
BoardIsOfDay ==
    \/ \E f \in fetches : f.latest
    \/ failed \/ behind
    \/ board # Unset /\ board.day = day

(* Why: the call that will be shown is for the date of the page, or behind. *)
LatestIsOfDay ==
    \A f \in fetches :
       /\ {"nr", "day", "latest", "read"} \subseteq DOMAIN f
       /\ f.day \in BoardDate
       /\ f.read # Unset => f.read \subseteq Change
       /\ f.latest => behind \/ f.day = day

BoardInv ==
    /\ log \subseteq Change /\ day \in BoardDate /\ handler \in BoardDate \cup {Unset}
    /\ LatestIsOfDay
    /\ BoardIsOfDay

(* Not even then.  Refuted: the handler's refresh is that of its own date,
   and takes the number that makes all others old. *)
BoardIsNeverBehind ==
    \/ \E f \in fetches : f.latest
    \/ failed
    \/ board # Unset /\ board.day = day

(* A new request is announced, by sound and by a note, as soon as a board
   with it is shown, when nothing is under way any more.  Refuted: of the
   events that come together only the last is heard of, and one whose
   transaction commits after a later one lies behind the cursor. *)
RequestIsAnnounced ==
    \A n \in Requested :
        board # Unset /\ n \in board.seen /\ n \in known /\ waiting = Unset /\ fetches = {} =>
            n \in alerted
=============================================================================
