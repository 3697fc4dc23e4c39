------------------------------- MODULE MCPages -------------------------------
(* The pages.  They share nothing with each other but the server, so a
   behaviour follows one of them, chosen in the initial state, with as much
   of the server as it calls.  The pages are instances whose variables are
   v1 to v17, of which each takes as many as it needs and leaves the rest at
   Idle. *)
EXTENDS Integers, FiniteSets, TLC

CONSTANTS
    Single, Sole, Pair, Pair2, Tab1, Tab2, Idle,
    Few, Some, Many  \* bounds on calls without an answer, on codes and revisions

VARIABLES part, v1, v2, v3, v4, v5, v6, v7, v8, v9, v10, v11, v12, v13, v14, v15, v16,
          v17

Wizard ==
    INSTANCE BookingWizard
        WITH Treatment <- Single, Hairdresser <- Single, Day <- Pair, NoChoice <- Idle,
             MaxCalls <- Some,
             mode <- v1, step <- v2, choice <- v3, shown <- v4, slot <- v5,
             hold <- v6, expired <- v7, suggested <- v8, challenge <- v9,
             success <- v10, busy <- v11, calls <- v12

Board ==
    INSTANCE AdminBoard
        WITH BoardDate <- Pair, Requested <- {1}, MaxChange <- Few, MaxFetches <- Some,
             Unset <- Idle,
             begun <- v1, log <- v2, day <- v3, board <- v4, failed <- v5,
             fetches <- v6, visible <- v7, stream <- v8, known <- v9, waiting <- v10,
             awaited <- v11, alerted <- v12, handler <- v13, behind <- v14

Home ==
    INSTANCE AccountHome
        WITH Mobile <- Pair2, Card <- Pair, MaxRequests <- Some, Vacant <- Idle,
             row <- v1, cookie <- v2, kind <- v3, name <- v4, route <- v5,
             login <- v6, form <- v7, requests <- v8, stored <- v9

History ==
    INSTANCE VisitHistory
        WITH ListView <- {"upcoming", "history"}, LastVisit <- Many, PageSize <- Few,
             RevealSize <- Few, MaxCount <- Many, NoVisit <- Idle,
             visits <- v1, lists <- v2, count <- v3, pages <- v4, whole <- v5

Forms ==
    INSTANCE VisitForms
        WITH Form <- Pair, Valid <- Pair2, Invalid <- {}, MaxCalls <- Some, Nil <- Idle,
             forms <- v1, consents <- v2, shown <- v3, given <- v4, busyId <- v5,
             desk <- v6, calls <- v7

(* Both tabs are for one review. *)
ReviewOf == [t \in {Tab1, Tab2} |-> CHOOSE r \in Single : TRUE]

Reviewing ==
    INSTANCE ReviewPages
        WITH Review <- Single, Link <- {Tab1}, Panel <- {Tab2},
             Of <- ReviewOf, Rating <- Pair,
             Note <- Single, MaxCalls <- Few, No <- Idle,
             reviews <- v1, requested <- v2, tabs <- v3, unread <- v4, items <- v5,
             summary <- v6, notes <- v7, loading <- v8, calls <- v9

Lookup ==
    INSTANCE BookingLookup
        WITH Booking <- Single, Day <- Pair, LastRevision <- Few, MaxCalls <- Some,
             None <- Idle,
             rows <- v1, cookie <- v2, stage <- v3, form <- v4, shown <- v5,
             busy <- v6, dialog <- v7, calls <- v8, left <- v9

(* Each of the two entries has an offer, called by the name of the entry. *)
Invited == [o \in Pair |-> o]

Joining ==
    INSTANCE WaitlistJoin
        WITH Wish <- Single, Ticket <- Pair, Proposal <- Pair,
             ForTicket <- Invited, MaxCodes <- Few, Blank <- Idle,
             tickets <- v1, proposals <- v2, codes <- v3, session <- v4, pass <- v5,
             path <- v6, loading <- v7, catalog <- v8, ticket <- v9, access <- v10,
             stage <- v11, wish <- v12, code <- v13, live <- v14, pending <- v15,
             told <- v16, posts <- v17

(* With two texts for every editor, or with more calls and one text *)
Catalogue(Detail, MaxCalls) ==
    INSTANCE CatalogueDesk
        WITH Professional <- Single, Service <- Sole,
             Setting <- {"plain", "own"}, Plain <- "plain", Nobody <- Idle,
             mode <- v1, details <- v2, offers <- v3, listed <- v4, loading <- v5,
             failed <- v6, editor <- v7, items <- v8, savingId <- v9, calls <- v10

(* A week in which a booking is dragged between two places, not on the date
   of the board; or a booking of a series under one of two names, on the
   board and in the agenda *)
Desk(InSeries, OnBoard, View) ==
    INSTANCE BookingDesk
        WITH LastAppointment <- Few, Role <- "OWNER",
             Place <- IF OnBoard = {} THEN Pair ELSE Single,
             Detail <- IF OnBoard = {} THEN Single ELSE Pair,
             LastRevision <- Some, MaxCalls <- Few, Blank <- Idle,
             rows <- v1, begun <- v2, view <- v3, board <- v4, week <- v5, agenda <- v6,
             restore <- v7, selected <- v8, dialog <- v9, series <- v10, dragged <- v11,
             calls <- v12

(* One block and two dates, or two blocks on one date *)
Blocks(TimeBlock, BlockDate, MaxCalls) ==
    INSTANCE BlocksDesk
        WITH Text <- {"break"}, Default <- "break", Naught <- Idle,
             blocks <- v1, blockDate <- v2, listed <- v3, form <- v4, target <- v5,
             reason <- v6, cancelling <- v7, calls <- v8

ASSUME PagesAssumption ==
    /\ Wizard!WizardAssumption /\ Board!BoardAssumption /\ Home!HomeAssumption
    /\ History!HistoryAssumption /\ Forms!FormsAssumption /\ Reviewing!PagesAssumption
    /\ Lookup!LookupAssumption /\ Joining!JoinAssumption
    /\ Catalogue(Pair, Few)!DeskAssumption /\ Catalogue({"kept"}, Some)!DeskAssumption
    /\ Blocks(Single, Pair, Some)!BlocksAssumption /\ Blocks(Pair, Single, Many)!BlocksAssumption
    /\ Desk({}, {}, {"week"})!DeskAssumption /\ Desk({1}, {1}, {"agenda"})!DeskAssumption

-----------------------------------------------------------------------------
pageVars ==
    <<part, v1, v2, v3, v4, v5, v6, v7, v8, v9, v10, v11, v12, v13, v14, v15, v16, v17>>

(* The variables after the first few *)
After14 == <<v15, v16, v17>>
After12 == <<v13, v14, After14>>
After10 == <<v11, v12, After12>>
After9 == <<v10, After10>>
After8 == <<v9, After9>>
After7 == <<v8, After8>>
After5 == <<v6, v7, After7>>

Idle14 == v15 = Idle /\ v16 = Idle /\ v17 = Idle
Idle12 == v13 = Idle /\ v14 = Idle /\ Idle14
Idle10 == v11 = Idle /\ v12 = Idle /\ Idle12
Idle9 == v10 = Idle /\ Idle10
Idle8 == v9 = Idle /\ Idle9
Idle7 == v8 = Idle /\ Idle8
Idle5 == v6 = Idle /\ v7 = Idle /\ Idle7

MCInit ==
    \/ part = "wizard" /\ Wizard!WizardInit /\ Idle12
    \/ part = "board" /\ Board!BoardInit /\ Idle14
    \/ part = "home" /\ Home!HomeInit /\ Idle9
    \/ part = "history" /\ History!HistoryInit /\ Idle5
    \/ part = "forms" /\ Forms!FormsInit /\ Idle7
    \/ part = "reviews" /\ Reviewing!PagesInit /\ Idle9
    \/ part = "lookup" /\ Lookup!LookupInit /\ Idle9
    \/ part = "joining" /\ Joining!JoinInit
    \/ part = "catalogue" /\ Catalogue(Pair, Few)!DeskInit /\ Idle10
    \/ part = "crossing" /\ Catalogue({"kept"}, Some)!DeskInit /\ Idle10
    \/ part = "blocks" /\ Blocks(Single, Pair, Some)!BlocksInit /\ Idle8
    \/ part = "removals" /\ Blocks(Pair, Single, Many)!BlocksInit /\ Idle8
    \/ part = "week" /\ Desk({}, {}, {"week"})!DeskInit /\ Idle12
    \/ part = "drawer" /\ Desk({1}, {1}, {"agenda"})!DeskInit /\ Idle12

MCNext ==
    /\ UNCHANGED part
    /\ \/ part = "wizard" /\ Wizard!WizardNext /\ UNCHANGED After12
       \/ part = "board" /\ Board!BoardNext /\ UNCHANGED After14
       \/ part = "home" /\ Home!HomeNext /\ UNCHANGED After9
       \/ part = "history" /\ History!HistoryNext /\ UNCHANGED After5
       \/ part = "forms" /\ Forms!FormsNext /\ UNCHANGED After7
       \/ part = "reviews" /\ Reviewing!PagesNext /\ UNCHANGED After9
       \/ part = "lookup" /\ Lookup!LookupNext /\ UNCHANGED After9
       \/ part = "joining" /\ Joining!JoinNext
       \/ part = "catalogue" /\ Catalogue(Pair, Few)!DeskNext /\ UNCHANGED After10
       \/ part = "crossing" /\ Catalogue({"kept"}, Some)!DeskNext /\ UNCHANGED After10
       \/ part = "blocks" /\ Blocks(Single, Pair, Some)!BlocksNext /\ UNCHANGED After8
       \/ part = "removals" /\ Blocks(Pair, Single, Many)!BlocksNext /\ UNCHANGED After8
       \/ part = "week" /\ Desk({}, {}, {"week"})!DeskNext /\ UNCHANGED After12
       \/ part = "drawer" /\ Desk({1}, {1}, {"agenda"})!DeskNext /\ UNCHANGED After12

MCSpec == MCInit /\ [][MCNext]_pageVars

MCSymmetry == Permutations(Pair) \cup Permutations(Pair2)

-----------------------------------------------------------------------------
(* The times on the customer's booking page are of the services, the
   professional and the date chosen there (useBookingFlow). *)
SlotsFitSelection == part = "wizard" => Wizard!SlotsFitSelection

(* The salon's board shows the bookings of the date beside it
   (AdminDashboard, whatever order answers and events come in). *)
BoardIsOfDay == part = "board" => Board!BoardIsOfDay

(* Whoever leaves by "Güvenli çıkış" sees no booking again before a code is
   entered (BookingLookupPage). *)
LeftSeesNothing == part = "lookup" => Lookup!LeftSeesNothing

(* An accepted offer is one of the entry shown beside it (WaitlistJoinPage). *)
OfferIsOfEntry == part = "joining" => Joining!OfferIsOfEntry

(* The history is read without a gap and without a visit twice, while it
   grows (CustomerAccountApp). *)
HistoryIsWhole == part = "history" => History!HistoryIsWhole

(* Every form handed in has a consent for the answers that are kept
   (CustomerBookingForms over FormsService). *)
ConsentBacksAnswers == part = "forms" => Forms!ConsentBacksAnswers

(* What a page says the salon has, the salon has: the rating it thanks for
   (PublicReviewPage, CustomerReviewPanel), and the profile beside which it
   says "saved" (CustomerAccountApp). *)
SaidIsKept ==
    /\ part = "reviews" => Reviewing!ThanksForKept
    /\ part = "home" => Home!SavedIsStored

(* The reason kept with a removed block was typed for that block
   (CancelBlockDialog). *)
ReasonIsForBlock ==
    /\ part = "blocks" => Blocks(Single, Pair, Some)!ReasonIsForBlock
    /\ part = "removals" => Blocks(Pair, Single, Many)!ReasonIsForBlock

(* A professional's own settings of a service change only by a save of their
   row (CatalogPage over AdminCatalogService), and a booking that is moved or
   marked is where it was on the screen, confirmed and visited as it said
   there (AdminDashboard over BookingOperationsService). *)
NothingIsOverwritten ==
    [][/\ part = "catalogue" => Catalogue(Pair, Few)!KeepsSettings
       /\ part = "crossing" => Catalogue({"kept"}, Some)!KeepsSettings
       /\ part = "week" => Desk({}, {}, {"week"})!SeesWhatItWrites
       /\ part = "drawer" => Desk({1}, {1}, {"agenda"})!SeesWhatItWrites]_pageVars
=============================================================================
