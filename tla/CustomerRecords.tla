---------------------------- MODULE CustomerRecords ----------------------------
(***************************************************************************)
(* What the salon keeps about its customers: CustomersService and          *)
(* CustomerMemoryService.  A customer is a row per phone number; what      *)
(* belongs to it (bookings, waitlist entries, series, reviews, forms,      *)
(* service records) names the row.  A merge moves everything to another    *)
(* row and archives the first.  Every operation looks the customer up      *)
(* before its transaction and does not look again.                         *)
(***************************************************************************)
EXTENDS Integers, FiniteSets

CONSTANTS
    Customer,    \* rows of "customers", one per phone number
    Record,      \* rows of "customer_service_records"
    Clerk,       \* requests the API serves at the same time
    Owner,       \* those of them in which the salon's owner merges
    Nobody,      \* no customer, no record
    MaxRevised   \* bound on the revisions of a record

ASSUME CustomerAssumption ==
    /\ Nobody \notin Customer \cup Record
    /\ Owner \subseteq Clerk
    /\ MaxRevised \in Nat \ {0}

VARIABLES
    customers,  \* the rows
    known,      \* the customers with a booking at the branch
    signedIn,   \* the customers with an open session
    records,    \* the service records with their revisions
    clerks,     \* what every request in flight has read
    overtaken   \* history: a merge has archived the target of another in flight

customerVars == <<customers, known, signedIn, records, clerks, overtaken>>

-----------------------------------------------------------------------------
CustomerRow == [mergedInto : Customer \cup {Nobody}, profile : BOOLEAN, tagged : BOOLEAN,
                blocked : BOOLEAN]

NewCustomer == [mergedInto |-> Nobody, profile |-> FALSE, tagged |-> FALSE, blocked |-> FALSE]

(* A revision keeps what it does not say from the one it was made of; the
   first is made of none. *)
Revision == [number : 1..MaxRevised, of : 0..MaxRevised]

RecordRow == [customer : Customer \cup {Nobody}, current : 0..MaxRevised,
              revisions : SUBSET Revision]

NoRecord == [customer |-> Nobody, current |-> 0, revisions |-> {}]

ClerkRow == [op : {"none", "merge", "createRecord", "reviseRecord", "updateProfile",
                   "setTags", "updateAccess"},
             customer : Customer \cup {Nobody}, source : Customer \cup {Nobody},
             record : Record \cup {Nobody}, current : 0..MaxRevised, previous : 0..MaxRevised]

NoClerk == [op |-> "none", customer |-> Nobody, source |-> Nobody, record |-> Nobody,
            current |-> 0, previous |-> 0]

LastNumber(r) ==
    CHOOSE n \in 0..MaxRevised :
        /\ \A v \in records[r].revisions : v.number <= n
        /\ n = 0 \/ \E v \in records[r].revisions : v.number = n

(* Mutant: archived customers are found like any other. *)
FindsArchived(c) == c \in known \/ customers[c].profile

(* requireCustomer *)
Found(c) ==
    /\ customers[c].mergedInto = Nobody
    /\ c \in known \/ customers[c].profile

TakesUp(q, clerk) == clerks[q] = NoClerk /\ clerks' = [clerks EXCEPT ![q] = clerk]

LaysDown(q) == clerks' = [clerks EXCEPT ![q] = NoClerk]

-----------------------------------------------------------------------------
(* The rest of the system finds a customer by the phone number, archived or
   not: confirmHold and the salon's bookings, and the code that signs in. *)

Books(c) ==
    /\ c \notin known
    /\ known' = known \cup {c}
    /\ UNCHANGED <<customers, signedIn, records, clerks, overtaken>>

SignsIn(c) ==
    /\ c \notin signedIn
    /\ signedIn' = signedIn \cup {c}
    /\ UNCHANGED <<customers, known, records, clerks, overtaken>>

-----------------------------------------------------------------------------
(* mergePreview, merge *)

StartMerge(q, target, source) ==
    /\ target # source
    /\ Found(target) /\ Found(source)
    /\ TakesUp(q, [NoClerk EXCEPT !.op = "merge", !.customer = target, !.source = source])
    /\ UNCHANGED <<customers, known, signedIn, records, overtaken>>

(* The profile of the target wins; a block stays with the archived row, and
   nobody asks whether the target is still a customer. *)
merge(q) ==
    LET target == clerks[q].customer
        source == clerks[q].source
    IN  /\ clerks[q].op = "merge"
        /\ customers' = [customers EXCEPT
              ![target].profile = @ \/ customers[source].profile,
              ![target].tagged = @ \/ customers[source].tagged,
              ![source] = [@ EXCEPT !.mergedInto = target, !.profile = FALSE, !.tagged = FALSE]]
        /\ known' = (known \ {source}) \cup {target : c \in known \cap {source}}
        /\ signedIn' = signedIn \ {source}
        /\ records' = [r \in Record |->
              IF records[r].customer = source THEN [records[r] EXCEPT !.customer = target]
                                              ELSE records[r]]
        /\ overtaken' = (overtaken \/ \E p \in Owner \ {q} : clerks[p].op = "merge"
                                                        /\ clerks[p].customer = source)
        /\ LaysDown(q)

-----------------------------------------------------------------------------
(* updateProfile, setTags, updateOnlineBookingAccess *)

(* The customers list asks only for a booking, archived or not. *)
StartUpdate(q, op, c) ==
    /\ op \in {"updateProfile", "setTags", "updateAccess"}
    /\ IF op = "updateAccess" THEN c \in known ELSE Found(c)
    /\ TakesUp(q, [NoClerk EXCEPT !.op = op, !.customer = c])
    /\ UNCHANGED <<customers, known, signedIn, records, overtaken>>

updateProfile(q) ==
    /\ clerks[q].op = "updateProfile"
    /\ customers' = [customers EXCEPT ![clerks[q].customer].profile = TRUE]
    /\ LaysDown(q)
    /\ UNCHANGED <<known, signedIn, records, overtaken>>

setTags(q, tagged) ==
    /\ clerks[q].op = "setTags"
    /\ customers' = [customers EXCEPT ![clerks[q].customer].tagged = tagged]
    /\ LaysDown(q)
    /\ UNCHANGED <<known, signedIn, records, overtaken>>

updateOnlineBookingAccess(q, blocked) ==
    /\ clerks[q].op = "updateAccess"
    /\ customers' = [customers EXCEPT ![clerks[q].customer].blocked = blocked]
    /\ LaysDown(q)
    /\ UNCHANGED <<known, signedIn, records, overtaken>>

-----------------------------------------------------------------------------
(* createServiceRecord, reviseServiceRecord *)

StartRecord(q, c, r) ==
    /\ Found(c)
    /\ records[r] = NoRecord
    /\ TakesUp(q, [NoClerk EXCEPT !.op = "createRecord", !.customer = c, !.record = r])
    /\ UNCHANGED <<customers, known, signedIn, records, overtaken>>

createServiceRecord(q) ==
    LET r == clerks[q].record
    IN  /\ clerks[q].op = "createRecord"
        /\ records[r] = NoRecord
        /\ records' = [records EXCEPT ![r] =
              [customer |-> clerks[q].customer, current |-> 1,
               revisions |-> {[number |-> 1, of |-> 0]}]]
        /\ LaysDown(q)
        /\ UNCHANGED <<customers, known, signedIn, overtaken>>

(* The record and its latest revision are read by two statements. *)
ReadRecord(q, r) ==
    /\ records[r] # NoRecord
    /\ records[r].current < MaxRevised
    /\ TakesUp(q, [NoClerk EXCEPT !.op = "reviseRecord", !.record = r,
                                  !.current = records[r].current])
    /\ UNCHANGED <<customers, known, signedIn, records, overtaken>>

ReadPrevious(q) ==
    /\ clerks[q].op = "reviseRecord"
    /\ clerks[q].previous = 0
    /\ clerks' = [clerks EXCEPT ![q].previous = LastNumber(clerks[q].record)]
    /\ UNCHANGED <<customers, known, signedIn, records, overtaken>>

(* Mutant: without the unique key on (record, revision). *)
AnyNumber(r, number) == number <= MaxRevised

NumberIsFree(r, number) == \A v \in records[r].revisions : v.number # number

reviseServiceRecord(q) ==
    LET r == clerks[q].record
        next == clerks[q].current + 1
    IN  /\ clerks[q].op = "reviseRecord"
        /\ clerks[q].previous # 0
        /\ NumberIsFree(r, next)
        /\ records' = [records EXCEPT
              ![r].current = next,
              ![r].revisions = @ \cup {[number |-> next, of |-> clerks[q].previous]}]
        /\ LaysDown(q)
        /\ UNCHANGED <<customers, known, signedIn, overtaken>>

(* A conflict, an exception, a crash. *)
DropClerk(q) ==
    /\ clerks[q] # NoClerk
    /\ LaysDown(q)
    /\ UNCHANGED <<customers, known, signedIn, records, overtaken>>

CustomerInit ==
    /\ customers = [c \in Customer |-> NewCustomer]
    /\ known = {}
    /\ signedIn = {}
    /\ records = [r \in Record |-> NoRecord]
    /\ clerks = [q \in Clerk |-> NoClerk]
    /\ overtaken = FALSE

CustomerNext ==
    \/ \E c \in Customer : Books(c) \/ SignsIn(c)
    \/ \E q \in Owner :
          \/ \E target, source \in Customer : StartMerge(q, target, source)
          \/ merge(q)
    \/ \E q \in Clerk :
          \/ \E c \in Customer :
                \/ \E op \in {"updateProfile", "setTags", "updateAccess"} : StartUpdate(q, op, c)
                \/ \E r \in Record : StartRecord(q, c, r)
          \/ updateProfile(q)
          \/ \E value \in BOOLEAN : setTags(q, value) \/ updateOnlineBookingAccess(q, value)
          \/ createServiceRecord(q)
          \/ \E r \in Record : ReadRecord(q, r)
          \/ ReadPrevious(q) \/ reviseServiceRecord(q)
          \/ DropClerk(q)

CustomerSpec == CustomerInit /\ [][CustomerNext]_customerVars

-----------------------------------------------------------------------------
(* Properties *)

CustomerTypeOK ==
    /\ customers \in [Customer -> CustomerRow]
    /\ known \subseteq Customer
    /\ signedIn \subseteq Customer
    /\ records \in [Record -> RecordRow]
    /\ clerks \in [Clerk -> ClerkRow]
    /\ overtaken \in BOOLEAN

(* The note of a service record loses nothing: its revisions are numbered
   without a gap, each is made of the one before, and the record shows the
   last, although a revision is made of a row and of a latest revision that
   were read apart and long before. *)
RevisionsChain ==
    \A r \in Record :
        records[r].revisions =
            {[number |-> n, of |-> n - 1] : n \in 1..records[r].current}

(* Whoever follows the merges of an archived customer comes to one who is
   not archived.  Merges may be in flight together, of one customer into two
   others too, and each has looked its two up long before; only one that
   archives the very target of another can close a circle. *)
Acyclic ==
    \A group \in SUBSET Customer :
        group # {} => \E c \in group : customers[c].mergedInto \notin group

NoMergeCycle == overtaken \/ Acyclic
=============================================================================
