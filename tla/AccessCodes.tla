----------------------------- MODULE AccessCodes -----------------------------
(***************************************************************************)
(* The codes the salon sends by SMS: to sign in, to confirm a hold, to see *)
(* a booking and to join the waitlist.  CustomerAuthService,               *)
(* BookingAccessService and WaitlistService follow one pattern over three  *)
(* tables: count what was sent, store a row, send, and on an answer read   *)
(* the row, compare, and write either the failure or the consumption.      *)
(* Every one of these statements is on its own.                            *)
(***************************************************************************)
EXTENDS Integers, FiniteSets

CONSTANTS
    Code,         \* rows of the three challenge tables
    Phone,        \* phone numbers, each with the reference it asks about
    Visitor,      \* requests the API serves at the same time
    NoCode,       \* no code
    Lifetime,     \* OTP_LIFETIME_MS
    ResendAfter,  \* RESEND_INTERVAL_MS
    MaxAttempts,  \* MAX_VERIFY_ATTEMPTS, otpMaxAttempts
    MaxPhone,     \* MAX_PHONE_REQUESTS, within a window longer than a run
    LastTime      \* bound on the clock

ASSUME CodeAssumption ==
    /\ NoCode \notin Code
    /\ Lifetime \in Nat \ {0}
    /\ ResendAfter \in Nat
    /\ MaxAttempts \in Nat \ {0}
    /\ LastTime \in Nat

VARIABLES
    clock,   \* the clock of server and database
    codes,   \* the rows
    asking,  \* what every request in flight has read
    grants   \* history: what each code opened: sessions, entries, bookings

codeVars == <<clock, codes, asking, grants>>

-----------------------------------------------------------------------------
(* CustomerAuthPurpose, and the two services with a table of their own *)
Kind == {"ACCOUNT_LOGIN", "BOOKING_CONFIRMATION", "BOOKING_ACCESS", "WAITLIST"}

CustomerAuth == {"ACCOUNT_LOGIN", "BOOKING_CONFIRMATION"}

Table(kind) == IF kind \in CustomerAuth THEN CustomerAuth ELSE {kind}

(* known: the row names the customer or the booking the code is for. *)
CodeRow == [kind : Kind \cup {"NONE"}, phone : Phone \cup {NoCode}, known : BOOLEAN,
            made : Nat, until : Nat, attempts : 0..MaxAttempts, consumed : BOOLEAN]

NoRow == [kind |-> "NONE", phone |-> NoCode, known |-> FALSE,
          made |-> 0, until |-> 0, attempts |-> 0, consumed |-> FALSE]

Ask == [step : {"idle", "create", "send", "right", "wrong", "session"},
        kind : Kind, phone : Phone \cup {NoCode}, known : BOOLEAN,
        code : Code \cup {NoCode}, attempts : 0..MaxAttempts]

NoAsk == [step |-> "idle", kind |-> "WAITLIST", phone |-> NoCode, known |-> FALSE,
          code |-> NoCode, attempts |-> 0]

Stored(k) == codes[k].kind # "NONE"

(* What every verification asks of a row. *)
Usable(k) ==
    /\ Stored(k)
    /\ ~codes[k].consumed
    /\ codes[k].until > clock
    /\ codes[k].attempts < MaxAttempts

-----------------------------------------------------------------------------
(* requestAccountCode, requestBookingCode, requestCode *)

SentTo(phone, kind) ==
    {k \in Code : codes[k].kind \in Table(kind) /\ codes[k].phone = phone}

(* Only CustomerAuthService answers with the code it sent a moment ago. *)
JustSent(phone, kind) ==
    \E k \in SentTo(phone, kind) :
        /\ codes[k].kind = kind /\ kind \in CustomerAuth
        /\ \A l \in SentTo(phone, kind) : codes[l].kind = kind => codes[l].made <= codes[k].made
        /\ ~codes[k].consumed
        /\ codes[k].until > clock
        /\ clock - codes[k].made < ResendAfter

(* A number nobody knows gets an answer like any other, and no message. *)
RequestCode(v, kind, phone, known) ==
    /\ asking[v] = NoAsk
    /\ ~JustSent(phone, kind)
    /\ Cardinality(SentTo(phone, kind)) < MaxPhone
    /\ kind \in {"ACCOUNT_LOGIN", "BOOKING_ACCESS"} \/ known
    /\ asking' = [asking EXCEPT ![v] = [step |-> "create", kind |-> kind, phone |-> phone,
                                        known |-> known, code |-> NoCode, attempts |-> 0]]
    /\ UNCHANGED <<clock, codes, grants>>

createChallenge(v, k) ==
    /\ asking[v].step = "create"
    /\ ~Stored(k)
    /\ codes' = [codes EXCEPT ![k] =
          [kind |-> asking[v].kind, phone |-> asking[v].phone, known |-> asking[v].known,
           made |-> clock, until |-> clock + Lifetime, attempts |-> 0, consumed |-> FALSE]]
    /\ asking' = [asking EXCEPT ![v] =
          IF @.known THEN [@ EXCEPT !.step = "send", !.code = k] ELSE NoAsk]
    /\ UNCHANGED <<clock, grants>>

(* A refused message takes its code back, but for the waitlist. *)
Sent(v, accepted) ==
    /\ asking[v].step = "send"
    /\ codes' = IF accepted \/ asking[v].kind = "WAITLIST" THEN codes
                ELSE [codes EXCEPT ![asking[v].code].consumed = TRUE]
    /\ asking' = [asking EXCEPT ![v] = NoAsk]
    /\ UNCHANGED <<clock, grants>>

-----------------------------------------------------------------------------
(* verifyAccountCode, consumeBookingCode, verifyCode *)

(* Booking access looks for the latest code not consumed, the others for
   the one they are told. *)
Latest(k) ==
    codes[k].kind = "BOOKING_ACCESS" =>
        \A l \in SentTo(codes[k].phone, "BOOKING_ACCESS") :
            ~codes[l].consumed => codes[l].made <= codes[k].made

ReadCode(v, k, answer) ==
    /\ asking[v] = NoAsk
    /\ Usable(k)
    /\ codes[k].known
    /\ Latest(k)
    /\ asking' = [asking EXCEPT ![v] = [NoAsk EXCEPT !.step = answer, !.kind = codes[k].kind,
                                                     !.code = k, !.attempts = codes[k].attempts]]
    /\ UNCHANGED <<clock, codes, grants>>

(* The number written is the one read plus one.  Inside confirmHold it is
   rolled back with the exception that follows: GiveUp. *)
WrongCode(v) ==
    /\ asking[v].step = "wrong"
    /\ asking[v].kind # "BOOKING_CONFIRMATION"
    /\ codes' = [codes EXCEPT ![asking[v].code].attempts = asking[v].attempts + 1,
                              ![asking[v].code].consumed =
                                  @ \/ asking[v].attempts + 1 >= MaxAttempts]
    /\ asking' = [asking EXCEPT ![v] = NoAsk]
    /\ UNCHANGED <<clock, grants>>

(* The condition of the updateMany that consumes.
   Mutant: the row read before is trusted. *)
StillThere(k) == Stored(k)

Consumable(k) == Usable(k)

(* The session of an account is a statement of its own, after the code;
   everything else is granted in the transaction that consumes. *)
RightCode(v) ==
    /\ asking[v].step = "right"
    /\ Consumable(asking[v].code)
    /\ codes' = [codes EXCEPT ![asking[v].code].consumed = TRUE]
    /\ IF asking[v].kind = "ACCOUNT_LOGIN"
       THEN asking' = [asking EXCEPT ![v].step = "session"] /\ UNCHANGED grants
       ELSE /\ asking' = [asking EXCEPT ![v] = NoAsk]
            /\ grants' = [grants EXCEPT ![asking[v].code] = @ + 1]
    /\ UNCHANGED clock

(* confirmHold of a customer the salon has blocked: the hold is given up,
   and the code is gone with it. *)
RightCodeBlocked(v) ==
    /\ asking[v].step = "right"
    /\ asking[v].kind = "BOOKING_CONFIRMATION"
    /\ Consumable(asking[v].code)
    /\ codes' = [codes EXCEPT ![asking[v].code].consumed = TRUE]
    /\ asking' = [asking EXCEPT ![v] = NoAsk]
    /\ UNCHANGED <<clock, grants>>

OpenSession(v) ==
    /\ asking[v].step = "session"
    /\ grants' = [grants EXCEPT ![asking[v].code] = @ + 1]
    /\ asking' = [asking EXCEPT ![v] = NoAsk]
    /\ UNCHANGED <<clock, codes>>

(* An exception, a crash, a client that goes away. *)
DropAsk(v) ==
    /\ asking[v] # NoAsk
    /\ asking' = [asking EXCEPT ![v] = NoAsk]
    /\ UNCHANGED <<clock, codes, grants>>

CodeTick ==
    /\ clock < LastTime
    /\ clock' = clock + 1
    /\ UNCHANGED <<codes, asking, grants>>

-----------------------------------------------------------------------------
CodeInit ==
    /\ clock = 0
    /\ codes = [k \in Code |-> NoRow]
    /\ asking = [v \in Visitor |-> NoAsk]
    /\ grants = [k \in Code |-> 0]

CodeNext ==
    \/ \E v \in Visitor :
          \/ \E kind \in Kind, phone \in Phone, known \in BOOLEAN :
                RequestCode(v, kind, phone, known)
          \/ \E k \in Code : createChallenge(v, k)
          \/ \E accepted \in BOOLEAN : Sent(v, accepted)
          \/ \E k \in Code, answer \in {"right", "wrong"} : ReadCode(v, k, answer)
          \/ WrongCode(v)
          \/ RightCode(v) \/ RightCodeBlocked(v) \/ OpenSession(v)
          \/ DropAsk(v)
    \/ CodeTick

CodeSpec == CodeInit /\ [][CodeNext]_codeVars

-----------------------------------------------------------------------------
(* Properties *)

CodeTypeOK ==
    /\ clock \in Nat
    /\ codes \in [Code -> CodeRow]
    /\ asking \in [Visitor -> Ask]
    /\ grants \in [Code -> Nat]

(* A consumed account code somebody is about to open a session with. *)
Claimed(k) == \E v \in Visitor : asking[v].step = "session" /\ asking[v].code = k

CodeStanding ==
    [k \in Code |->
        IF ~Stored(k) THEN "none"
        ELSE IF grants[k] = 1 THEN "used"
        ELSE IF grants[k] > 1 THEN "twice"
        ELSE IF Usable(k) \/ Claimed(k) THEN "open"
        ELSE "void"]

Promise == INSTANCE OneTimeCode WITH state <- CodeStanding

(* Every code opens at most one thing and opens nothing once it has run
   out, was taken back or has been failed too often, although failures and
   consumptions are written by requests that read the row earlier: the
   detailed protocol implements the one-time code. *)
CodeUsedOnce == Promise!Spec
=============================================================================
