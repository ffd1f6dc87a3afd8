------------------------------ MODULE PickupOtp ------------------------------
(***************************************************************************)
(* The pickup code of one order: shown to the customer, refreshed by the   *)
(* staff or when it expires, and verified at the counter to complete the   *)
(* order, while the staff may still move or cancel it.                     *)
(*                                                                         *)
(* A code is never stored: it is derived from its expiry time, and the row *)
(* keeps that time and the code's hash.  Hashing is taken to be injective, *)
(* so the row's `hash' is the code; deriving is not, since codes are short.*)
(***************************************************************************)
EXTENDS OrderStatus, Naturals, FiniteSets

CONSTANTS
    Requests,      \* slots for requests in progress
    Codes,         \* what somebody may type at the counter
    DeriveOtp,     \* deriveOtp: expiry times to codes
    OtpExpiry,     \* OTP_EXPIRY_MINUTES, in ticks of the clock
    MaxAttempts,   \* OTP_MAX_ATTEMPTS
    MaxTime,       \* bound on the clock
    MaxOffset,     \* bound on how far a refresh moves an expiry on
    MaxLost,       \* bound on the guesses that are never counted
    None           \* no row, or an unused argument

\* The times a code may expire at.
Times == 0 .. MaxTime + OtpExpiry + MaxOffset

ASSUME PickupOtpAssumption ==
    /\ IsFiniteSet(Requests)
    /\ OtpExpiry \in Nat
    /\ MaxAttempts \in Nat \ {0}
    /\ MaxTime \in Nat
    /\ MaxOffset \in Nat
    /\ MaxLost \in Nat
    /\ DeriveOtp \in [Times -> Codes]
    /\ None \notin [hash : Codes, expiresAt : Times, verified : BOOLEAN,
                      attempts : Nat]
    /\ None \notin OrderStatuses

VARIABLES
    clock,   \* the time
    status,  \* the order row: its status
    otp,     \* the order's OTP row, or None
    req,     \* the requests in progress
    \* What happened, for the properties:
    guesses, \* how often a code was compared with the row's since it was stored
    lost,    \* how many of the requests that compared died before counting it
    late,    \* the requests in progress when the order last reached an end
    outcome, \* that end, or None
    undone   \* a late request has written over it

guessing == <<guesses, lost>>
ending == <<late, outcome, undone>>
vars == <<clock, status, otp, req, guessing, ending>>

OtpRows == [hash : Codes, expiresAt : Times, verified : BOOLEAN, attempts : Nat]

\* Where a request stands: the await it will return from next.
Steps == {"idle", "load", "upsert", "verify", "regenerate", "wrong", "complete",
          "move"}

RequestStates ==
    [pc : Steps,
     force : BOOLEAN,              \* forceRefresh
     time : Times,                 \* when it began, then the new expiry
     code : Codes \cup {None},     \* the code it was given
     to : OrderStatuses \cup {None}]  \* the status it was asked for

Request(step, force, time, code, to) ==
    [pc |-> step, force |-> force, time |-> time, code |-> code, to |-> to]

Idle == Request("idle", FALSE, 0, None, None)

Init ==
    /\ clock = 0
    /\ status = "PREPARING"
    /\ otp = None
    /\ req = [r \in Requests |-> Idle]
    /\ guesses = 0
    /\ lost = 0
    /\ late = {}
    /\ outcome = None
    /\ undone = FALSE

-------------------------------------------------------------------------------

At(r, step) == req[r].pc = step

Become(r, new) == req' = [req EXCEPT ![r] = new]

Return(r) == Become(r, Idle)

Ready == status \in ReadyForPickup

\* The row holds a code that has not been used, expired or not.
Unused == otp # None /\ ~otp.verified

Expired(now) == otp.expiresAt <= now

\* The code was given at the counter.
Used == otp # None /\ otp.verified

Ends == {"COMPLETED", "CANCELLED"}

\* Request r writes the order or its row: it overturns an end it is late for
\* when it changes the status or takes the used code away.
Wrote(r) ==
    /\ IF status' # status /\ status' \in Ends
       THEN late' = {q \in Requests : ~At(q, "idle")} \ {r} /\ outcome' = status'
       ELSE UNCHANGED <<late, outcome>>
    /\ undone' = (undone \/ (r \in late /\ (status' # status \/ Used # Used')))

-------------------------------------------------------------------------------
(* Showing and refreshing the code *)

\* getDisplayOtpForOrder is entered: when the customer or the staff open the
\* order, and through generateForOrderNumber, which the staff force.
OpenOtp(r, force) ==
    /\ At(r, "idle")
    /\ Ready
    /\ Become(r, Request("load", force, clock, None, None))
    /\ UNCHANGED <<clock, status, otp, guessing, ending>>

\* The expiry of a new code: a forced refresh of an unused one moves it on
\* until the code derived from it differs.
NewExpiries(now, force) ==
    LET Fresh(d) == DeriveOtp[now + OtpExpiry + d] # otp.hash IN
    IF force /\ Unused
    THEN {now + OtpExpiry + d : d \in
            {d \in 0 .. MaxOffset : Fresh(d) /\ \A e \in 0 .. d - 1 : ~Fresh(e)}}
    ELSE {now + OtpExpiry}

\* The row was read: an active code is shown again, else a new one is made.
LoadOtp(r) ==
    LET now == req[r].time
        force == req[r].force
    IN
    /\ At(r, "load")
    /\ \/ /\ ~force /\ Unused /\ ~Expired(now)
          /\ Return(r)
       \/ /\ ~(~force /\ Unused /\ ~Expired(now))
          /\ \E expiresAt \in NewExpiries(now, force) :
                Become(r, Request("upsert", force, expiresAt, None, None))
    /\ UNCHANGED <<clock, status, otp, guessing, ending>>

\* The upsert; its caller is shown the code.
UpsertOtp(r) ==
    /\ At(r, "upsert")
    /\ otp' = [hash |-> DeriveOtp[req[r].time], expiresAt |-> req[r].time,
               verified |-> FALSE, attempts |-> 0]
    /\ guesses' = 0
    /\ lost' = 0
    /\ Return(r)
    /\ UNCHANGED <<clock, status>>
    /\ Wrote(r)

-------------------------------------------------------------------------------
(* Verifying the code *)

\* verifyForOrderNumber read the order.
StartVerify(r, code) ==
    /\ At(r, "idle")
    /\ Ready
    /\ Become(r, Request("verify", FALSE, 0, code, None))
    /\ UNCHANGED <<clock, status, otp, guessing, ending>>

\* Variant: lets one attempt too many through.
VerdictOnceMore(code) ==
    IF ~Unused THEN Idle
    ELSE IF Expired(clock) THEN Request("regenerate", TRUE, 0, None, None)
    ELSE IF otp.attempts > MaxAttempts THEN Idle
    ELSE IF code = otp.hash THEN Request("complete", FALSE, 0, None, None)
    ELSE Request("wrong", FALSE, 0, None, None)

\* What becomes of a request that gave `code': a missing or used row refuses
\* it, an expired one is replaced first, a locked one refuses it, and any other
\* compares it.
Verdict(code) ==
    IF ~Unused THEN Idle
    ELSE IF Expired(clock) THEN Request("regenerate", TRUE, 0, None, None)
    ELSE IF otp.attempts >= MaxAttempts THEN Idle
    ELSE IF code = otp.hash THEN Request("complete", FALSE, 0, None, None)
    ELSE Request("wrong", FALSE, 0, None, None)

\* It read the row.
ReadOtp(r) ==
    LET next == Verdict(req[r].code) IN
    /\ At(r, "verify")
    /\ Become(r, next)
    /\ guesses' = IF next.pc \in {"wrong", "complete"} THEN guesses + 1 ELSE guesses
    /\ UNCHANGED <<clock, status, otp, lost, ending>>

\* Variant: writes back the count it read and one more, over what others
\* counted since.
CountOverOthers(r) ==
    /\ At(r, "wrong")
    /\ \E seen \in 0 .. otp.attempts :
          /\ otp.attempts - seen < Cardinality(Requests)
          /\ otp' = [hash |-> otp.hash, expiresAt |-> otp.expiresAt,
                     verified |-> otp.verified, attempts |-> seen + 1]
    /\ Return(r)
    /\ UNCHANGED <<clock, status, guessing, ending>>

\* The row is updated by id: it may hold a newer code by now.
CountWrongGuess(r) ==
    /\ At(r, "wrong")
    /\ otp' = [hash |-> otp.hash, expiresAt |-> otp.expiresAt,
               verified |-> otp.verified, attempts |-> otp.attempts + 1]
    /\ Return(r)
    /\ UNCHANGED <<clock, status, guessing, ending>>

\* Variant: no transaction, and the process may die between its statements.
CompleteInTwoSteps(r) ==
    /\ At(r, "complete")
    /\ otp' = [hash |-> otp.hash, expiresAt |-> otp.expiresAt,
               verified |-> TRUE, attempts |-> otp.attempts + 1]
    /\ status' \in {status, "COMPLETED"}
    /\ Return(r)
    /\ UNCHANGED <<clock, guessing>>
    /\ Wrote(r)

\* The transaction that uses the code up and completes the order.
CompletePickup(r) ==
    /\ At(r, "complete")
    /\ otp' = [hash |-> otp.hash, expiresAt |-> otp.expiresAt,
               verified |-> TRUE, attempts |-> otp.attempts + 1]
    /\ status' = "COMPLETED"
    /\ Return(r)
    /\ UNCHANGED <<clock, guessing>>
    /\ Wrote(r)

\* generateForOrderNumber read the order again.
Regenerate(r) ==
    /\ At(r, "regenerate")
    /\ IF Ready THEN Become(r, Request("load", req[r].force, clock, None, None))
                ELSE Return(r)
    /\ UNCHANGED <<clock, status, otp, guessing, ending>>

-------------------------------------------------------------------------------
(* The staff move the order *)

\* updateStatus read the order and checked the move.
StartMove(r, s) ==
    /\ At(r, "idle")
    /\ s \in AllowedStatusUpdates(status)
    /\ Become(r, Request("move", FALSE, 0, None, s))
    /\ UNCHANGED <<clock, status, otp, guessing, ending>>

\* It wrote the order; one made ready gets a code.
MoveOrder(r) ==
    /\ At(r, "move")
    /\ status' = req[r].to
    /\ IF req[r].to \in ReadyForPickup
       THEN Become(r, Request("regenerate", FALSE, 0, None, None))
       ELSE Return(r)
    /\ UNCHANGED <<clock, otp, guessing>>
    /\ Wrote(r)

-------------------------------------------------------------------------------

\* The requests that will add an attempt to whatever code the row holds.
Attempting == {r \in Requests : req[r].pc \in {"wrong", "complete"}}

\* A query fails or the process dies: the request ends where it stands.
Abort(r) ==
    /\ ~At(r, "idle")
    /\ IF r \in Attempting THEN lost < MaxLost /\ lost' = lost + 1
                          ELSE UNCHANGED lost
    /\ Return(r)
    /\ UNCHANGED <<clock, status, otp, guesses, ending>>

Tick ==
    /\ clock < MaxTime
    /\ clock' = clock + 1
    /\ UNCHANGED <<status, otp, req, guessing, ending>>

Start(r) ==
    \/ \E force \in BOOLEAN : OpenOtp(r, force)
    \/ \E code \in Codes : StartVerify(r, code)
    \/ \E s \in OrderStatuses : StartMove(r, s)

Continue(r) ==
    \/ LoadOtp(r)
    \/ UpsertOtp(r)
    \/ ReadOtp(r)
    \/ CountWrongGuess(r)
    \/ CompletePickup(r)
    \/ Regenerate(r)
    \/ MoveOrder(r)
    \/ Abort(r)

Next == Tick \/ \E r \in Requests : Start(r) \/ Continue(r)

Spec == Init /\ [][Next]_vars

-------------------------------------------------------------------------------
(* Properties *)

\* The statuses of an order from the kitchen on.
PickupStatuses == {"PREPARING", "CANCELLED", "COMPLETED"} \cup ReadyForPickup

TypeOK ==
    /\ clock \in 0 .. MaxTime
    /\ status \in PickupStatuses
    /\ otp \in OtpRows \cup {None}
    /\ req \in [Requests -> RequestStates]
    /\ guesses \in Nat
    /\ lost \in Nat
    /\ late \subseteq Requests
    /\ outcome \in Ends \cup {None}
    /\ undone \in BOOLEAN

\* One stored code takes at most this many attempts: the limit holds for the
\* requests that read the row after it was reached, and those that read it
\* before are no more than the service runs at a time.
AttemptsAreBounded ==
    otp # None => otp.attempts < MaxAttempts + Cardinality(Requests)

\* A stored code can be guessed only so often, however the guesses, refreshes
\* and counts interleave: every comparison is counted, on the row it was made
\* with or on the one that replaced it, or its request died in between.
GuessesAreBounded ==
    otp # None => guesses < MaxAttempts + Cardinality(Requests) + lost

\* An order is completed exactly when its code has been used, and an end it
\* reached stands, until a request that had begun before that end writes over
\* it: a move checked against the status of before, a completion, or a refresh
\* that found the order ready.  No request that begins later can.
EndsStandUnlessOvertaken ==
    ~undone => /\ (status = "COMPLETED") = Used
               /\ outcome # None => status = outcome

-------------------------------------------------------------------------------
(* The inductive invariant behind the theorems of LimitsProofs *)

AttemptsInv ==
    /\ otp = None => Attempting = {}
    /\ otp # None =>
        otp.attempts + Cardinality(Attempting) < MaxAttempts + Cardinality(Requests)

\* The guesses that were compared are counted, about to be, or lost.
GuessesInv ==
    /\ otp = None => guesses = 0
    /\ otp # None => guesses <= otp.attempts + Cardinality(Attempting) + lost

\* While an end stands, every request is older than it.
EndsInv ==
    /\ EndsStandUnlessOvertaken
    /\ ~undone /\ outcome = None => status \notin Ends
    /\ ~undone /\ outcome # None => \A r \in Requests : At(r, "idle") \/ r \in late

\* What a request computed stays within the bounds of the model, and only the
\* code completes the order.
ComputedInv ==
    \A r \in Requests :
        /\ At(r, "load") => req[r].time \in 0 .. MaxTime
        /\ At(r, "move") => req[r].to \in PickupStatuses \ {"COMPLETED"}

PickupInv == TypeOK /\ ComputedInv /\ AttemptsInv /\ GuessesInv /\ EndsInv

==============================================================================
