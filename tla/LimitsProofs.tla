----------------------------- MODULE LimitsProofs -----------------------------
(***************************************************************************)
(* Theorems about what is counted and refused beyond a limit: the attempts *)
(* at a pickup code (PickupOtp), the requests of a client (RateLimit) and  *)
(* the redemptions of a coupon, with the amounts that are charged for them *)
(* (Coupons).  They share no state, and no proof about one uses the        *)
(* assumptions of another.  The inductive invariants are PickupInv, for    *)
(* any number of requests, any way of deriving codes and any limits,       *)
(* RateInv, for any limit and window, and CouponsInv, for any coupons.     *)
(***************************************************************************)
EXTENDS PickupOtp, RateLimit, Coupons, FiniteSetTheorems, TLAPS

(***************************************************************************)
(* Requests.                                                               *)
(***************************************************************************)
LEMMA RequestType ==
    ASSUME NEW step \in Steps, NEW force \in BOOLEAN, NEW time \in Times,
           NEW code \in Codes \cup {None}, NEW to \in OrderStatuses \cup {None}
    PROVE  Request(step, force, time, code, to) \in RequestStates
BY DEF Request, RequestStates

LEMMA ZeroTime == 0 \in Times
BY PickupOtpAssumption DEF Times

LEMMA IdleType == Idle \in RequestStates /\ Idle.pc = "idle"
BY ZeroTime, RequestType DEF Idle, Request, Steps

OthersUnchanged(r) == \A q \in Requests \ {r} : req'[q] = req[q]

LEMMA BecomeStep ==
    ASSUME PickupInv, NEW r \in Requests, NEW new \in RequestStates, Become(r, new)
    PROVE  /\ req' \in [Requests -> RequestStates]
           /\ req'[r] = new
           /\ OthersUnchanged(r)
BY DEF PickupInv, TypeOK, Become, OthersUnchanged

(***************************************************************************)
(* How many requests will add an attempt.                                  *)
(***************************************************************************)
LEMMA AttemptingFinite ==
    /\ IsFiniteSet(Attempting)
    /\ Cardinality(Attempting) \in Nat
    /\ Cardinality(Requests) \in Nat
    /\ Cardinality(Attempting) <= Cardinality(Requests)
BY PickupOtpAssumption, FS_Subset, FS_CardinalityType DEF Attempting

LEMMA AttemptingShrinks ==
    ASSUME NEW r \in Requests, OthersUnchanged(r),
           req'[r].pc \notin {"wrong", "complete"}
    PROVE  /\ Attempting' = Attempting \ {r}
           /\ Cardinality(Attempting') \in Nat
           /\ Cardinality(Attempting') <= Cardinality(Attempting)
           /\ r \in Attempting => Cardinality(Attempting') = Cardinality(Attempting) - 1
<1>1. Attempting' = Attempting \ {r}
    BY DEF Attempting, OthersUnchanged
<1> QED BY <1>1, AttemptingFinite, FS_RemoveElement, FS_Subset, FS_CardinalityType

(***************************************************************************)
(* A step that leaves the row alone, or starts it afresh, and whose        *)
(* request is not about to add an attempt: if it was, its guess is lost.   *)
(***************************************************************************)
LEMMA CountsKept ==
    ASSUME PickupInv, NEW r \in Requests, OthersUnchanged(r),
           req'[r].pc \notin {"wrong", "complete"},
           \/ /\ otp' = otp /\ guesses' = guesses
              /\ (r \in Attempting /\ lost' = lost + 1) \/ (r \notin Attempting /\ lost' = lost)
           \/ otp' # None /\ otp'.attempts = 0 /\ guesses' = 0 /\ lost' = 0
    PROVE  AttemptsInv' /\ GuessesInv'
<1>1. /\ Attempting' = Attempting \ {r}
      /\ Cardinality(Attempting') \in Nat
      /\ Cardinality(Attempting') <= Cardinality(Attempting)
      /\ r \in Attempting => Cardinality(Attempting') = Cardinality(Attempting) - 1
    BY AttemptingShrinks
<1>2. Cardinality(Attempting) <= Cardinality(Requests) /\ Cardinality(Requests) \in Nat
      /\ Cardinality(Attempting) \in Nat
    BY AttemptingFinite
<1>3. CASE /\ otp' = otp /\ guesses' = guesses
           /\ (r \in Attempting /\ lost' = lost + 1) \/ (r \notin Attempting /\ lost' = lost)
    <2>1. /\ otp # None => otp.attempts \in Nat
          /\ guesses \in Nat
          /\ lost \in Nat
        BY DEF PickupInv, TypeOK, OtpRows
    <2>2. AttemptsInv'
        <3>1. otp' = otp
            BY <1>3
        <3> QED BY <1>1, <1>2, <2>1, <3>1, PickupOtpAssumption DEF PickupInv, AttemptsInv
    <2>3. GuessesInv'
        <3>1. otp' = otp /\ guesses' = guesses
            BY <1>3
        <3>2. Cardinality(Attempting') + lost' = Cardinality(Attempting) + lost
            <4>1. CASE r \in Attempting /\ lost' = lost + 1
                BY <1>1, <1>2, <2>1, <4>1
            <4>2. CASE r \notin Attempting /\ lost' = lost
                <5>1. Attempting' = Attempting
                    BY <1>1, <4>2
                <5> QED BY <4>2, <5>1
            <4> QED BY <1>3, <4>1, <4>2
        <3>3. lost' \in Nat
            BY <1>3, <2>1
        <3> QED BY <1>1, <1>2, <2>1, <3>1, <3>2, <3>3 DEF PickupInv, GuessesInv
    <2> QED BY <2>2, <2>3
<1>4. CASE otp' # None /\ otp'.attempts = 0 /\ guesses' = 0 /\ lost' = 0
    BY <1>1, <1>2, <1>4, PickupOtpAssumption DEF AttemptsInv, GuessesInv
<1> QED BY <1>3, <1>4

(***************************************************************************)
(* Whose turn it is after an end: a step that writes nothing starts no     *)
(* request then, and one that writes is late for it.                       *)
(***************************************************************************)
LEMMA EndsKept ==
    ASSUME PickupInv, NEW r \in Requests, OthersUnchanged(r),
           UNCHANGED <<status, otp, ending>>,
           ~At(r, "idle") \/ status \notin Ends
    PROVE  EndsInv'
<1>1. EndsInv /\ outcome \in Ends \cup {None}
    BY DEF PickupInv, TypeOK
<1>2. EndsStandUnlessOvertaken'
    BY <1>1 DEF EndsInv, EndsStandUnlessOvertaken, Used, ending
<1>3. ~undone' /\ outcome' = None => status' \notin Ends
    BY <1>1 DEF EndsInv, ending
<1>4. ASSUME ~undone', outcome' # None, NEW q \in Requests
      PROVE  At(q, "idle")' \/ q \in late'
    <2>1. ~undone /\ outcome # None /\ late' = late /\ status \in Ends
        BY <1>1, <1>4 DEF EndsInv, EndsStandUnlessOvertaken, ending
    <2>2. ~At(r, "idle")
        BY <2>1
    <2>3. At(q, "idle") \/ q \in late
        BY <1>1, <2>1 DEF EndsInv
    <2> QED BY <2>1, <2>2, <2>3 DEF At, OthersUnchanged
<1> QED BY <1>2, <1>3, <1>4 DEF EndsInv

LEMMA EndsWritten ==
    ASSUME PickupInv, NEW r \in Requests, OthersUnchanged(r),
           ~At(r, "idle"), Wrote(r),
           status' \in PickupStatuses,
           status' \in Ends => At(r, "idle")' \/ status' = status,
           \/ status' = "COMPLETED" /\ Used'
           \/ status' # "COMPLETED" /\ otp' = otp
           \/ status' = status /\ ~Used'
    PROVE  /\ EndsInv'
           /\ late' \subseteq Requests
           /\ outcome' \in Ends \cup {None}
           /\ undone' \in BOOLEAN
<1>1. /\ EndsInv /\ outcome \in Ends \cup {None} /\ undone \in BOOLEAN
      /\ late \subseteq Requests
    BY DEF PickupInv, TypeOK
<1>2. None \notin Ends
    BY PickupOtpAssumption DEF Ends, OrderStatuses
<1>3. /\ late' \subseteq Requests
      /\ outcome' \in Ends \cup {None}
      /\ undone' \in BOOLEAN
    BY <1>1 DEF Wrote
<1> SUFFICES EndsInv'
    BY <1>3
<1>4. CASE undone'
    BY <1>4 DEF EndsInv, EndsStandUnlessOvertaken
<1>5. CASE ~undone' /\ r \in late
    <2>1. status' = status /\ Used' = Used /\ ~undone
        BY <1>5 DEF Wrote, Used
    <2>2. late' = late /\ outcome' = outcome
        BY <2>1 DEF Wrote
    <2>3. EndsStandUnlessOvertaken'
        BY <1>1, <2>1, <2>2 DEF EndsInv, EndsStandUnlessOvertaken
    <2>4. outcome' # None => \A q \in Requests : At(q, "idle")' \/ q \in late'
        BY <1>1, <1>5, <2>1, <2>2 DEF EndsInv, At, OthersUnchanged
    <2> QED BY <1>1, <2>1, <2>2, <2>3, <2>4 DEF EndsInv
<1>6. CASE ~undone' /\ r \notin late
    <2>1. ~undone /\ outcome = None
        BY <1>1, <1>6 DEF Wrote, EndsInv
    <2>2. status \notin Ends /\ ~Used
        BY <1>1, <2>1 DEF EndsInv, EndsStandUnlessOvertaken, Ends, Used
    <2>3. (status' = "COMPLETED") = Used'
        BY <2>2 DEF Used, Ends
    <2>4. CASE status' \in Ends
        <3>1. status' # status /\ At(r, "idle")'
            BY <2>2, <2>4
        <3>2. outcome' = status' /\ late' = {q \in Requests : ~At(q, "idle")} \ {r}
            BY <2>4, <3>1 DEF Wrote
        <3>3. \A q \in Requests : At(q, "idle")' \/ q \in late'
            BY <3>1, <3>2 DEF At, OthersUnchanged
        <3> QED BY <1>2, <2>3, <2>4, <3>2, <3>3 DEF EndsInv, EndsStandUnlessOvertaken
    <2>5. CASE status' \notin Ends
        <3>1. outcome' = None
            BY <2>1, <2>5 DEF Wrote
        <3> QED BY <2>3, <2>5, <3>1 DEF EndsInv, EndsStandUnlessOvertaken
    <2> QED BY <2>4, <2>5
<1> QED BY <1>4, <1>5, <1>6

\* A step that changes nothing but its request, and not to add an attempt: if
\* it was about to, the guess is lost.
LEMMA QuietStep ==
    ASSUME PickupInv, NEW r \in Requests, NEW new \in RequestStates,
           Become(r, new), UNCHANGED <<clock, status, otp, guesses, ending>>,
           ~At(r, "idle") \/ status \notin Ends,
           (r \in Attempting /\ lost' = lost + 1) \/ (r \notin Attempting /\ lost' = lost),
           new.pc \notin {"wrong", "complete"},
           new.pc = "load" => new.time \in 0 .. MaxTime,
           new.pc = "move" => new.to \in PickupStatuses \ {"COMPLETED"}
    PROVE  PickupInv'
<1>1. /\ req' \in [Requests -> RequestStates]
      /\ req'[r] = new
      /\ OthersUnchanged(r)
    BY BecomeStep
<1>2. AttemptsInv' /\ GuessesInv'
    BY <1>1, CountsKept
<1>3. ComputedInv'
    BY <1>1 DEF PickupInv, ComputedInv, At, OthersUnchanged
<1>4. TypeOK'
    BY <1>1 DEF PickupInv, TypeOK, ending
<1>5. EndsInv'
    BY <1>1, EndsKept
<1> QED BY <1>2, <1>3, <1>4, <1>5 DEF PickupInv

LEMMA NotAttempting ==
    ASSUME NEW r \in Requests, NEW step, At(r, step), step \notin {"wrong", "complete"}
    PROVE  r \notin Attempting
BY DEF Attempting, At

\* The statuses a request may start in are no ends.
LEMMA OpenStatuses ==
    /\ Ready => status \notin Ends
    /\ \A s \in OrderStatuses :
        s \in AllowedStatusUpdates(status) /\ status \in PickupStatuses =>
            status \notin Ends /\ s \in PickupStatuses \ {"COMPLETED"}
BY DEF Ready, Ends, ReadyForPickup, AllowedStatusUpdates, AdminStatusTransitions,
       PickupStatuses, OrderStatuses

LEMMA NewExpiryType ==
    ASSUME NEW t \in 0 .. MaxTime, NEW force, NEW e \in NewExpiries(t, force)
    PROVE  e \in Times
BY PickupOtpAssumption DEF NewExpiries, Times

(***************************************************************************)
(* The steps of a request.                                                 *)
(***************************************************************************)
LEMMA StartInv ==
    ASSUME PickupInv, NEW r \in Requests, Start(r)
    PROVE  PickupInv'
<1>1. TypeOK /\ clock \in 0 .. MaxTime /\ clock \in Times
    BY PickupOtpAssumption DEF PickupInv, TypeOK, Times
<1>2. ASSUME NEW force \in BOOLEAN, OpenOtp(r, force) PROVE PickupInv'
    <2> DEFINE new == Request("load", force, clock, None, None)
    <2>1. new \in RequestStates /\ new.pc = "load" /\ new.time = clock
        BY <1>1, RequestType DEF Request, Steps
    <2>2. r \notin Attempting /\ status \notin Ends
        BY <1>2, NotAttempting, OpenStatuses DEF OpenOtp
    <2> QED BY <1>1, <1>2, <2>1, <2>2, QuietStep DEF OpenOtp, guessing
<1>3. ASSUME NEW code \in Codes, StartVerify(r, code) PROVE PickupInv'
    <2> DEFINE new == Request("verify", FALSE, 0, code, None)
    <2>1. new \in RequestStates /\ new.pc = "verify"
        BY ZeroTime, RequestType DEF Request, Steps
    <2>2. r \notin Attempting /\ status \notin Ends
        BY <1>3, NotAttempting, OpenStatuses DEF StartVerify
    <2> QED BY <1>3, <2>1, <2>2, QuietStep DEF StartVerify, guessing
<1>4. ASSUME NEW s \in OrderStatuses, StartMove(r, s) PROVE PickupInv'
    <2> DEFINE new == Request("move", FALSE, 0, None, s)
    <2>1. new \in RequestStates /\ new.pc = "move" /\ new.to = s
        BY ZeroTime, RequestType DEF Request, Steps
    <2>2. r \notin Attempting /\ status \notin Ends /\ s \in PickupStatuses \ {"COMPLETED"}
        BY <1>1, <1>4, NotAttempting, OpenStatuses DEF StartMove, TypeOK
    <2> QED BY <1>4, <2>1, <2>2, QuietStep DEF StartMove, guessing
<1> QED BY <1>2, <1>3, <1>4 DEF Start

LEMMA LoadOtpInv ==
    ASSUME PickupInv, NEW r \in Requests, LoadOtp(r)
    PROVE  PickupInv'
<1>1. TypeOK /\ req[r].force \in BOOLEAN /\ req[r].time \in 0 .. MaxTime
    BY DEF PickupInv, TypeOK, RequestStates, ComputedInv, LoadOtp
<1>2. PICK new \in RequestStates : Become(r, new) /\ new.pc \in {"idle", "upsert"}
    <2>1. CASE Return(r)
        BY <2>1, IdleType DEF Return
    <2>2. ASSUME NEW e \in NewExpiries(req[r].time, req[r].force),
                 Become(r, Request("upsert", req[r].force, e, None, None))
          PROVE  \E new \in RequestStates : Become(r, new) /\ new.pc \in {"idle", "upsert"}
        <3>1. e \in Times
            BY <1>1, NewExpiryType
        <3>2. Request("upsert", req[r].force, e, None, None) \in RequestStates
            BY <1>1, <3>1, RequestType DEF Steps
        <3> QED BY <2>2, <3>2 DEF Request
    <2> QED BY <2>1, <2>2 DEF LoadOtp
<1>3. r \notin Attempting /\ ~At(r, "idle")
    BY DEF LoadOtp, At, Attempting
<1> QED BY <1>2, <1>3, QuietStep DEF LoadOtp, guessing

LEMMA UpsertOtpInv ==
    ASSUME PickupInv, NEW r \in Requests, UpsertOtp(r)
    PROVE  PickupInv'
<1>1. TypeOK /\ ComputedInv
    BY DEF PickupInv
<1>2. /\ req' \in [Requests -> RequestStates]
      /\ req'[r] = Idle
      /\ OthersUnchanged(r)
    BY IdleType, BecomeStep DEF UpsertOtp, Return
<1>3. req[r].time \in Times
    BY <1>1 DEF TypeOK, RequestStates
<1>4. /\ otp' \in OtpRows
      /\ otp'.attempts = 0
      /\ ~otp'.verified
      /\ guesses' = 0
      /\ lost' = 0
    BY <1>3, PickupOtpAssumption DEF UpsertOtp, OtpRows
<1>5. otp' # None /\ ~Used'
    BY <1>4, PickupOtpAssumption DEF OtpRows, Used
<1>6. AttemptsInv' /\ GuessesInv'
    BY <1>2, <1>4, <1>5, IdleType, CountsKept
<1>7. /\ EndsInv'
      /\ late' \subseteq Requests
      /\ outcome' \in Ends \cup {None}
      /\ undone' \in BOOLEAN
    BY <1>1, <1>2, <1>5, IdleType, EndsWritten DEF UpsertOtp, At, TypeOK
<1>8. TypeOK'
    BY <1>1, <1>2, <1>4, <1>7 DEF TypeOK, UpsertOtp
<1>9. ComputedInv'
    BY <1>1, <1>2, IdleType DEF ComputedInv, At, OthersUnchanged
<1> QED BY <1>6, <1>7, <1>8, <1>9 DEF PickupInv

LEMMA ReadOtpInv ==
    ASSUME PickupInv, NEW r \in Requests, ReadOtp(r)
    PROVE  PickupInv'
<1> DEFINE new == Verdict(req[r].code)
<1>1. new \in RequestStates
    BY ZeroTime, IdleType, RequestType DEF Verdict, Steps
<1>2. new.pc \in {"idle", "regenerate", "wrong", "complete"}
    BY DEF Verdict, Idle, Request
<1>3. new.pc \in {"wrong", "complete"} => Unused /\ otp.attempts < MaxAttempts
    <2>1. Unused => otp.attempts \in Nat
        BY DEF PickupInv, TypeOK, OtpRows, Unused
    <2> QED BY <2>1, PickupOtpAssumption DEF Verdict, Idle, Request
<1>4. /\ Become(r, new)
      /\ UNCHANGED <<clock, status, otp, lost, ending>>
      /\ guesses' = IF new.pc \in {"wrong", "complete"} THEN guesses + 1 ELSE guesses
      /\ r \notin Attempting
      /\ ~At(r, "idle")
    BY DEF ReadOtp, At, Attempting
<1> HIDE DEF new
<1>5. CASE new.pc \notin {"wrong", "complete"}
    BY <1>1, <1>2, <1>4, <1>5, QuietStep
<1>6. CASE new.pc \in {"wrong", "complete"}
    <2>1. /\ req' \in [Requests -> RequestStates]
          /\ req'[r] = new
          /\ OthersUnchanged(r)
        BY <1>1, <1>4, BecomeStep
    <2>2. /\ Cardinality(Attempting') <= Cardinality(Requests)
          /\ Cardinality(Attempting') \in Nat
          /\ Cardinality(Requests) \in Nat
        BY PickupOtpAssumption, FS_Subset, FS_CardinalityType DEF Attempting
    <2>3. otp # None /\ otp.attempts \in Nat /\ otp.attempts < MaxAttempts
        BY <1>3, <1>6 DEF PickupInv, TypeOK, OtpRows, Unused
    <2>4. AttemptsInv'
        BY <1>4, <2>2, <2>3, PickupOtpAssumption DEF AttemptsInv
    <2>5. GuessesInv'
        <3>1. Attempting' = Attempting \cup {r}
            BY <1>6, <2>1 DEF Attempting, OthersUnchanged
        <3>2. /\ Cardinality(Attempting') = Cardinality(Attempting) + 1
              /\ Cardinality(Attempting) \in Nat
            BY <1>4, <3>1, AttemptingFinite, FS_AddElement
        <3>3. guesses \in Nat /\ lost \in Nat
            BY DEF PickupInv, TypeOK
        <3> QED BY <1>4, <1>6, <2>3, <3>2, <3>3 DEF PickupInv, GuessesInv
    <2>6. ComputedInv'
        BY <1>6, <2>1 DEF PickupInv, ComputedInv, At, OthersUnchanged
    <2>7. TypeOK'
        BY <1>4, <1>6, <2>1 DEF PickupInv, TypeOK, ending
    <2>8. EndsInv'
        BY <1>4, <2>1, EndsKept
    <2> QED BY <2>4, <2>5, <2>6, <2>7, <2>8 DEF PickupInv
<1> QED BY <1>5, <1>6

\* A wrong guess and a completion both add one attempt and leave the rest of
\* the row's code alone.
LEMMA AttemptCounted ==
    ASSUME PickupInv, NEW r \in Requests, req[r].pc \in {"wrong", "complete"},
           NEW used \in BOOLEAN,
           otp' = [hash |-> otp.hash, expiresAt |-> otp.expiresAt,
                   verified |-> used, attempts |-> otp.attempts + 1],
           status' \in PickupStatuses, Return(r), UNCHANGED <<clock, guessing>>,
           EndsInv', late' \subseteq Requests, outcome' \in Ends \cup {None},
           undone' \in BOOLEAN
    PROVE  PickupInv'
<1>1. TypeOK /\ ComputedInv /\ AttemptsInv /\ GuessesInv
    BY DEF PickupInv
<1>2. /\ req' \in [Requests -> RequestStates]
      /\ req'[r] = Idle
      /\ OthersUnchanged(r)
    BY IdleType, BecomeStep DEF Return
<1>3. r \in Attempting
    BY DEF Attempting
<1>4. otp \in OtpRows /\ otp # None
    BY <1>1, <1>3 DEF TypeOK, AttemptsInv
<1>5. /\ otp' \in OtpRows
      /\ otp'.attempts = otp.attempts + 1
      /\ otp.attempts \in Nat
    BY <1>4 DEF OtpRows
<1>6. otp' # None
    BY <1>5, PickupOtpAssumption DEF OtpRows
<1>7. /\ Cardinality(Attempting') \in Nat
      /\ Cardinality(Attempting') = Cardinality(Attempting) - 1
    BY <1>2, <1>3, IdleType, AttemptingShrinks
<1>8. Cardinality(Attempting) \in Nat /\ Cardinality(Requests) \in Nat
    BY AttemptingFinite
<1>9. AttemptsInv'
    BY <1>1, <1>4, <1>5, <1>6, <1>7, <1>8, PickupOtpAssumption DEF AttemptsInv
<1>10. GuessesInv'
    <2>1. /\ guesses \in Nat /\ lost \in Nat
          /\ guesses' = guesses /\ lost' = lost
        BY <1>1 DEF TypeOK, guessing
    <2> QED BY <1>1, <1>4, <1>5, <1>6, <1>7, <1>8, <2>1 DEF GuessesInv
<1>11. TypeOK'
    BY <1>1, <1>2, <1>5 DEF TypeOK, guessing
<1>12. ComputedInv'
    BY <1>1, <1>2, IdleType DEF ComputedInv, At, OthersUnchanged
<1> QED BY <1>9, <1>10, <1>11, <1>12 DEF PickupInv

\* A request that compared the code found a row.
LEMMA ComparedRow ==
    ASSUME PickupInv, NEW r \in Requests, req[r].pc \in {"wrong", "complete"}
    PROVE  /\ otp # None
           /\ otp.verified \in BOOLEAN
           /\ ~At(r, "idle")
BY DEF PickupInv, AttemptsInv, Attempting, TypeOK, OtpRows, At

LEMMA CountWrongGuessInv ==
    ASSUME PickupInv, NEW r \in Requests, CountWrongGuess(r)
    PROVE  PickupInv'
<1>1. /\ otp # None /\ otp.verified \in BOOLEAN
      /\ ~At(r, "idle")
      /\ req[r].pc \in {"wrong", "complete"}
    BY ComparedRow DEF CountWrongGuess, At
<1>2. OthersUnchanged(r) /\ req'[r] = Idle
    BY IdleType, BecomeStep DEF CountWrongGuess, Return
<1>3. /\ otp' # None /\ otp'.verified = otp.verified
      /\ UNCHANGED <<status, ending>>
    <2>1. otp'.attempts \in Nat /\ otp' \in OtpRows
        BY <1>1 DEF CountWrongGuess, PickupInv, TypeOK, OtpRows
    <2> QED BY <2>1, PickupOtpAssumption DEF CountWrongGuess, OtpRows
<1>4. EndsInv'
    <2>1. EndsInv /\ Used' = Used
        BY <1>1, <1>3 DEF PickupInv, Used
    <2>2. late' = late /\ outcome' = outcome /\ undone' = undone /\ status' = status
        BY <1>3 DEF ending
    <2> QED BY <1>1, <1>2, <2>1, <2>2, IdleType
            DEF EndsInv, EndsStandUnlessOvertaken, At, OthersUnchanged
<1>5. /\ status' \in PickupStatuses
      /\ late' \subseteq Requests /\ outcome' \in Ends \cup {None}
      /\ undone' \in BOOLEAN
    BY <1>3 DEF PickupInv, TypeOK, ending
<1> QED BY <1>1, <1>4, <1>5, AttemptCounted DEF CountWrongGuess

LEMMA CompletePickupInv ==
    ASSUME PickupInv, NEW r \in Requests, CompletePickup(r)
    PROVE  PickupInv'
<1>1. /\ otp # None
      /\ ~At(r, "idle")
      /\ req[r].pc \in {"wrong", "complete"}
    BY ComparedRow DEF CompletePickup, At
<1>2. OthersUnchanged(r) /\ req'[r] = Idle
    BY IdleType, BecomeStep DEF CompletePickup, Return
<1>3. Used'
    <2>1. otp' \in OtpRows /\ otp'.verified
        BY <1>1 DEF CompletePickup, PickupInv, TypeOK, OtpRows
    <2> QED BY <2>1, PickupOtpAssumption DEF Used, OtpRows
<1>4. /\ EndsInv'
      /\ late' \subseteq Requests
      /\ outcome' \in Ends \cup {None}
      /\ undone' \in BOOLEAN
    BY <1>1, <1>2, <1>3, IdleType, EndsWritten
    DEF CompletePickup, At, PickupStatuses
<1> QED BY <1>1, <1>4, AttemptCounted DEF CompletePickup, PickupStatuses

LEMMA RegenerateInv ==
    ASSUME PickupInv, NEW r \in Requests, Regenerate(r)
    PROVE  PickupInv'
<1> DEFINE new == Request("load", req[r].force, clock, None, None)
<1>1. clock \in 0 .. MaxTime /\ clock \in Times /\ req[r].force \in BOOLEAN
    BY PickupOtpAssumption DEF PickupInv, TypeOK, RequestStates, Times
<1>2. new \in RequestStates /\ new.pc = "load" /\ new.time = clock
    BY <1>1, RequestType DEF Request, Steps
<1>3. Become(r, Idle) \/ Become(r, new)
    BY DEF Regenerate, Return
<1>4. r \notin Attempting /\ ~At(r, "idle")
    BY DEF Regenerate, At, Attempting
<1> HIDE DEF new
<1> QED BY <1>1, <1>2, <1>3, <1>4, IdleType, QuietStep DEF Regenerate, guessing

\* The step changes the order's status as well as its request.
LEMMA MoveOrderInv ==
    ASSUME PickupInv, NEW r \in Requests, MoveOrder(r)
    PROVE  PickupInv'
<1> DEFINE reopen == Request("regenerate", FALSE, 0, None, None)
<1>1. reopen \in RequestStates /\ reopen.pc = "regenerate"
    BY ZeroTime, RequestType DEF Request, Steps
<1>2. \/ req[r].to \in ReadyForPickup /\ Become(r, reopen)
      \/ req[r].to \notin ReadyForPickup /\ Become(r, Idle)
    BY DEF MoveOrder, Return
<1> HIDE DEF reopen
<1>3. /\ req' \in [Requests -> RequestStates]
      /\ req'[r].pc \in {"idle", "regenerate"}
      /\ req[r].to \notin ReadyForPickup => req'[r].pc = "idle"
      /\ OthersUnchanged(r)
    BY <1>1, <1>2, IdleType, BecomeStep
<1>4. /\ status' = req[r].to /\ status' \in PickupStatuses
      /\ UNCHANGED <<clock, otp, guessing>>
      /\ r \notin Attempting
      /\ ~At(r, "idle")
    BY DEF PickupInv, ComputedInv, MoveOrder, At, Attempting
<1>5. AttemptsInv' /\ GuessesInv'
    BY <1>3, <1>4, CountsKept DEF guessing
<1>6. ComputedInv'
    BY <1>3 DEF PickupInv, ComputedInv, At, OthersUnchanged
<1>7. /\ EndsInv'
      /\ late' \subseteq Requests
      /\ outcome' \in Ends \cup {None}
      /\ undone' \in BOOLEAN
    <2>1. status' \in Ends => At(r, "idle")'
        BY <1>3, <1>4 DEF Ends, ReadyForPickup, At
    <2>2. status' # "COMPLETED"
        BY DEF MoveOrder, PickupInv, ComputedInv
    <2> QED BY <1>3, <1>4, <2>1, <2>2, EndsWritten DEF MoveOrder
<1>8. TypeOK'
    BY <1>3, <1>4, <1>7 DEF PickupInv, TypeOK, guessing
<1> QED BY <1>5, <1>6, <1>7, <1>8 DEF PickupInv

LEMMA AbortInv ==
    ASSUME PickupInv, NEW r \in Requests, Abort(r)
    PROVE  PickupInv'
BY IdleType, QuietStep DEF Abort, Return

(***************************************************************************)
(* The invariant.                                                          *)
(***************************************************************************)
LEMMA InitInv == Init => PickupInv
<1> SUFFICES ASSUME Init PROVE PickupInv
    OBVIOUS
<1>1. TypeOK
    <2>1. /\ clock = 0 /\ status = "PREPARING" /\ otp = None
          /\ req = [r \in Requests |-> Idle]
          /\ guesses = 0 /\ lost = 0 /\ late = {} /\ outcome = None /\ undone = FALSE
        BY DEF Init
    <2>2. req \in [Requests -> RequestStates]
        BY <2>1, IdleType
    <2>3. clock \in 0 .. MaxTime
        BY <2>1, PickupOtpAssumption
    <2> QED BY <2>1, <2>2, <2>3 DEF TypeOK, PickupStatuses
<1>2. Attempting = {} /\ ComputedInv
    BY IdleType DEF Init, Attempting, ComputedInv, At
<1>3. AttemptsInv /\ GuessesInv
    BY <1>2 DEF Init, AttemptsInv, GuessesInv
<1>4. EndsInv
    BY DEF Init, EndsInv, EndsStandUnlessOvertaken, Used, Ends
<1> QED BY <1>1, <1>2, <1>3, <1>4 DEF PickupInv

LEMMA NextInv == PickupInv /\ [Next]_vars => PickupInv'
<1> SUFFICES ASSUME PickupInv, [Next]_vars PROVE PickupInv'
    OBVIOUS
<1>1. CASE /\ clock' \in 0 .. MaxTime
           /\ UNCHANGED <<status, otp, req, guessing, ending>>
    <2>1. TypeOK' /\ ComputedInv'
        BY <1>1 DEF PickupInv, TypeOK, ComputedInv, At, guessing, ending
    <2>2. AttemptsInv' /\ GuessesInv'
        BY <1>1 DEF PickupInv, AttemptsInv, GuessesInv, Attempting, guessing
    <2>3. EndsInv'
        BY <1>1 DEF PickupInv, EndsInv, EndsStandUnlessOvertaken, Used, At, ending
    <2> QED BY <2>1, <2>2, <2>3 DEF PickupInv
<1>2. CASE Tick \/ UNCHANGED vars
    <2>1. clock' \in 0 .. MaxTime
        BY <1>2, PickupOtpAssumption DEF Tick, PickupInv, TypeOK, vars
    <2> QED BY <1>1, <1>2, <2>1 DEF Tick, vars
<1>3. ASSUME NEW r \in Requests, Start(r) \/ Continue(r) PROVE PickupInv'
    BY <1>3, StartInv, LoadOtpInv, UpsertOtpInv, ReadOtpInv, CountWrongGuessInv,
       CompletePickupInv, RegenerateInv, MoveOrderInv, AbortInv
    DEF Continue
<1> QED BY <1>2, <1>3 DEF Next

\* The row, the clock, the requests and the order stay related as PickupInv says.
THEOREM Invariance == Spec => []PickupInv
BY InitInv, NextInv, PTL DEF Spec

\* Rows, requests and statuses keep their types, and every expiry a refresh
\* computes is one that codes are derived for.
THEOREM TypeCorrect == Spec => []TypeOK
<1>1. PickupInv => TypeOK
    BY DEF PickupInv
<1> QED BY <1>1, Invariance, PTL

\* However many verifications overlap, a stored code is charged with fewer
\* attempts than the limit plus the number of requests.
THEOREM AttemptsSafety == Spec => []AttemptsAreBounded
<1>1. PickupInv => AttemptsAreBounded
    <2> SUFFICES ASSUME PickupInv, otp # None
                 PROVE  otp.attempts < MaxAttempts + Cardinality(Requests)
        BY DEF AttemptsAreBounded
    <2>1. otp.attempts \in Nat
        BY DEF PickupInv, TypeOK, OtpRows
    <2> QED BY <2>1, AttemptingFinite, PickupOtpAssumption DEF PickupInv, AttemptsInv
<1> QED BY <1>1, Invariance, PTL

\* However guesses, refreshes, counts and failures interleave, a stored code is
\* compared fewer times than the limit, the requests in progress and the
\* requests that died before they counted their guess make up.
THEOREM GuessSafety == Spec => []GuessesAreBounded
<1>1. PickupInv => GuessesAreBounded
    <2> SUFFICES ASSUME PickupInv, otp # None
                 PROVE  guesses < MaxAttempts + Cardinality(Requests) + lost
        BY DEF GuessesAreBounded
    <2>1. otp.attempts \in Nat /\ guesses \in Nat /\ lost \in Nat
        BY DEF PickupInv, TypeOK, OtpRows
    <2> QED BY <2>1, AttemptingFinite, PickupOtpAssumption
            DEF PickupInv, AttemptsInv, GuessesInv
<1> QED BY <1>1, Invariance, PTL

\* An order is completed exactly when its code is used, and what it ended with
\* stands, until a request older than that end writes over it.
THEOREM PickupSafety == Spec => []EndsStandUnlessOvertaken
<1>1. PickupInv => EndsStandUnlessOvertaken
    BY DEF PickupInv, EndsInv
<1> QED BY <1>1, Invariance, PTL

(***************************************************************************)
(* RateLimit: how long a counter is kept.                                  *)
(***************************************************************************)
Ages == 0 .. Window

Stores == {"redis", "memory"}

\* A store without a counter began its last window long ago, and a counter does
\* not expire before its window is over; a key without expiry never does.
KeptFor(counter, elapsed) ==
    \/ counter = NoCounter /\ elapsed = Window
    \/ /\ counter \in Counters
       /\ counter.ttl # Never => counter.ttl + elapsed >= Window

WindowInv ==
    /\ KeptFor(redis, age.redis)
    /\ KeptFor(memory, age.memory)

RateInv == CountersOK /\ WindowInv

-------------------------------------------------------------------------------
(* Counters *)

LEMMA NoCounterIsNone == NoCounter \notin Counters
BY DEF NoCounter, Counters

\* One more request begins a window, or leaves the window that runs.
LEMMA OneMoreCounts ==
    ASSUME NEW n \in 1 .. MaxRequests + 1
    PROVE  OneMore(n) \in 2 .. MaxRequests + 1
BY RateLimitAssumption DEF OneMore, Exceeds

LEMMA FirstCounts == OneMore(NoCounter.count) = 1
BY RateLimitAssumption DEF OneMore, Exceeds, NoCounter

LEMMA CounterFields ==
    ASSUME NEW c \in Counters
    PROVE  /\ c.count \in 1 .. MaxRequests + 1
           /\ c.ttl \in (1 .. Window) \cup {Never}
           /\ c # NoCounter
BY NoCounterIsNone DEF Counters

\* A counter of which one field changed.
LEMMA Recount ==
    ASSUME NEW c \in Counters, NEW n \in 1 .. MaxRequests + 1
    PROVE  /\ [c EXCEPT !.count = n] \in Counters
           /\ [c EXCEPT !.count = n].count = n
           /\ [c EXCEPT !.count = n].ttl = c.ttl
BY DEF Counters

LEMMA Retime ==
    ASSUME NEW c \in Counters, NEW left \in (1 .. Window) \cup {Never}
    PROVE  /\ [c EXCEPT !.ttl = left] \in Counters
           /\ [c EXCEPT !.ttl = left].count = c.count
           /\ [c EXCEPT !.ttl = left].ttl = left
BY DEF Counters

\* What a write does to a store that is kept for long enough: it leaves the
\* counter there and keeps it long enough, and the count becomes 1 only in a
\* store that had none.
WritesWell(old, elapsed, new, after) ==
    /\ new \in Counters \cup {NoCounter}
    /\ after \in Ages
    /\ KeptFor(new, after)
    /\ old.count # 1 /\ new.count = 1 => elapsed = Window

LEMMA MemoryWrite ==
    ASSUME RateInv
    PROVE  WritesWell(memory, age.memory, IncrementedMemory,
                      IF memory = NoCounter THEN 0 ELSE age.memory)
<1>1. age.memory \in Ages /\ Window \in Nat \ {0}
    BY RateLimitAssumption DEF RateInv, CountersOK, Ages
<1>2. CASE memory = NoCounter
    <2>1. IncrementedMemory = [count |-> 1, ttl |-> Window]
        BY <1>2 DEF IncrementedMemory, TtlSeconds
    <2>2. IncrementedMemory \in Counters
        BY <1>1, <2>1, RateLimitAssumption DEF Counters
    <2>3. age.memory = Window
        BY <1>2, NoCounterIsNone DEF RateInv, WindowInv, KeptFor
    <2>4. IncrementedMemory.ttl = Window
        BY <2>1
    <2> QED
        BY <1>1, <1>2, <2>2, <2>3, <2>4 DEF WritesWell, KeptFor, Ages
<1>3. CASE memory # NoCounter
    <2> DEFINE n == OneMore(memory.count)
    <2>1. memory \in Counters
        BY <1>3 DEF RateInv, CountersOK
    <2>2. n \in 2 .. MaxRequests + 1
        BY <2>1, CounterFields, OneMoreCounts
    <2>3. IncrementedMemory = [memory EXCEPT !.count = n]
        BY <1>3 DEF IncrementedMemory
    <2> HIDE DEF n
    <2>4. n \in 1 .. MaxRequests + 1 /\ n # 1
        BY <2>2, RateLimitAssumption
    <2>5. /\ IncrementedMemory \in Counters
          /\ IncrementedMemory.count = n
          /\ IncrementedMemory.ttl = memory.ttl
        BY <2>1, <2>3, <2>4, Recount
    <2>6. memory.ttl # Never => memory.ttl + age.memory >= Window
        BY <1>3 DEF RateInv, WindowInv, KeptFor
    <2> QED
        BY <1>1, <1>3, <2>4, <2>5, <2>6 DEF WritesWell, KeptFor
<1> QED
    BY <1>2, <1>3

\* INCR
LEMMA RedisIncrement ==
    ASSUME RateInv
    PROVE  WritesWell(redis, age.redis, Effect("incr"),
                      IF redis = NoCounter THEN 0 ELSE age.redis)
<1>1. age.redis \in Ages /\ Window \in Nat \ {0}
    BY RateLimitAssumption DEF RateInv, CountersOK, Ages
<1>2. Effect("incr") = [redis EXCEPT !.count = OneMore(@)]
    BY DEF Effect
<1>3. CASE redis = NoCounter
    <2>1. Effect("incr") = [count |-> 1, ttl |-> Never]
        BY <1>2, <1>3, FirstCounts DEF NoCounter
    <2>2. Effect("incr") \in Counters
        BY <2>1, RateLimitAssumption DEF Counters
    <2>3. age.redis = Window
        BY <1>3, NoCounterIsNone DEF RateInv, WindowInv, KeptFor
    <2>4. Effect("incr").ttl = Never
        BY <2>1
    <2> QED
        BY <1>1, <1>3, <2>2, <2>3, <2>4 DEF WritesWell, KeptFor, Ages
<1>4. CASE redis # NoCounter
    <2> DEFINE n == OneMore(redis.count)
    <2>1. redis \in Counters
        BY <1>4 DEF RateInv, CountersOK
    <2>2. n \in 2 .. MaxRequests + 1
        BY <2>1, CounterFields, OneMoreCounts
    <2>3. Effect("incr") = [redis EXCEPT !.count = n]
        BY <1>2
    <2> HIDE DEF n
    <2>4. n \in 1 .. MaxRequests + 1 /\ n # 1
        BY <2>2, RateLimitAssumption
    <2>5. /\ Effect("incr") \in Counters
          /\ Effect("incr").count = n
          /\ Effect("incr").ttl = redis.ttl
        BY <2>1, <2>3, <2>4, Recount
    <2>6. redis.ttl # Never => redis.ttl + age.redis >= Window
        BY <1>4 DEF RateInv, WindowInv, KeptFor
    <2> QED
        BY <1>1, <1>4, <2>4, <2>5, <2>6 DEF WritesWell, KeptFor
<1> QED
    BY <1>3, <1>4

\* EXPIRE, TTL and no command at all leave the count and the window's age.
LEMMA RedisOther ==
    ASSUME RateInv, NEW new \in {redis, Effect("expire"), Effect("ttl")}
    PROVE  WritesWell(redis, age.redis, new, age.redis)
<1>1. age.redis \in Ages /\ Window \in Nat \ {0}
    BY RateLimitAssumption DEF RateInv, CountersOK, Ages
<1>2. CASE new = redis
    BY <1>1, <1>2 DEF WritesWell, RateInv, CountersOK, WindowInv
<1>3. CASE redis # NoCounter /\ new = [redis EXCEPT !.ttl = Window]
    <2>1. redis \in Counters
        BY <1>3 DEF RateInv, CountersOK
    <2>2. new \in Counters /\ new.count = redis.count /\ new.ttl = Window
        BY <1>1, <1>3, <2>1, Retime
    <2> QED
        BY <1>1, <2>2 DEF WritesWell, KeptFor, Ages
<1> QED
    BY <1>2, <1>3 DEF Effect, TtlSeconds

\* A tick, of either store.
LEMMA Ageing ==
    ASSUME NEW c \in Counters \cup {NoCounter}, NEW elapsed \in Ages,
           KeptFor(c, elapsed)
    PROVE  WritesWell(c, elapsed, Aged(c),
                      IF elapsed < Window THEN elapsed + 1 ELSE Window)
<1> DEFINE after == IF elapsed < Window THEN elapsed + 1 ELSE Window
<1>1. after \in Ages /\ Window \in Nat \ {0}
    BY RateLimitAssumption DEF Ages
<1>2. CASE c = NoCounter
    <2>1. Aged(c) = NoCounter /\ elapsed = Window
        BY <1>2, NoCounterIsNone DEF Aged, KeptFor
    <2> QED
        BY <1>1, <1>2, <2>1 DEF WritesWell, KeptFor, NoCounter
<1>3. CASE c # NoCounter /\ c.ttl = 1
    <2>1. Aged(c) = NoCounter
        BY <1>3 DEF Aged
    <2>2. after = Window
        BY <1>1, <1>3, RateLimitAssumption DEF KeptFor, Ages
    <2>3. NoCounter.count = 0
        BY DEF NoCounter
    <2> QED
        BY <1>1, <2>1, <2>2, <2>3 DEF WritesWell, KeptFor
<1>4. CASE c # NoCounter /\ c.ttl # 1
    <2> DEFINE left == IF c.ttl = Never THEN Never ELSE c.ttl - 1
    <2>1. c \in Counters
        BY <1>4
    <2>2. left \in (1 .. Window) \cup {Never}
        BY <1>1, <1>4, <2>1, CounterFields, RateLimitAssumption
    <2>3. Aged(c) = [c EXCEPT !.ttl = left]
        BY <1>4 DEF Aged
    <2>4. left # Never => left + after >= Window
        BY <1>1, <1>4, <2>1, CounterFields, RateLimitAssumption DEF KeptFor, Ages
    <2> HIDE DEF left
    <2>5. Aged(c) \in Counters /\ Aged(c).count = c.count /\ Aged(c).ttl = left
        BY <2>1, <2>2, <2>3, Retime
    <2> QED
        BY <1>1, <2>4, <2>5 DEF WritesWell, KeptFor
<1> QED
    BY <1>2, <1>3, <1>4

-------------------------------------------------------------------------------
(* Steps *)

\* What a step must keep, and what it may not do.
Kept ==
    /\ connected' \in BOOLEAN
    /\ pc' \in [Calls -> {"idle", "incr", "expire", "ttl"}]
    /\ age' \in [Stores -> Ages]
    /\ WritesWell(redis, age.redis, redis', age'.redis)
    /\ WritesWell(memory, age.memory, memory', age'.memory)

LEMMA KeptInv == Kept => RateInv'
BY DEF Kept, WritesWell, RateInv, CountersOK, WindowInv, Stores, Ages

LEMMA MemoryOther ==
    ASSUME RateInv
    PROVE  WritesWell(memory, age.memory, memory, age.memory)
BY DEF RateInv, CountersOK, WindowInv, WritesWell, Ages

LEMMA GotoPc ==
    ASSUME RateInv, NEW r \in Calls, NEW next \in {"idle", "incr", "expire", "ttl"},
           Goto(r, next)
    PROVE  pc' \in [Calls -> {"idle", "incr", "expire", "ttl"}]
BY DEF RateInv, CountersOK, Goto

LEMMA RateInitInv == RateInit => RateInv
<1> SUFFICES ASSUME RateInit PROVE RateInv
    OBVIOUS
<1>1. age = [redis |-> Window, memory |-> Window] /\ Window \in Ages
    BY RateLimitAssumption DEF RateInit, Ages
<1>2. age \in [Stores -> Ages] /\ age.redis = Window /\ age.memory = Window
    BY <1>1 DEF Stores
<1> QED
    BY <1>2 DEF RateInit, RateInv, CountersOK, WindowInv, KeptFor, Stores, Ages

LEMMA ArriveKeeps ==
    ASSUME RateInv, NEW r \in Calls, Arrive(r)
    PROVE  Kept
<1>1. age \in [Stores -> Ages]
    BY DEF RateInv, CountersOK, Stores, Ages
<1>2. WritesWell(redis, age.redis, redis, age.redis)
    BY RedisOther
<1>3. CASE connected /\ Goto(r, "incr") /\ UNCHANGED <<memory, age>>
    BY <1>1, <1>2, <1>3, GotoPc, MemoryOther DEF Arrive, Kept, RateInv, CountersOK
<1>4. CASE /\ memory' = IncrementedMemory
           /\ age' = IF memory = NoCounter THEN [age EXCEPT !.memory = 0] ELSE age
           /\ UNCHANGED pc
    <2>1. /\ age' \in [Stores -> Ages]
          /\ age'.redis = age.redis
          /\ age'.memory = IF memory = NoCounter THEN 0 ELSE age.memory
        BY <1>1, <1>4, RateLimitAssumption DEF Stores, Ages
    <2> QED
        BY <1>2, <1>4, <2>1, MemoryWrite DEF Arrive, Kept, RateInv, CountersOK
<1> QED
    BY <1>3, <1>4 DEF Arrive

LEMMA IncrKeeps ==
    ASSUME RateInv, NEW r \in Calls, Incr(r)
    PROVE  Kept
<1>1. age \in [Stores -> Ages]
    BY DEF RateInv, CountersOK, Stores, Ages
<1>2. /\ age' \in [Stores -> Ages]
      /\ age'.memory = age.memory
      /\ age'.redis = IF redis = NoCounter THEN 0 ELSE age.redis
    BY <1>1, RateLimitAssumption DEF Incr, IncrKey, Stores, Ages
<1>3. pc' \in [Calls -> {"idle", "incr", "expire", "ttl"}]
    BY GotoPc DEF Incr
<1> QED
    BY <1>2, <1>3, RedisIncrement, MemoryOther DEF Incr, IncrKey, Kept, RateInv, CountersOK

LEMMA ExpireKeeps ==
    ASSUME RateInv, NEW r \in Calls, Expire(r) \/ Ttl(r)
    PROVE  Kept
<1>1. age \in [Stores -> Ages]
    BY DEF RateInv, CountersOK, Stores, Ages
<1>2. pc' \in [Calls -> {"idle", "incr", "expire", "ttl"}]
    BY GotoPc DEF Expire, Ttl
<1>3. redis' \in {redis, Effect("expire"), Effect("ttl")} /\ UNCHANGED <<connected, memory, age>>
    BY DEF Expire, Ttl
<1> QED
    BY <1>1, <1>2, <1>3, RedisOther, MemoryOther DEF Kept, RateInv, CountersOK

LEMMA RedisFailsKeeps ==
    ASSUME RateInv, NEW r \in Calls, RedisFails(r)
    PROVE  Kept
<1>1. age \in [Stores -> Ages]
    BY DEF RateInv, CountersOK, Stores, Ages
<1>2. /\ age' \in [Stores -> Ages]
      /\ age'.memory = IF memory = NoCounter THEN 0 ELSE age.memory
      /\ age'.redis = IF redis = NoCounter /\ redis' # redis THEN 0 ELSE age.redis
    BY <1>1, RateLimitAssumption DEF RedisFails, Stores, Ages
<1>3. pc' \in [Calls -> {"idle", "incr", "expire", "ttl"}]
    BY GotoPc DEF RedisFails
<1>4. WritesWell(redis, age.redis, redis', age'.redis)
    <2>1. CASE redis' = redis
        BY <1>2, <2>1, RedisOther
    <2>2. CASE pc[r] = "incr" /\ redis' = Effect("incr") /\ redis' # redis
        BY <1>2, <2>2, RedisIncrement
    <2>3. CASE pc[r] # "incr" /\ redis' = Effect(pc[r]) /\ redis' # redis
        <3>1. pc[r] \in {"expire", "ttl"}
            BY <2>3 DEF RedisFails, RateInv, CountersOK
        <3>2. redis # NoCounter
            BY <2>3, <3>1 DEF Effect
        <3>3. age'.redis = age.redis
            BY <1>2, <3>2
        <3> QED
            BY <2>3, <3>1, <3>3, RedisOther
    <2> QED
        BY <2>1, <2>2, <2>3 DEF RedisFails
<1> QED
    BY <1>2, <1>3, <1>4, MemoryWrite DEF RedisFails, Kept, RateInv, CountersOK

LEMMA RestartKeeps ==
    ASSUME RateInv, Restart
    PROVE  Kept
<1>1. age \in [Stores -> Ages] /\ Window \in Ages
    BY RateLimitAssumption DEF RateInv, CountersOK, Stores, Ages
<1>2. age' \in [Stores -> Ages] /\ age'.redis = age.redis /\ age'.memory = Window
    BY <1>1 DEF Restart, Stores
<1>3. WritesWell(memory, age.memory, memory', age'.memory)
    BY <1>1, <1>2 DEF Restart, WritesWell, KeptFor, NoCounter
<1> QED
    BY <1>2, <1>3, RedisOther DEF Restart, Kept

LEMMA TickKeeps ==
    ASSUME RateInv, TimePasses
    PROVE  Kept
<1>1. age \in [Stores -> Ages] /\ age.redis \in Ages /\ age.memory \in Ages
    BY DEF RateInv, CountersOK, Stores, Ages
<1>2. age' = [s \in Stores |-> IF age[s] < Window THEN age[s] + 1 ELSE Window]
    BY <1>1 DEF TimePasses
<1>3. \A s \in Stores : (IF age[s] < Window THEN age[s] + 1 ELSE Window) \in Ages
    BY <1>1, RateLimitAssumption DEF Ages
<1>4. /\ age' \in [Stores -> Ages]
      /\ age'.redis = IF age.redis < Window THEN age.redis + 1 ELSE Window
      /\ age'.memory = IF age.memory < Window THEN age.memory + 1 ELSE Window
    BY <1>2, <1>3 DEF Stores
<1>5. WritesWell(redis, age.redis, redis', age'.redis)
    BY <1>1, <1>4, Ageing DEF TimePasses, RateInv, CountersOK, WindowInv
<1>6. WritesWell(memory, age.memory, memory', age'.memory)
    BY <1>1, <1>4, Ageing DEF TimePasses, RateInv, CountersOK, WindowInv
<1> QED
    BY <1>4, <1>5, <1>6 DEF TimePasses, Kept, RateInv, CountersOK

LEMMA NextKeeps == RateInv /\ [RateNext]_rateVars => Kept
<1> SUFFICES ASSUME RateInv, [RateNext]_rateVars
             PROVE  Kept
    OBVIOUS
<1>1. CASE UNCHANGED rateVars
    BY <1>1, RedisOther, MemoryOther DEF rateVars, Kept, RateInv, CountersOK, Stores, Ages
<1>2. CASE RateNext
    BY <1>2, ArriveKeeps, IncrKeeps, ExpireKeeps, RedisFailsKeeps, RestartKeeps,
       TickKeeps DEF RateNext
<1> QED
    BY <1>1, <1>2

-------------------------------------------------------------------------------

\* A counter of a client that expires is kept until its window is over
\* (CacheService.increment).
THEOREM RateInvariance == RateSpec => []RateInv
BY RateInitInv, NextKeeps, KeptInv, PTL DEF RateSpec

\* The counters and the requests of RateLimitGuard and CacheService are what
\* their types say, and a counter that is kept was begun.
THEOREM CountersCorrect == RateSpec => []CountersOK
<1>1. RateInv => CountersOK
    BY DEF RateInv
<1> QED
    BY <1>1, RateInvariance, PTL

\* incrementRedis and incrementMemoryValue start a client's count anew only when
\* a whole window has passed since they did so last.
THEOREM AllowanceSafety == RateSpec => AllowancesAreAWindowApart
<1>1. RateInv /\ [RateNext]_rateVars =>
        [/\ redis.count # 1 /\ redis'.count = 1 => age.redis = Window
         /\ memory.count # 1 /\ memory'.count = 1 => age.memory = Window]_rateVars
    BY NextKeeps DEF Kept, WritesWell
<1> QED
    BY <1>1, RateInvariance, PTL DEF RateSpec, AllowancesAreAWindowApart

(***************************************************************************)
(* Coupons: the amounts that orders and invoices show, and the totals that *)
(* customers were quoted, are those that are charged.                      *)
(***************************************************************************)
\* The stored amounts of an order are those that prepareCheckoutOrder computed.
AmountsInv ==
    \A o \in Orders : order[o] # Absent =>
        /\ order[o] \in OrderRows
        /\ order[o].tax = Tax(order[o].subtotal, order[o].discount)
        /\ order[o].total = Total(order[o].subtotal, order[o].discount, order[o].fee)

\* Before there is a coupon, nothing was quoted or priced with one.
CouponInv ==
    \/ coupon \in CouponRows
    \/ /\ coupon = Absent
       /\ quotes = {}
       /\ \A o \in Orders : order[o] # Absent => ~order[o].coupon

\* A quote is what the coupon's row gives for its subtotal now.
QuotesInv ==
    \A q \in quotes : q.total = QuotedTotal(q.subtotal, CouponDiscount(q.subtotal))

CouponsInv ==
    /\ order \in [Orders -> OrderRows \cup {Absent}]
    /\ now \in Instants
    /\ quotes \subseteq Quotes
    /\ AmountsInv
    /\ CouponInv
    /\ QuotesInv

-------------------------------------------------------------------------------

LEMMA FeesAreNat == Fees \subseteq Nat
BY DEF Fees, AsapPickupFee

LEMMA TaxNat ==
    ASSUME NEW s \in Nat, NEW d \in Nat
    PROVE  Tax(s, d) \in Nat
<1>1. Monus(s, d) \in Nat
    BY DEF Monus
<1> QED
    BY <1>1 DEF Tax, Quotient

LEMMA DiscountNat ==
    ASSUME NEW type \in CouponTypes, NEW v \in Nat, NEW s \in Nat
    PROVE  Discount(type, v, s) \in Nat
<1>1. Least(v, s) \in Nat
    BY DEF Least
<1>2. s * v \in Nat
    OBVIOUS
<1>3. ASSUME NEW p \in Nat PROVE 100 * Quotient(p, 1000000) \in Nat
    BY DEF Quotient
<1> QED
    BY <1>1, <1>2, <1>3 DEF Discount

LEMMA QuotedTotalNat ==
    ASSUME NEW s \in Nat, NEW d \in Nat
    PROVE  QuotedTotal(s, d) \in Nat
<1>1. Tax(s, d) \in Nat
    BY TaxNat
<1>2. Monus(s, d) \in Nat
    BY DEF Monus
<1> QED
    BY <1>1, <1>2 DEF QuotedTotal

LEMMA TotalNat ==
    ASSUME NEW s \in Nat, NEW d \in Nat, NEW fee \in Nat
    PROVE  Total(s, d, fee) \in Nat
<1>1. Tax(s, d) \in Nat
    BY TaxNat
<1>2. Monus(s, d) \in Nat
    BY DEF Monus
<1> QED
    BY <1>1, <1>2 DEF Total

\* The fee computed from the amounts of a price is the fee in it, plus what the
\* discount exceeds the subtotal by.
LEMMA FeeIsDerived ==
    ASSUME NEW s \in Nat, NEW d \in Nat, NEW fee \in Nat
    PROVE  DerivedPickupFee(s, Tax(s, d), d, Total(s, d, fee)) = fee + Monus(d, s)
<1> DEFINE tax == Tax(s, d)
<1>1. tax \in Nat
    BY TaxNat
<1> HIDE DEF tax
<1>2. Monus(Monus(s, d) + tax + fee + d, s + tax) = fee + Monus(d, s)
    BY <1>1 DEF Monus
<1> QED
    BY <1>2 DEF DerivedPickupFee, Total, tax

-------------------------------------------------------------------------------

LEMMA CouponsInitInv == CouponsInit => CouponsInv
BY CouponsAssumption DEF Instants, CouponsInit, CouponsInv, AmountsInv, CouponInv, QuotesInv

\* An edit of the terms, after which no quote counts.
LEMMA EditInv ==
    ASSUME CouponsInv, coupon' \in CouponRows, quotes' = {}, UNCHANGED <<order, now>>
    PROVE  CouponsInv'
BY DEF CouponsInv, AmountsInv, CouponInv, QuotesInv

\* A change of the row that leaves the type and the value leaves the quotes right.
LEMMA KeepTermsInv ==
    ASSUME QuotesInv, coupon'.type = coupon.type, coupon'.value = coupon.value,
           UNCHANGED quotes
    PROVE  QuotesInv'
<1>1. \A s : CouponDiscount(s)' = CouponDiscount(s)
    BY DEF CouponDiscount
<1>2. SUFFICES ASSUME NEW q \in quotes
               PROVE  q.total = QuotedTotal(q.subtotal, CouponDiscount(q.subtotal)')
    BY DEF QuotesInv
<1>3. q.total = QuotedTotal(q.subtotal, CouponDiscount(q.subtotal))
    BY DEF QuotesInv
<1> QED
    BY <1>1, <1>3

LEMMA CheckoutInv ==
    ASSUME CouponsInv, NEW o \in Orders, NEW s \in Subtotals, NEW fee \in Fees,
           NEW withCoupon \in BOOLEAN, Checkout(o, s, fee, withCoupon)
    PROVE  CouponsInv'
<1> DEFINE d == IF withCoupon THEN CouponDiscount(s) ELSE 0
<1> DEFINE row == [subtotal |-> s, discount |-> d, tax |-> Tax(s, d),
                   total |-> Total(s, d, fee), fee |-> fee,
                   coupon |-> withCoupon, placed |-> FALSE]
<1>1. s \in Nat /\ fee \in Nat
    BY CouponsAssumption, FeesAreNat
<1>2. d \in Nat
    <2>1. CASE withCoupon
        <3>1. coupon \in CouponRows
            BY <2>1 DEF Checkout, Accepted, CouponsInv, CouponInv
        <3>2. coupon.type \in CouponTypes /\ coupon.value \in Nat
            BY <3>1, CouponsAssumption DEF CouponRows
        <3> QED
            BY <1>1, <2>1, <3>2, DiscountNat DEF CouponDiscount
    <2>2. CASE ~withCoupon
        BY <2>2
    <2> QED
        BY <2>1, <2>2
<1>3. order' = [order EXCEPT ![o] = row] /\ UNCHANGED <<coupon, now, quotes>>
    BY DEF Checkout
<1> HIDE DEF d
<1>4. row \in OrderRows
    BY <1>1, <1>2, TaxNat, TotalNat DEF OrderRows
<1>5. /\ row.tax = Tax(row.subtotal, row.discount)
      /\ row.total = Total(row.subtotal, row.discount, row.fee)
    OBVIOUS
<1> HIDE DEF row
<1>6. order' \in [Orders -> OrderRows \cup {Absent}]
    BY <1>3, <1>4 DEF CouponsInv
<1>7. AmountsInv'
    BY <1>3, <1>4, <1>5 DEF CouponsInv, AmountsInv
<1>8. CouponInv'
    <2>1. withCoupon => coupon # Absent
        BY DEF Checkout, Accepted
    <2>2. row.coupon = withCoupon
        BY DEF row
    <2> QED
        BY <1>3, <2>1, <2>2 DEF CouponsInv, CouponInv
<1>9. QuotesInv'
    BY <1>3, KeepTermsInv DEF CouponsInv
<1>10. UNCHANGED <<now, quotes>>
    BY DEF Checkout
<1> QED
    BY <1>6, <1>7, <1>8, <1>9, <1>10 DEF CouponsInv

LEMMA PlaceInv ==
    ASSUME CouponsInv, NEW o \in Orders, Place(o)
    PROVE  CouponsInv'
<1> DEFINE old == order[o]
<1> DEFINE row == [old EXCEPT !.placed = TRUE]
<1>1. old \in OrderRows /\ old # Absent
    BY DEF Place, CouponsInv, AmountsInv
<1>2. /\ old.tax = Tax(old.subtotal, old.discount)
      /\ old.total = Total(old.subtotal, old.discount, old.fee)
    BY <1>1 DEF CouponsInv, AmountsInv
<1>3. order' = [order EXCEPT ![o] = row]
    BY DEF Place
<1> HIDE DEF old
<1>4. row \in OrderRows
    BY <1>1 DEF OrderRows
<1>5. /\ row.subtotal = old.subtotal /\ row.discount = old.discount
      /\ row.tax = old.tax /\ row.total = old.total /\ row.fee = old.fee
      /\ row.coupon = old.coupon
    BY <1>1 DEF OrderRows
<1>6. /\ row.tax = Tax(row.subtotal, row.discount)
      /\ row.total = Total(row.subtotal, row.discount, row.fee)
    BY <1>2, <1>5
<1> USE DEF old
<1> HIDE DEF row
<1>7. order' \in [Orders -> OrderRows \cup {Absent}]
    BY <1>3, <1>4 DEF CouponsInv
<1>8. AmountsInv'
    BY <1>3, <1>4, <1>6 DEF CouponsInv, AmountsInv
<1>9. /\ CouponInv'
      /\ coupon'.type = coupon.type
      /\ coupon'.value = coupon.value
    <2>1. CASE coupon \in CouponRows
        <3>1. [coupon EXCEPT !.usedCount = @ + 1] \in CouponRows
            BY <2>1 DEF CouponRows
        <3>2. coupon' \in CouponRows
            BY <2>1, <3>1 DEF Place
        <3>3. coupon'.type = coupon.type /\ coupon'.value = coupon.value
            BY <2>1 DEF Place, CouponRows
        <3> QED
            BY <3>2, <3>3 DEF CouponInv
    <2>2. CASE coupon \notin CouponRows
        <3>1. ~old.coupon /\ coupon = Absent /\ quotes = {}
            BY <1>1, <2>2 DEF CouponsInv, CouponInv
        <3>2. UNCHANGED <<coupon, quotes>>
            BY <3>1 DEF Place
        <3>3. \A p \in Orders : order'[p] # Absent => ~order'[p].coupon
            BY <1>3, <1>5, <2>2, <3>1 DEF CouponsInv, CouponInv
        <3> QED
            BY <3>1, <3>2, <3>3 DEF CouponInv
    <2> QED
        BY <2>1, <2>2
<1>10. QuotesInv'
    BY <1>9, KeepTermsInv DEF Place, CouponsInv
<1>11. UNCHANGED <<now, quotes>>
    BY DEF Place
<1> QED
    BY <1>7, <1>8, <1>9, <1>10, <1>11 DEF CouponsInv

LEMMA ValidateInv ==
    ASSUME CouponsInv, NEW s \in Subtotals, Validate(s)
    PROVE  CouponsInv'
<1>1. coupon # Absent /\ UNCHANGED <<coupon, now, order>>
    BY DEF Validate, Accepted
<1>2. coupon \in CouponRows
    BY <1>1 DEF CouponsInv, CouponInv
<1>3. QuotesInv'
    BY <1>1 DEF Validate, CouponsInv, QuotesInv, CouponDiscount
<1>4. s \in Nat /\ coupon.type \in CouponTypes /\ coupon.value \in Nat
    BY <1>2, CouponsAssumption DEF CouponRows
<1>5. CouponDiscount(s) \in Nat
    BY <1>4, DiscountNat DEF CouponDiscount
<1>6. quotes' \subseteq Quotes
    <2> DEFINE q == [subtotal |-> s, total |-> QuotedTotal(s, CouponDiscount(s))]
    <2>1. q \in Quotes
        BY <1>4, <1>5, QuotedTotalNat DEF Quotes
    <2>2. quotes' = quotes \cup {q}
        BY DEF Validate
    <2> QED
        BY <2>1, <2>2 DEF CouponsInv
<1> QED
    BY <1>1, <1>2, <1>3, <1>6 DEF CouponsInv, AmountsInv, CouponInv

-------------------------------------------------------------------------------
(* The administrators' actions *)

LEMMA CreateInv ==
    ASSUME CouponsInv, NEW type \in CouponTypes, NEW value \in Values,
           NEW minimumAmount \in MinimumAmounts, NEW startsAt \in Instants,
           NEW endsAt \in Instants, NEW limit \in UsageLimits \cup {Absent},
           Create(type, value, minimumAmount, startsAt, endsAt, limit)
    PROVE  CouponsInv'
<1>1. coupon' \in CouponRows
    BY CouponsAssumption DEF Create, CouponRows
<1> QED
    BY <1>1, EditInv DEF Create

LEMMA UpdateTermsInv ==
    ASSUME CouponsInv, NEW type \in CouponTypes, NEW value \in Values,
           NEW minimumAmount \in MinimumAmounts,
           UpdateTerms(type, value, minimumAmount)
    PROVE  CouponsInv'
<1>1. coupon \in CouponRows
    BY DEF UpdateTerms, CouponsInv, CouponInv
<1>2. [coupon EXCEPT !.type = type] \in CouponRows
    BY <1>1 DEF CouponRows
<1>3. [[coupon EXCEPT !.type = type] EXCEPT !.value = value] \in CouponRows
    BY <1>2 DEF CouponRows
<1>4. coupon' \in CouponRows
    <2> DEFINE mid == [[coupon EXCEPT !.type = type] EXCEPT !.value = value]
    <2>1. coupon' = [mid EXCEPT !.minimumAmount = minimumAmount]
        BY DEF UpdateTerms
    <2> HIDE DEF mid
    <2> QED
        BY <1>3, <2>1 DEF CouponRows, mid
<1> QED
    BY <1>4, EditInv DEF UpdateTerms

LEMMA UpdateDatesInv ==
    ASSUME CouponsInv, NEW startsAt \in Instants \cup {Absent},
           NEW endsAt \in Instants \cup {Absent}, UpdateDates(startsAt, endsAt)
    PROVE  CouponsInv'
<1> DEFINE start == Given(startsAt, coupon.startsAt)
<1> DEFINE end == Given(endsAt, coupon.endsAt)
<1>1. coupon \in CouponRows
    BY DEF UpdateDates, CouponsInv, CouponInv
<1>2. start \in Instants /\ end \in Instants
    BY <1>1 DEF Given, CouponRows
<1>3. coupon' = [coupon EXCEPT !.startsAt = start, !.endsAt = end]
    BY <1>1 DEF UpdateDates, CouponRows
<1> HIDE DEF start, end
<1>4. coupon' \in CouponRows
    BY <1>1, <1>2, <1>3 DEF CouponRows
<1> QED
    BY <1>4, EditInv DEF UpdateDates

LEMMA UpdateLimitInv ==
    ASSUME CouponsInv, NEW limit \in UsageLimits \cup {Absent}, UpdateLimit(limit)
    PROVE  CouponsInv'
<1>1. coupon \in CouponRows
    BY DEF UpdateLimit, CouponsInv, CouponInv
<1>2. coupon' \in CouponRows /\ coupon'.type = coupon.type /\ coupon'.value = coupon.value
    BY <1>1 DEF UpdateLimit, CouponRows
<1>3. QuotesInv'
    BY <1>2, KeepTermsInv DEF UpdateLimit, CouponsInv
<1> QED
    BY <1>2, <1>3 DEF UpdateLimit, CouponsInv, AmountsInv, CouponInv

LEMMA SetActiveInv ==
    ASSUME CouponsInv, NEW isActive \in BOOLEAN, SetActive(isActive)
    PROVE  CouponsInv'
<1>1. coupon \in CouponRows
    BY DEF SetActive, CouponsInv, CouponInv
<1>2. coupon' \in CouponRows /\ coupon'.type = coupon.type /\ coupon'.value = coupon.value
    BY <1>1 DEF SetActive, CouponRows
<1>3. QuotesInv'
    BY <1>2, KeepTermsInv DEF SetActive, CouponsInv
<1> QED
    BY <1>2, <1>3 DEF SetActive, CouponsInv, AmountsInv, CouponInv

-------------------------------------------------------------------------------

LEMMA CouponsNextInv == CouponsInv /\ [CouponsNext]_couponsVars => CouponsInv'
<1> SUFFICES ASSUME CouponsInv, [CouponsNext]_couponsVars
             PROVE  CouponsInv'
    OBVIOUS
<1>1. CASE UNCHANGED <<coupon, order, quotes>> /\ now' \in Instants
    BY <1>1 DEF CouponsInv, AmountsInv, CouponInv, QuotesInv, CouponDiscount
<1>2. ASSUME InstantPasses PROVE now' \in Instants
    BY <1>2, CouponsAssumption DEF InstantPasses, CouponsInv, Instants
<1>3. CASE CouponsNext
    BY <1>1, <1>2, <1>3, CreateInv, UpdateTermsInv, UpdateDatesInv, UpdateLimitInv,
       SetActiveInv, ValidateInv, CheckoutInv, PlaceInv DEF CouponsNext, InstantPasses
<1> QED
    BY <1>1, <1>3 DEF couponsVars, CouponsInv

\* The stored amounts are those that were computed, and quotes are up to date,
\* in every reachable state: CouponsService and prepareCheckoutOrder.
THEOREM CouponsInvariance == CouponsSpec => []CouponsInv
BY CouponsInitInv, CouponsNextInv, PTL DEF CouponsSpec

\* The rows of coupons.service.ts and the amounts of orders are what their types
\* say; so are the totals that were quoted.
THEOREM CouponsTypeCorrect == CouponsSpec => []CouponsTypeOK
<1>1. CouponsInv => CouponsTypeOK
    BY DEF CouponsInv, CouponInv, CouponsTypeOK
<1> QED
    BY <1>1, CouponsInvariance, PTL

\* The fee that an order or an invoice shows is the one that was charged, plus
\* what rounding or a percentage above 100 takes off beyond the subtotal:
\* calculateDerivedPickupFee.
THEOREM FeeSafety == CouponsSpec => []ShownFeesAreCharged
<1>1. CouponsInv => ShownFeesAreCharged
    BY FeeIsDerived, FeesAreNat, CouponsAssumption DEF CouponsInv, AmountsInv, OrderRows, ShownFeesAreCharged
<1> QED
    BY <1>1, CouponsInvariance, PTL

\* The total that validateCoupon quotes is, apart from the pickup fee, the total
\* that prepareCheckoutOrder charges while nobody edits the coupon.
THEOREM QuoteSafety == CouponsSpec => QuotesHold
<1> DEFINE Charged ==
        \A o \in Orders, q \in quotes :
            (/\ order[o] = Absent /\ order'[o] # Absent
             /\ order'[o].coupon /\ order'[o].subtotal = q.subtotal) =>
                order'[o].total = q.total + order'[o].fee
<1>1. ASSUME CouponsInv, CouponsNext, NEW o \in Orders, NEW q \in quotes,
             order[o] = Absent, order'[o] # Absent,
             order'[o].coupon, order'[o].subtotal = q.subtotal
      PROVE  order'[o].total = q.total + order'[o].fee
    <2>1. PICK s \in Subtotals, p \in Orders, fee \in Fees, withCoupon \in BOOLEAN :
              Checkout(p, s, fee, withCoupon)
        BY <1>1 DEF CouponsNext, Create, UpdateTerms, UpdateDates, UpdateLimit, SetActive,
                    Validate, Place, InstantPasses, CouponsInv
    <2>2. p = o
        BY <1>1, <2>1 DEF Checkout
    <2>3. order'[o] = [subtotal |-> s, discount |-> CouponDiscount(s),
                       tax |-> Tax(s, CouponDiscount(s)),
                       total |-> Total(s, CouponDiscount(s), fee), fee |-> fee,
                       coupon |-> TRUE, placed |-> FALSE]
        BY <1>1, <2>1, <2>2 DEF Checkout, CouponsInv
    <2>4. /\ q.subtotal = s
          /\ order'[o].total = Total(s, CouponDiscount(s), fee)
          /\ order'[o].fee = fee
        BY <1>1, <2>3
    <2>5. q.total = QuotedTotal(s, CouponDiscount(s))
        BY <1>1, <2>4 DEF CouponsInv, QuotesInv
    <2> QED
        BY <2>4, <2>5 DEF Total, QuotedTotal
<1>2. CouponsInv /\ [CouponsNext]_couponsVars => [Charged]_couponsVars
    BY <1>1 DEF couponsVars
<1> QED
    BY <1>2, CouponsInvariance, PTL DEF CouponsSpec, QuotesHold

\* normalizeDateRange: dates the wrong way round come of an update with one of
\* them, and of nothing else.
THEOREM RangeSafety == CouponsSpec => OnlyOneDateTurnsTheRange
<1> DEFINE Turned ==
        (/\ coupon' # Absent
         /\ coupon'.startsAt >= coupon'.endsAt
         /\ coupon # Absent => coupon.startsAt < coupon.endsAt) =>
            /\ coupon # Absent
            /\ coupon'.startsAt = coupon.startsAt \/ coupon'.endsAt = coupon.endsAt
<1>1. ASSUME CouponsInv, CouponsNext, coupon' # Absent, coupon'.startsAt >= coupon'.endsAt,
             coupon # Absent => coupon.startsAt < coupon.endsAt
      PROVE  /\ coupon # Absent
             /\ coupon'.startsAt = coupon.startsAt \/ coupon'.endsAt = coupon.endsAt
    <2>1. ASSUME NEW type, NEW value, NEW minimumAmount, NEW startsAt \in Instants,
                 NEW endsAt \in Instants, NEW limit,
                 Create(type, value, minimumAmount, startsAt, endsAt, limit)
          PROVE  FALSE
        <3>1. startsAt < endsAt
            BY <2>1, CouponsAssumption DEF Create, DateRangeAccepted, Instants
        <3>2. coupon'.startsAt = startsAt /\ coupon'.endsAt = endsAt
            BY <2>1 DEF Create
        <3> QED
            BY <1>1, <3>1, <3>2 DEF Instants
    <2>2. CASE coupon \in CouponRows
        <3>1. ASSUME NEW startsAt \in Instants \cup {Absent},
                     NEW endsAt \in Instants \cup {Absent}, UpdateDates(startsAt, endsAt)
              PROVE  \/ coupon'.startsAt = coupon.startsAt
                     \/ coupon'.endsAt = coupon.endsAt
            <4>1. /\ coupon'.startsAt = Given(startsAt, coupon.startsAt)
                  /\ coupon'.endsAt = Given(endsAt, coupon.endsAt)
                BY <2>2, <3>1 DEF UpdateDates, CouponRows
            <4>2. CASE startsAt # Absent /\ endsAt # Absent
                <5>1. startsAt \in Instants /\ endsAt \in Instants /\ startsAt < endsAt
                    BY <3>1, <4>2 DEF UpdateDates, DateRangeAccepted
                <5> QED
                    BY <1>1, <4>1, <4>2, <5>1 DEF Given, Instants
            <4> QED
                BY <4>1, <4>2 DEF Given
        <3>2. coupon # Absent
            BY <2>2, AbsentAssumption
        <3>3. ASSUME \/ \E limit : UpdateLimit(limit)
                     \/ \E isActive : SetActive(isActive)
                     \/ \E t, v, m : UpdateTerms(t, v, m)
                     \/ \E o : Place(o)
              PROVE  coupon'.startsAt = coupon.startsAt
            BY <2>2, <3>3 DEF UpdateLimit, SetActive, UpdateTerms, Place, CouponRows
        <3>4. ASSUME \/ InstantPasses
                     \/ \E t : Validate(t)
                     \/ \E o, q, f, w : Checkout(o, q, f, w)
              PROVE  coupon'.startsAt = coupon.startsAt
            BY <3>4 DEF InstantPasses, Validate, Checkout
        <3> QED
            BY <1>1, <2>1, <3>1, <3>2, <3>3, <3>4 DEF CouponsNext
    <2>3. CASE coupon = Absent
        <3>1. ASSUME NEW o \in Orders, Place(o) PROVE coupon' = coupon
            BY <1>1, <2>3, <3>1, AbsentAssumption DEF Place, CouponsInv, CouponInv
        <3> QED
            BY <1>1, <2>1, <2>3, <3>1 DEF CouponsNext, UpdateTerms, UpdateDates, UpdateLimit,
               SetActive, Validate, Accepted, Checkout, InstantPasses
    <2> QED
        BY <1>1, <2>2, <2>3 DEF CouponsInv, CouponInv
<1>2. CouponsInv /\ [CouponsNext]_couponsVars => [Turned]_couponsVars
    BY <1>1 DEF couponsVars
<1> QED
    BY <1>2, CouponsInvariance, PTL DEF CouponsSpec, OnlyOneDateTurnsTheRange

\* How often a coupon can still be redeemed once its limit is reached is settled
\* by the orders that were priced with it and are not placed: findActiveCoupon
\* refuses the coupon to any other.  The table of orders is finite.
THEOREM LimitSafety ==
    ASSUME IsFiniteSet(Orders)
    PROVE  CouponsSpec => ReachedLimitsHold
<1> DEFINE Held ==
        (/\ coupon # Absent
         /\ Exhausted(coupon)
         /\ coupon'.usageLimit = coupon.usageLimit) =>
            coupon'.usedCount + Cardinality(Unplaced')
                <= coupon.usedCount + Cardinality(Unplaced)
<1>1. ASSUME CouponsInv, CouponsNext, coupon # Absent, Exhausted(coupon)
      PROVE  coupon'.usedCount + Cardinality(Unplaced')
                <= coupon.usedCount + Cardinality(Unplaced)
    <2>1. coupon \in CouponRows /\ coupon.usedCount \in Nat
        BY <1>1 DEF CouponsInv, CouponInv, CouponRows
    <2>2. IsFiniteSet(Unplaced) /\ Cardinality(Unplaced) \in Nat
        BY FS_Subset, FS_CardinalityType DEF Unplaced
    <2>3. CASE coupon'.usedCount = coupon.usedCount /\ Unplaced' = Unplaced
        BY <2>1, <2>2, <2>3
    <2>4. ASSUME NEW s \in Subtotals, NEW o \in Orders, NEW fee \in Fees,
                 NEW withCoupon \in BOOLEAN, Checkout(o, s, fee, withCoupon)
          PROVE  coupon' = coupon /\ Unplaced' = Unplaced
        <3>1. ~withCoupon
            BY <1>1, <2>4 DEF Checkout, Accepted
        <3>2. /\ coupon' = coupon /\ order[o] = Absent
              /\ \A p \in Orders \ {o} : order'[p] = order[p]
              /\ ~order'[o].coupon
            BY <1>1, <2>4, <3>1 DEF Checkout, CouponsInv
        <3> QED
            BY <3>2 DEF Unplaced
    <2>5. ASSUME NEW o \in Orders, Place(o)
          PROVE  coupon'.usedCount + Cardinality(Unplaced')
                    <= coupon.usedCount + Cardinality(Unplaced)
        <3> DEFINE old == order[o]
        <3>1. old \in OrderRows /\ old # Absent /\ ~old.placed
            BY <2>5, <1>1 DEF Place, CouponsInv, AmountsInv
        <3>2. order' = [order EXCEPT ![o] = [old EXCEPT !.placed = TRUE]]
            BY <2>5 DEF Place
        <3>3. order'[o].placed /\ \A p \in Orders \ {o} : order'[p] = order[p]
            BY <1>1, <3>1, <3>2 DEF OrderRows, CouponsInv
        <3>4. Unplaced' = Unplaced \ {o}
            BY <3>3 DEF Unplaced
        <3>5. CASE old.coupon
            <4>1. coupon'.usedCount = coupon.usedCount + 1
                BY <2>1, <2>5, <3>5 DEF Place, CouponRows
            <4>2. o \in Unplaced
                BY <3>1, <3>5 DEF Unplaced
            <4>3. Cardinality(Unplaced') = Cardinality(Unplaced) - 1
                BY <2>2, <3>4, <4>2, FS_RemoveElement
            <4> QED
                BY <2>1, <2>2, <4>1, <4>3
        <3>6. CASE ~old.coupon
            <4>1. coupon' = coupon
                BY <2>5, <3>6 DEF Place
            <4>2. Unplaced' = Unplaced
                BY <3>4, <3>6 DEF Unplaced
            <4> QED
                BY <2>1, <2>2, <4>1, <4>2
        <3> QED
            BY <3>5, <3>6
    <2>6. ASSUME \/ \E limit : UpdateLimit(limit)
                 \/ \E isActive : SetActive(isActive)
                 \/ \E t, v, m : UpdateTerms(t, v, m)
                 \/ \E a, b : UpdateDates(a, b)
          PROVE  coupon'.usedCount = coupon.usedCount /\ Unplaced' = Unplaced
        <3>1. order' = order
            BY <2>6 DEF UpdateLimit, SetActive, UpdateTerms, UpdateDates
        <3>2. coupon'.usedCount = coupon.usedCount
            BY <2>1, <2>6 DEF UpdateLimit, SetActive, UpdateTerms, UpdateDates, CouponRows
        <3> QED
            BY <3>1, <3>2 DEF Unplaced
    <2>7. ASSUME InstantPasses \/ \E q : Validate(q)
          PROVE  coupon' = coupon /\ Unplaced' = Unplaced
        BY <2>7 DEF InstantPasses, Validate, Unplaced
    <2> QED
        BY <1>1, <2>3, <2>4, <2>5, <2>6, <2>7 DEF CouponsNext, Create
<1>2. CouponsInv /\ [CouponsNext]_couponsVars => [Held]_couponsVars
    BY <1>1 DEF couponsVars
<1> QED
    BY <1>2, CouponsInvariance, PTL DEF CouponsSpec, ReachedLimitsHold
===============================================================================
