------------------------------- MODULE Coupons -------------------------------
(***************************************************************************)
(* A coupon from the administrator's side and the customers': it is        *)
(* created and edited field by field while customers validate it, check    *)
(* out with it and have their orders placed, which counts it.              *)
(*                                                                         *)
(* prepareCheckoutOrder prices an order with the coupon as it reads it; the *)
(* amounts are stored and never computed again.  Reading the coupon and    *)
(* storing the order is one step here: an order that was priced and not    *)
(* yet stored is as good as one that waits for its payment.                *)
(***************************************************************************)
EXTENDS Integers, FiniteSets, Pricing

CONSTANTS
    Orders,
    Subtotals,       \* of carts, in paise
    Values,          \* of coupons: hundredths of a rupee or of a per cent
    MinimumAmounts,  \* in paise
    UsageLimits,     \* that administrators set
    LastInstant,     \* bound: the last instant
    Absent           \* no coupon, order or limit

ASSUME CouponsAssumption ==
    /\ Subtotals \subseteq Nat /\ Values \subseteq Nat /\ MinimumAmounts \subseteq Nat
    /\ UsageLimits \subseteq Nat \ {0}
    /\ LastInstant \in Nat
    /\ Absent \notin Nat

VARIABLES
    coupon,  \* the coupon's row
    now,
    order,   \* the orders' rows
    quotes   \* history: what was quoted since the coupon's row changed

couponsVars == <<coupon, now, order, quotes>>

Instants == 0 .. LastInstant

CouponRows ==
    [type : CouponTypes, value : Values, minimumAmount : MinimumAmounts,
     startsAt : Instants, endsAt : Instants, usageLimit : UsageLimits \cup {Absent},
     usedCount : Nat, isActive : BOOLEAN]

OrderRows ==
    [subtotal : Subtotals, discount : Nat, tax : Nat, total : Nat, fee : Fees,
     coupon : BOOLEAN, placed : BOOLEAN]

ASSUME AbsentAssumption == Absent \notin CouponRows

Quotes == [subtotal : Subtotals, total : Nat]

CouponsInit ==
    /\ coupon = Absent
    /\ now = 0
    /\ order = [o \in Orders |-> Absent]
    /\ quotes = {}

-------------------------------------------------------------------------------
(* Administrators *)

\* Variant: dates that are the wrong way round are accepted.
AnyDates(startsAt, endsAt) == TRUE

\* normalizeDateRange compares the dates of a request if it has both.
DateRangeAccepted(startsAt, endsAt) ==
    startsAt # Absent /\ endsAt # Absent => startsAt < endsAt

Create(type, value, minimumAmount, startsAt, endsAt, usageLimit) ==
    /\ coupon = Absent
    /\ DateRangeAccepted(startsAt, endsAt)
    /\ coupon' = [type |-> type, value |-> value, minimumAmount |-> minimumAmount,
                  startsAt |-> startsAt, endsAt |-> endsAt,
                  usageLimit |-> usageLimit, usedCount |-> 0, isActive |-> TRUE]
    /\ quotes' = {}
    /\ UNCHANGED <<now, order>>

Given(field, old) == IF field = Absent THEN old ELSE field

\* update, of the dates a request has.
UpdateDates(startsAt, endsAt) ==
    /\ coupon # Absent
    /\ DateRangeAccepted(startsAt, endsAt)
    /\ coupon' = [coupon EXCEPT !.startsAt = Given(startsAt, @),
                                !.endsAt = Given(endsAt, @)]
    /\ quotes' = {}
    /\ UNCHANGED <<now, order>>

\* update, of the fields a request has; nothing is compared with anything.
UpdateTerms(type, value, minimumAmount) ==
    /\ coupon # Absent
    /\ coupon' = [coupon EXCEPT !.type = type, !.value = value,
                                !.minimumAmount = minimumAmount]
    /\ quotes' = {}
    /\ UNCHANGED <<now, order>>

UpdateLimit(usageLimit) ==
    /\ coupon # Absent
    /\ coupon' = [coupon EXCEPT !.usageLimit = usageLimit]
    /\ UNCHANGED <<now, order, quotes>>

\* deactivate, and update with isActive
SetActive(isActive) ==
    /\ coupon # Absent
    /\ coupon' = [coupon EXCEPT !.isActive = isActive]
    /\ UNCHANGED <<now, order, quotes>>

-------------------------------------------------------------------------------
(* Customers *)

\* The coupon reached its usage limit.
Exhausted(c) == c.usageLimit # Absent /\ c.usedCount >= c.usageLimit

\* Variant: the limit is not looked at.
AcceptedBeyondLimit(subtotal) ==
    /\ coupon # Absent
    /\ coupon.isActive
    /\ coupon.startsAt <= now /\ now <= coupon.endsAt
    /\ subtotal >= coupon.minimumAmount

\* findActiveCoupon finds it, and calculateDiscount takes it for the subtotal.
Accepted(subtotal) ==
    /\ coupon # Absent
    /\ coupon.isActive
    /\ coupon.startsAt <= now /\ now <= coupon.endsAt
    /\ ~Exhausted(coupon)
    /\ subtotal >= coupon.minimumAmount

CouponDiscount(subtotal) == Discount(coupon.type, coupon.value, subtotal)

\* validateCoupon
Validate(subtotal) ==
    /\ Accepted(subtotal)
    /\ quotes' = quotes \cup {[subtotal |-> subtotal,
                     total |-> QuotedTotal(subtotal, CouponDiscount(subtotal))]}
    /\ UNCHANGED <<coupon, now, order>>

\* prepareCheckoutOrder and the order it is made for.
Checkout(o, subtotal, fee, withCoupon) ==
    LET discount == IF withCoupon THEN CouponDiscount(subtotal) ELSE 0 IN
    /\ order[o] = Absent
    /\ withCoupon => Accepted(subtotal)
    /\ order' = [order EXCEPT ![o] =
                    [subtotal |-> subtotal, discount |-> discount,
                     tax |-> Tax(subtotal, discount),
                     total |-> Total(subtotal, discount, fee), fee |-> fee,
                     coupon |-> withCoupon, placed |-> FALSE]]
    /\ UNCHANGED <<coupon, now, quotes>>

\* finalizePaidOrder and its like: Orders has the details.
Place(o) ==
    /\ order[o] # Absent /\ ~order[o].placed
    /\ order' = [order EXCEPT ![o].placed = TRUE]
    /\ coupon' = IF order[o].coupon THEN [coupon EXCEPT !.usedCount = @ + 1] ELSE coupon
    /\ UNCHANGED <<now, quotes>>

InstantPasses ==
    /\ now < LastInstant
    /\ now' = now + 1
    /\ UNCHANGED <<coupon, order, quotes>>

CouponsNext ==
    \/ \E type \in CouponTypes, value \in Values, minimumAmount \in MinimumAmounts :
        \/ \E startsAt, endsAt \in Instants, limit \in UsageLimits \cup {Absent} :
                Create(type, value, minimumAmount, startsAt, endsAt, limit)
        \/ UpdateTerms(type, value, minimumAmount)
    \/ \E startsAt, endsAt \in Instants \cup {Absent} : UpdateDates(startsAt, endsAt)
    \/ \E limit \in UsageLimits \cup {Absent} : UpdateLimit(limit)
    \/ \E isActive \in BOOLEAN : SetActive(isActive)
    \/ \E subtotal \in Subtotals :
        \/ Validate(subtotal)
        \/ \E o \in Orders, fee \in Fees, withCoupon \in BOOLEAN :
                Checkout(o, subtotal, fee, withCoupon)
    \/ \E o \in Orders : Place(o)
    \/ InstantPasses

CouponsSpec == CouponsInit /\ [][CouponsNext]_couponsVars

-------------------------------------------------------------------------------
(* Properties *)

CouponsTypeOK ==
    /\ coupon \in CouponRows \cup {Absent}
    /\ now \in Instants
    /\ order \in [Orders -> OrderRows \cup {Absent}]
    /\ quotes \subseteq Quotes

\* The fee that orders and invoices show is the fee that was charged, as long
\* as the discount does not exceed the subtotal: the excess is shown as a fee.
ShownFeesAreCharged ==
    \A o \in Orders : order[o] # Absent =>
        DerivedPickupFee(order[o].subtotal, order[o].tax, order[o].discount,
                         order[o].total)
            = order[o].fee + Monus(order[o].discount, order[o].subtotal)

\* The orders with the coupon that were not placed, each of which may be.
Unplaced == {o \in Orders : order[o] # Absent /\ order[o].coupon /\ ~order[o].placed}

\* Once a limit is reached, the orders priced before are still counted, beyond
\* it; but how many redemptions there will be at most is settled, until the
\* limit is raised.
ReachedLimitsHold ==
    [][(/\ coupon # Absent
        /\ Exhausted(coupon)
        /\ coupon'.usageLimit = coupon.usageLimit) =>
            coupon'.usedCount + Cardinality(Unplaced')
                <= coupon.usedCount + Cardinality(Unplaced)
      ]_couponsVars

\* What a customer was quoted for the coupon is what checkout charges, apart
\* from the pickup fee, if nobody edited the coupon meanwhile.
QuotesHold ==
    [][\A o \in Orders, q \in quotes :
        (/\ order[o] = Absent /\ order'[o] # Absent
         /\ order'[o].coupon /\ order'[o].subtotal = q.subtotal) =>
            order'[o].total = q.total + order'[o].fee
      ]_couponsVars

\* The dates of a coupon get the wrong way round only by an update that sends
\* one of them: normalizeDateRange does not look at the stored other one.
OnlyOneDateTurnsTheRange ==
    [][(/\ coupon' # Absent
        /\ coupon'.startsAt >= coupon'.endsAt
        /\ coupon # Absent => coupon.startsAt < coupon.endsAt) =>
            /\ coupon # Absent
            /\ coupon'.startsAt = coupon.startsAt \/ coupon'.endsAt = coupon.endsAt
      ]_couponsVars
==============================================================================
