------------------------------- MODULE Pricing -------------------------------
(***************************************************************************)
(* What an order costs.  Amounts are paise, as the two decimals of the     *)
(* database columns keep them; Math.round rounds them to whole rupees.     *)
(* A coupon's value has two decimals as well: rupees for a FIXED_AMOUNT,   *)
(* per cent for a PERCENTAGE.                                              *)
(***************************************************************************)
EXTENDS Naturals

CouponTypes == {"PERCENTAGE", "FIXED_AMOUNT"}

\* ASAP_PICKUP_FEE, charged for the slot 'asap' and no other.
AsapPickupFee == 500

Fees == {0, AsapPickupFee}

Least(a, b) == IF a <= b THEN a ELSE b

\* Math.max(a - b, 0)
Monus(a, b) == IF a >= b THEN a - b ELSE 0

\* a / b to the nearest integer, a half upwards, as Math.round.
Quotient(a, b) == (2 * a + b) \div (2 * b)

\* calculateDiscount
Discount(type, value, subtotal) ==
    IF type = "PERCENTAGE" THEN 100 * Quotient(subtotal * value, 1000000)
                           ELSE Least(value, subtotal)

\* Five per cent of what is left after the discount.
Tax(subtotal, discount) == 100 * Quotient(5 * Monus(subtotal, discount), 10000)

\* Variant: taxes the undiscounted subtotal.
TotalTaxedInFull(subtotal, discount, fee) ==
    Monus(subtotal, discount) + Tax(subtotal, 0) + fee

Total(subtotal, discount, fee) ==
    Monus(subtotal, discount) + Tax(subtotal, discount) + fee

\* The total of validateCoupon, which knows no pickup slot.
QuotedTotal(subtotal, discount) ==
    Monus(subtotal, discount) + Tax(subtotal, discount)

\* Variant: forgets the tax.
DerivedPickupFeeBeforeTax(subtotal, tax, discount, total) ==
    Monus(total + discount, subtotal)

\* calculateDerivedPickupFee, in the order and in the invoice views: the fee is
\* not stored but computed from the amounts that are.
DerivedPickupFee(subtotal, tax, discount, total) ==
    Monus(total + discount, subtotal + tax)
==============================================================================
