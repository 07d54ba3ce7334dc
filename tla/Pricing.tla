------------------------------- MODULE Pricing -------------------------------
(***************************************************************************)
(* What an order costs.  Prices are whole paise; the code multiplies them  *)
(* by decimal rates without rounding and rounds when it stores the row.    *)
(* Here such an unrounded amount counts ten-thousandths of a paisa, which  *)
(* is exact for whole percentages of discount and tax.                     *)
(***************************************************************************)
EXTENDS Integers

CONSTANT TaxPercent     \* settings.TAX_RATE * 100

ASSUME TaxAssumption == TaxPercent \in Nat

Unit == 10000

\* value, min and max as in the row, in paise; a percent coupon's value in per cent.
Coupon == [type : {"percent", "fixed"}, value : Nat, min : Nat, max : Nat, active : BOOLEAN]

Least(m, n) == IF m <= n THEN m ELSE n

\* validate_coupon of an active coupon; a max_discount of 0 is none.  A fixed
\* discount is not capped, by the subtotal or anything else.
Discount(c, subtotal) ==
    IF c.type = "fixed" THEN c.value * Unit
    ELSE LET part == subtotal * c.value * 100
         IN IF c.max = 0 THEN part ELSE Least(part, c.max * Unit)

\* Faulty variant: the minimum order is not asked for.
ValidAnyOrder(c, subtotal) == c.active

Valid(c, subtotal) == c.active /\ subtotal >= c.min

Taxable(subtotal, discount) == subtotal * Unit - discount

\* Faulty variant: the discount is taxed too.
TaxesOnAll(subtotal, discount) == (subtotal * Unit * TaxPercent) \div 100

\* create_order: the setting's rate.
Taxes(subtotal, discount) == (Taxable(subtotal, discount) * TaxPercent) \div 100

\* CheckoutPreviewView: its own rate.
PreviewTaxes(subtotal, discount) == (Taxable(subtotal, discount) * 5) \div 100

Total(subtotal, discount, fee, taxes) == Taxable(subtotal, discount) + fee * Unit + taxes

\* n is x rounded to paise: databases round a half up, down or to even.
IsRounded(n, x) == 2 * n * Unit - 2 * x \in -Unit .. Unit
Nearest(x)      == {n \in {x \div Unit, x \div Unit + 1} : IsRounded(n, x)}
=============================================================================
