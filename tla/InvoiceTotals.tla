----------------------------- MODULE InvoiceTotals -----------------------------
(****************************************************************************)
(* The money of invoices and quotes.  The DTO and the forms take decimals   *)
(* for quantities, prices, rates and discounts; any finite set of decimals  *)
(* has a common denominator, here Fraction, and the amounts computed from   *)
(* them are whole numbers of 1/Cent cents.  Floating point error is left    *)
(* out.  The server stores totals rounded to cents; the pages and the PDF   *)
(* print line amounts of their own, computed again and rounded each.        *)
(****************************************************************************)
EXTENDS Integers, Sequences, FiniteSetsExt, Functions

CONSTANT Fraction

ASSUME FractionAssumption == Fraction \in Nat \ {0}

Square == Fraction * Fraction
Cent == 10000 * (Square * Square)
Mill == 1000 * (Square * Square)

(* The line items the DTOs take: quantity, price in cents, rate in percent  *)
(* and discount in cents or percent, each as a number of 1/Fraction.  The   *)
(* least quantity is 0.01.                                                  *)
LineItem ==
  [quantity : {q \in Nat : 100 * q >= Fraction}, unitPrice : Nat, taxRate : Nat,
   discount : Nat, discountType : {"amount", "percentage"}]

(* Math.round(x / unit): to the nearest, halves up.                         *)
RoundTo(x, unit) == (2 * x + unit) \div (2 * unit)
ToCents(x) == RoundTo(x, Cent)

(* toFixed: to the nearest, halves away from zero.                          *)
ToFixed(x, unit) == IF x < 0 THEN -(RoundTo(-x, unit) * unit) ELSE RoundTo(x, unit) * unit

SumOver(lines, amount(_)) == SumFunction([i \in DOMAIN lines |-> amount(lines[i])])

---------------------------------------------------------------------------
(* Slips: operators of the code below as a plausible error would have them. *)
TaxBeforeDiscount(item) ==
  (item.quantity * item.unitPrice * (10000 * Square) * item.taxRate) \div (100 * Fraction)

---------------------------------------------------------------------------
ItemSubtotal(item) == item.quantity * item.unitPrice * (10000 * Square)

ItemDiscount(item) ==
  IF item.discountType = "percentage"
  THEN item.quantity * item.unitPrice * item.discount * (100 * Fraction)
  ELSE item.discount * (10000 * (Square * Fraction))

(* Both are multiples of 100 * Fraction: nothing is rounded here.           *)
ItemTax(item) == ((ItemSubtotal(item) - ItemDiscount(item)) * item.taxRate) \div (100 * Fraction)

(* calculateTotals.                                                         *)
Totals(lines) ==
  LET subtotal == SumOver(lines, ItemSubtotal)
      discount == SumOver(lines, ItemDiscount)
      tax      == SumOver(lines, ItemTax)
  IN [subtotal       |-> ToCents(subtotal),
      taxAmount      |-> ToCents(tax),
      discountAmount |-> ToCents(discount),
      totalAmount    |-> ToCents(subtotal - discount + tax)]

(* The amount of a line, which the pages compute for themselves, and the    *)
(* amounts as the PDF and the preview (in mills) or the template (in cents) *)
(* print them.                                                              *)
LineAmount(item) ==
  LET net == ItemSubtotal(item) - ItemDiscount(item)
  IN net + (net * item.taxRate) \div (100 * Fraction)

PrintedLines(lines, unit) ==
  SumFunction([i \in DOMAIN lines |-> ToFixed(LineAmount(lines[i]), unit)])

(* What the forms show while the provider edits the lines: invoice-form     *)
(* leaves the amounts unrounded, the other two round as the server does.    *)
FormTotal(lines) ==
  SumOver(lines, ItemSubtotal) - SumOver(lines, ItemDiscount) + SumOver(lines, ItemTax)

---------------------------------------------------------------------------
AbsVal(x) == IF x < 0 THEN -x ELSE x

(* The four amounts of a document are rounded one by one: a reader who adds *)
(* them up is off by a cent at most.                                        *)
AddUp(t) ==
  AbsVal(t.totalAmount - (t.subtotal - t.discountAmount + t.taxAmount)) <= 1

(* The total of a document is the sum of the line amounts printed above it, *)
(* to half a cent for the total and half a unit of print for each line; it  *)
(* is the total the provider saw in the form, to half a cent.               *)
PrintedAddUp(lines, t) ==
  /\ \A unit \in {Mill, Cent} :
       2 * AbsVal(t.totalAmount * Cent - PrintedLines(lines, unit)) <= Cent + Len(lines) * unit
  /\ 2 * AbsVal(t.totalAmount * Cent - FormTotal(lines)) <= Cent
==============================================================================
