---------------------------- MODULE InvoiceTotals ----------------------------
(***************************************************************************)
(* The amounts of an invoice (invoice/invoice.go, invoice/xml.go): from    *)
(* the lines of the bill to the line amounts, the VAT subtotals and the    *)
(* totals that the XML states.                                             *)
(*                                                                         *)
(* Amounts are whole halalas (0.01 SAR) and quantities tenths.  The code   *)
(* computes with floats: an amount that lies exactly between two halalas   *)
(* is rounded up or down, depending on how the float approximates it.      *)
(* Which way it falls is a part of the row ("netBelow", "taxBelow").  No   *)
(* caller sets a discount, and the pipeline drops the ones of the bill     *)
(* (buildLines, buildBillInvoice), so every amount is positive or zero.    *)
(***************************************************************************)
EXTENDS Integers, Sequences

CONSTANT None   \* NULL

(* A column that is NULL has a default, which is not always zero.          *)
QuantityOrZero(p) == IF p.quantity = None THEN 10 ELSE p.quantity
PriceOrZero(p) == IF p.price = None THEN 0 ELSE p.price
VATOrZero(p) == IF p.vat = None THEN 15 ELSE p.vat

(* verifyBill: every line has a quantity, and no price is negative.        *)
VerifyLines(products) ==
  \A i \in DOMAIN products : QuantityOrZero(products[i]) > 0 /\ PriceOrZero(products[i]) >= 0

(* roundTo2 of v, given in parts of a halala.                              *)
RoundTo2(v, parts, below) == (2 * v + parts - (IF below THEN 1 ELSE 0)) \div (2 * parts)

NetAmount(p) == RoundTo2(QuantityOrZero(p) * PriceOrZero(p), 10, p.netBelow)

(* Mutant: the tax is computed on the amount before it is rounded.         *)
TaxOfUnrounded(p) ==
  RoundTo2(QuantityOrZero(p) * PriceOrZero(p) * VATOrZero(p), 1000, p.taxBelow)

TaxAmount(p) == RoundTo2(NetAmount(p) * VATOrZero(p), 100, p.taxBelow)

(* What a loop that adds up amounts has at its end.                        *)
Sum(amounts) ==
  LET sum[i \in 0..Len(amounts)] == IF i = 0 THEN 0 ELSE sum[i - 1] + amounts[i]
  IN  sum[Len(amounts)]

(* The sum of amount(x) over the lines, or over the VAT subtotals.         *)
Total(rows, amount(_)) == Sum([i \in DOMAIN rows |-> amount(rows[i])])

(* Mutant: the tax of the invoice is computed on its net total.            *)
TotalTaxOfNet(products) == RoundTo2(Total(products, NetAmount) * 15, 100, FALSE)

TotalTax(products) == Total(products, TaxAmount)

(* The keys of taxGroups: the rates of the lines, each once, in the order  *)
(* in which they first appear.                                             *)
Rates(products) ==
  LET keys[i \in 0..Len(products)] ==
        IF i = 0 THEN <<>>
        ELSE IF \E k \in DOMAIN keys[i - 1] : keys[i - 1][k] = VATOrZero(products[i])
               THEN keys[i - 1]
               ELSE Append(keys[i - 1], VATOrZero(products[i]))
  IN  keys[Len(products)]

(* taxGroups: one subtotal for each rate of a line.                        *)
TaxGroups(products) ==
  [k \in DOMAIN Rates(products) |->
     LET rate == Rates(products)[k]
     IN  [percent |-> rate,
          taxable |-> Total(products, LAMBDA p : IF VATOrZero(p) = rate THEN NetAmount(p) ELSE 0),
          tax |-> Total(products, LAMBDA p : IF VATOrZero(p) = rate THEN TaxAmount(p) ELSE 0)]]

(* What ToXML states of the amounts.                                       *)
Amounts(products) ==
  LET lineExtension == Total(products, NetAmount)
  IN  [lines |-> [i \in DOMAIN products |->
                    [net |-> NetAmount(products[i]), tax |-> TaxAmount(products[i]),
                     total |-> NetAmount(products[i]) + TaxAmount(products[i])]],
       groups |-> TaxGroups(products),
       tax |-> TotalTax(products),
       lineExtension |-> lineExtension,
       payable |-> lineExtension + TotalTax(products)]
==============================================================================
