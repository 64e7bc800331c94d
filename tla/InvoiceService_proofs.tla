------------------------- MODULE InvoiceService_proofs -------------------------
(****************************************************************************)
(* The numbers of invoices and quotes, the links between them and their     *)
(* amounts, for any numbers of documents, users, handlers in flight,        *)
(* attempts and faults, and any lines.                                      *)
(****************************************************************************)
EXTENDS MCInvoiceService, Sums_proofs

PartyFields == {"order", "customer", "provider"}

(* The document i is an invoice that quote q can be linked to, as long as   *)
(* no update rewrites one of them.                                          *)
LinkOK(q, i) ==
  /\ q \in Invoices /\ invoices[q] # None
  /\ i \in Invoices /\ invoices[i] # None
  /\ {q, i} \subseteq Stored \ rewritten =>
       /\ invoices[q].type = "quote"
       /\ invoices[i].type = "invoice" /\ invoices[i].series = "invoice"
       /\ \A f \in PartyFields : invoices[i][f] = invoices[q][f]

Linked ==
  \A q \in Stored \ rewritten :
    invoices[q].converted # None => LinkOK(q, invoices[q].converted)

(* What a save sends.                                                       *)
SendFields == {"status", "type", "order", "customer", "converted", "lines"} \cup AmountFields

Typed(s) ==
  /\ "status" \in DOMAIN s => s["status"] \in InvoiceStatus
  /\ "type" \in DOMAIN s => s["type"] \in {"quote", "invoice"}
  /\ "order" \in DOMAIN s => s["order"] \in Orders \cup {None}
  /\ "customer" \in DOMAIN s => s["customer"] \in Customers \cup {None}
  /\ "converted" \in DOMAIN s => s["converted"] \in Invoices \cup {None}
  /\ "lines" \in DOMAIN s => s["lines"] \in Drafts \cup Edits
  /\ \A f \in AmountFields \cap DOMAIN s : s[f] \in Int

SendTyped(sends) == DOMAIN sends \subseteq SendFields /\ Typed(sends)

SendOK(q, sends) ==
  /\ SendTyped(sends)
  /\ DOMAIN sends \cap {"type", "order", "customer"} # {} => q \in rewritten
  /\ "converted" \in DOMAIN sends =>
       sends["converted"] = None \/ q \in rewritten \/ LinkOK(q, sends["converted"])

(* What a conversion relies on: the quote exists, and the document under    *)
(* way is an invoice, with its parties unless an update rewrites the quote. *)
QuoteOK(q, doc) ==
  /\ q \in Invoices /\ invoices[q] # None
  /\ doc.type = "invoice"
  /\ q \in Stored \ rewritten => /\ invoices[q].type = "quote"
                                 /\ \A f \in PartyFields : doc[f] = invoices[q][f]

Numberings == {"invoice.number", "invoice.insert"}
Saves == {"invoice.save", "invoice.link"}

(* A numbering under way.                                                   *)
NumberingJob ==
  [op : Numberings, doc : InvoiceDoc, quote : Invoices \cup {None}, attempts : Nat]

Relies(s) ==
  /\ s.op \in Numberings => /\ s \in NumberingJob /\ s.doc.converted = None
                            /\ s.doc.series = s.doc.type
                            /\ s.quote # None => QuoteOK(s.quote, s.doc)
  /\ s.op \in Saves => /\ s.id \in Invoices /\ invoices[s.id] # None
                       /\ SendOK(s.id, s.sends)
  /\ s.op = "invoice.delete" => s.id \in Invoices /\ invoices[s.id] # None

(* Documents and handlers have the shapes the code gives them.              *)
Shapes ==
  /\ InvoiceTypeOK
  /\ job = [j \in Jobs |-> job[j]]
  /\ \A j \in Jobs : Relies(job[j])

(* There is an id left for every numbering in flight.                       *)
NumberingJobs == {j \in Jobs : job[j].op \in Numberings}
RoomLeft == Cardinality(NumberingJobs) <= Cardinality(Unused)

(* The number an insert carries is not beyond the next one: while it was    *)
(* under way numbers were only added.                                       *)
Undeleted == \A i \in Invoices : invoices[i] # Gone
Types == {"quote", "invoice"}
Count(type) == Cardinality(Series(type))
NextNumbers ==
  Undeleted => \A j \in Jobs, type \in Types :
    job[j].op = "invoice.insert" /\ job[j].doc.series = type =>
      job[j].doc.number \in 1..(Count(type) + 1)

Inv == Shapes /\ Linked /\ RoomLeft /\ Contiguous /\ NextNumbers

----------------------------------------------------------------------------
(* A set of numbers has a least element.                                    *)
LEMMA LeastOf ==
  ASSUME NEW S \in SUBSET Nat, S # {}
  PROVE  \E x \in S : \A y \in S : x <= y
  <1>1. PICK x \in S : \A y \in S : ~(<<y, x>> \in OpToRel(<, Nat))
    BY NatLessThanWellFounded, WFMin
  <1>2. \A y \in S : ~(y < x)
    BY <1>1, Zenon DEF OpToRel
  <1> QED  BY <1>2

(* The smallest of some numbers is one of them.                             *)
LEMMA MinInSet ==
  ASSUME NEW S \in SUBSET Nat, S # {}
  PROVE  Min(S) \in S
  BY LeastOf DEF Min

(* Finitely many numbers are bounded: otherwise there would be a least      *)
(* number of them without a bound.                                          *)
LEMMA Bounded ==
  ASSUME NEW S \in SUBSET Nat, IsFiniteSet(S)
  PROVE  \E b \in Nat : \A y \in S : y <= b
  <1> DEFINE n == Cardinality(S)
  <1>1. n \in Nat /\ ExistsBijection(1..n, S)
    BY FS_CardinalityType
  <1> HIDE DEF n
  <1>2. PICK f \in [1..n -> S] : \A y \in S : \E k \in 1..n : f[k] = y
    BY <1>1 DEF ExistsBijection, Bijection, Surjection
  <1> DEFINE Has(m) == \E b \in Nat : \A k \in 1..m : f[k] <= b
             Bad == {m \in 0..n : ~Has(m)}
  <1> HIDE DEF Has
  <1>3. ASSUME NEW m \in 0..n, ~Has(m), \A k \in 0..n : ~Has(k) => m <= k
        PROVE  FALSE
    <2>1. Has(0)
      BY DEF Has
    <2>2. m \in 1..n /\ m - 1 \in 0..n /\ m - 1 < m
      BY <1>1, <1>3, <2>1
    <2>3. PICK b \in Nat : \A k \in 1..(m - 1) : f[k] <= b
      BY <1>3, <2>2 DEF Has
    <2>4. f[m] \in Nat
      BY <1>2, <2>2
    <2> DEFINE c == IF f[m] <= b THEN b ELSE f[m]
    <2>5. c \in Nat /\ b <= c /\ f[m] <= c
      BY <2>3, <2>4
    <2> HIDE DEF c
    <2>6. ASSUME NEW k \in 1..m
          PROVE  f[k] <= c
      <3>1. CASE k = m
        BY <2>5, <3>1
      <3>2. CASE k # m
        <4>1. k \in 1..(m - 1) /\ k \in 1..n
          BY <1>1, <2>2, <3>2
        <4>2. f[k] <= b /\ f[k] \in Nat
          BY <1>2, <2>3, <4>1
        <4> QED  BY <2>3, <2>5, <4>2
      <3> QED  BY <3>1, <3>2
    <2> QED  BY <1>3, <2>5, <2>6 DEF Has
  <1>4. Bad = {}
    <2> SUFFICES ASSUME Bad # {}
                 PROVE  FALSE
      OBVIOUS
    <2>1. Bad \in SUBSET Nat
      BY <1>1
    <2> HIDE DEF Bad
    <2>2. PICK m \in Bad : \A k \in Bad : m <= k
      BY <2>1, LeastOf
    <2> QED  BY <1>3, <2>2 DEF Bad
  <1>5. Has(n)
    BY <1>1, <1>4
  <1> QED  BY <1>2, <1>5 DEF Has

(* The largest of finitely many numbers is one of them.                     *)
LEMMA MaxInSet ==
  ASSUME NEW S \in SUBSET Nat, IsFiniteSet(S), S # {}
  PROVE  Max(S) \in S /\ \A y \in S : Max(S) >= y
  <1> DEFINE Above == {b \in Nat : \A y \in S : y <= b}
  <1>1. PICK b \in Above : \A c \in Above : b <= c
    BY Bounded, LeastOf
  <1>2. b \in S
    <2> SUFFICES ASSUME b \notin S
                 PROVE  FALSE
      OBVIOUS
    <2>1. b \in Nat /\ \A y \in S : y \in Nat /\ y <= b /\ y # b
      OBVIOUS
    <2>2. \A y \in S : y <= b - 1
      BY <2>1
    <2>3. PICK y \in S : y <= b - 1
      BY <2>2
    <2>4. b - 1 \in Above
      BY <2>1, <2>2, <2>3
    <2> HIDE DEF Above
    <2>5. b <= b - 1
      BY <1>1, <2>4
    <2> QED  BY <2>1, <2>5
  <1>3. \E x \in S : \A y \in S : x >= y
    BY <1>2
  <1> QED  BY <1>3 DEF Max

----------------------------------------------------------------------------
(* Division by a positive number.                                           *)
LEMMA Divides ==
  ASSUME NEW y \in Int, NEW m \in Nat \ {0}
  PROVE  /\ y \div m \in Int
         /\ m * (y \div m) <= y
         /\ y < m * (y \div m) + m
  OBVIOUS

LEMMA UnitsOK ==
  /\ Cent \in Nat \ {0} /\ Mill \in Nat \ {0}
  /\ Square \in Nat \ {0} /\ Fraction \in Nat \ {0}
  <1>1. Square \in Nat \ {0} /\ Fraction \in Nat \ {0}
    BY FractionAssumption DEF Square
  <1> DEFINE f == Square
  <1>2. f \in Nat \ {0}
    BY <1>1
  <1> HIDE DEF f
  <1>3. f * f \in Nat \ {0}
    BY <1>2
  <1> DEFINE g == f * f
  <1> HIDE DEF g
  <1>4. 10000 * g \in Nat \ {0} /\ 1000 * g \in Nat \ {0}
    BY <1>3 DEF g
  <1> QED  BY <1>1, <1>4 DEF Cent, Mill, f, g

(* Rounding moves an amount by half a unit at most.                         *)
LEMMA RoundsTo ==
  ASSUME NEW x \in Int, NEW unit \in Nat \ {0}
  PROVE  /\ RoundTo(x, unit) \in Int
         /\ 2 * (RoundTo(x, unit) * unit) <= 2 * x + unit
         /\ 2 * x + unit < 2 * (RoundTo(x, unit) * unit) + 2 * unit
  <1> DEFINE y == 2 * x + unit
             m == 2 * unit
             r == y \div m
  <1>1. y \in Int /\ m \in Nat \ {0}
    OBVIOUS
  <1> HIDE DEF y, m
  <1>2. r \in Int /\ m * r <= y /\ y < m * r + m
    BY <1>1, Divides
  <1> HIDE DEF r
  <1>3. m * r = 2 * (r * unit)
    BY <1>2 DEF m
  <1>4. RoundTo(x, unit) = r
    BY DEF RoundTo, r, y, m
  <1> QED  BY <1>2, <1>3, <1>4 DEF y, m

LEMMA Rounds ==
  ASSUME NEW x \in Int
  PROVE  /\ ToCents(x) \in Int
         /\ 2 * (ToCents(x) * Cent) <= 2 * x + Cent
         /\ 2 * x + Cent < 2 * (ToCents(x) * Cent) + 2 * Cent
  BY RoundsTo, UnitsOK DEF ToCents

LEMMA Fixes ==
  ASSUME NEW x \in Int, NEW unit \in Nat \ {0}
  PROVE  /\ ToFixed(x, unit) \in Int
         /\ 2 * (ToFixed(x, unit) - x) \in (-unit)..unit
  <1>1. ASSUME NEW y \in Int
        PROVE  /\ RoundTo(y, unit) * unit \in Int
               /\ 2 * (RoundTo(y, unit) * unit - y) \in (-unit)..unit
    <2> DEFINE r == RoundTo(y, unit)
               z == r * unit
    <2>1. r \in Int /\ 2 * z <= 2 * y + unit /\ 2 * y + unit < 2 * z + 2 * unit
      BY <1>1, RoundsTo
    <2>2. z \in Int
      <3> HIDE DEF r
      <3> QED  BY <2>1
    <2> HIDE DEF z
    <2>3. 2 * (z - y) \in (-unit)..unit
      BY <2>1, <2>2
    <2> QED  BY <2>2, <2>3 DEF z
  <1>2. CASE x < 0
    <2> DEFINE z == RoundTo(-x, unit) * unit
    <2>1. z \in Int /\ 2 * (z - (-x)) \in (-unit)..unit
      BY <1>1
    <2>2. ToFixed(x, unit) = -z
      BY <1>2 DEF ToFixed
    <2> HIDE DEF z
    <2> QED  BY <2>1, <2>2
  <1>3. CASE ~(x < 0)
    BY <1>1, <1>3 DEF ToFixed
  <1> QED  BY <1>2, <1>3

(* The amounts of every line are whole numbers.                             *)
ItemAmounts(lines) ==
  /\ [i \in DOMAIN lines |-> ItemSubtotal(lines[i])] \in [DOMAIN lines -> Int]
  /\ [i \in DOMAIN lines |-> ItemDiscount(lines[i])] \in [DOMAIN lines -> Int]
  /\ [i \in DOMAIN lines |-> ItemTax(lines[i])] \in [DOMAIN lines -> Int]
  /\ [i \in DOMAIN lines |-> LineAmount(lines[i])] \in [DOMAIN lines -> Int]

LEMMA ItemsOK ==
  ASSUME NEW lines \in Seq(LineItem)
  PROVE  /\ ItemAmounts(lines)
         /\ IsFiniteSet(DOMAIN lines)
         /\ Cardinality(DOMAIN lines) = Len(lines)
  <1>1. ASSUME NEW i \in DOMAIN lines
        PROVE  /\ ItemSubtotal(lines[i]) \in Int /\ ItemDiscount(lines[i]) \in Int
               /\ ItemTax(lines[i]) \in Int /\ LineAmount(lines[i]) \in Int
    <2> DEFINE item == lines[i]
    <2>1. item \in LineItem
      OBVIOUS
    <2>2. /\ item.quantity \in Nat /\ item.unitPrice \in Nat /\ item.taxRate \in Nat
          /\ item.discount \in Nat
      BY <2>1 DEF LineItem
    <2> HIDE DEF item
    <2>3. /\ 10000 * Square \in Int /\ 100 * Fraction \in Nat \ {0}
          /\ 10000 * (Square * Fraction) \in Int
      BY UnitsOK
    <2>4. item.quantity * item.unitPrice \in Int
      BY <2>2
    <2>5. ItemSubtotal(item) \in Int
      BY <2>3, <2>4 DEF ItemSubtotal
    <2>6. ItemDiscount(item) \in Int
      <3>1. item.quantity * item.unitPrice * item.discount \in Int
        BY <2>2, <2>4
      <3>2. item.quantity * item.unitPrice * item.discount * (100 * Fraction) \in Int
        BY <3>1, <2>3
      <3>3. item.discount * (10000 * (Square * Fraction)) \in Int
        BY <2>2, <2>3
      <3> QED  BY <3>2, <3>3 DEF ItemDiscount
    <2>7. (ItemSubtotal(item) - ItemDiscount(item)) * item.taxRate \in Int
      BY <2>2, <2>5, <2>6
    <2>8. ItemTax(item) \in Int
      BY <2>3, <2>7, Divides DEF ItemTax
    <2>9. LineAmount(item) \in Int
      BY <2>5, <2>6, <2>8 DEF LineAmount, ItemTax
    <2> QED  BY <2>5, <2>6, <2>8, <2>9 DEF item
  <1>2. DOMAIN lines = 1..Len(lines) /\ Len(lines) \in Nat
    OBVIOUS
  <1>3. IsFiniteSet(DOMAIN lines) /\ Cardinality(DOMAIN lines) = Len(lines)
    BY <1>2, FS_Interval
  <1> QED  BY <1>1, <1>3 DEF ItemAmounts

(* What the lines of a document sum up to before anything is rounded, and   *)
(* what they sum up to as printed.                                          *)
LEMMA SumsOK ==
  ASSUME NEW lines \in Seq(LineItem)
  PROVE  LET s == SumOver(lines, ItemSubtotal)
             d == SumOver(lines, ItemDiscount)
             t == SumOver(lines, ItemTax)
         IN /\ s \in Int /\ d \in Int /\ t \in Int
            /\ \A unit \in Nat \ {0} :
                 /\ PrintedLines(lines, unit) \in Int
                 /\ 2 * (PrintedLines(lines, unit) - (s - d + t))
                      \in (-(unit * Len(lines)))..(unit * Len(lines))
  <1> DEFINE L == DOMAIN lines
             sub == [i \in L |-> ItemSubtotal(lines[i])]
             disc == [i \in L |-> ItemDiscount(lines[i])]
             tax == [i \in L |-> ItemTax(lines[i])]
             amount == [i \in L |-> LineAmount(lines[i])]
             net == [i \in L |-> ItemSubtotal(lines[i]) - ItemDiscount(lines[i])]
  <1>1. /\ sub \in [L -> Int] /\ disc \in [L -> Int] /\ tax \in [L -> Int]
        /\ amount \in [L -> Int] /\ net \in [L -> Int]
        /\ IsFiniteSet(L) /\ Cardinality(L) = Len(lines)
    BY ItemsOK DEF ItemAmounts
  <1>2. \A i \in L : sub[i] = net[i] + disc[i] /\ amount[i] = net[i] + tax[i]
    <2>1. \A i \in L : /\ amount[i] = LineAmount(lines[i]) /\ sub[i] = ItemSubtotal(lines[i])
                       /\ disc[i] = ItemDiscount(lines[i]) /\ tax[i] = ItemTax(lines[i])
                       /\ net[i] = ItemSubtotal(lines[i]) - ItemDiscount(lines[i])
                       /\ sub[i] \in Int /\ disc[i] \in Int /\ tax[i] \in Int
      BY <1>1
    <2> HIDE DEF sub, disc, tax, amount, net
    <2> QED  BY <2>1 DEF LineAmount, ItemTax
  <1>4. /\ SumOver(lines, ItemSubtotal) = SumFunction(sub)
        /\ SumOver(lines, ItemDiscount) = SumFunction(disc)
        /\ SumOver(lines, ItemTax) = SumFunction(tax)
    BY DEF SumOver
  <1>p. \A i \in L : amount[i] = LineAmount(lines[i])
    OBVIOUS
  <1>q. L = DOMAIN lines
    OBVIOUS
  <1> HIDE DEF L, sub, disc, tax, amount, net
  <1>5. SumFunction(sub) \in Int /\ SumFunction(disc) \in Int /\ SumFunction(tax) \in Int
        /\ SumFunction(amount) \in Int /\ SumFunction(net) \in Int
    BY <1>1, SumIsInt, Zenon
  <1>a. \A a, b, c \in [L -> Int] :
          (\A i \in L : c[i] = a[i] + b[i]) => SumFunction(c) = SumFunction(a) + SumFunction(b)
    BY <1>1, SumsAdd
  <1>6. SumFunction(amount) = SumFunction(sub) - SumFunction(disc) + SumFunction(tax)
    <2>2. SumFunction(sub) = SumFunction(net) + SumFunction(disc)
      <3>1. \A i \in L : sub[i] = net[i] + disc[i]
        BY <1>2
      <3> QED  BY <1>1, <1>a, <3>1, Zenon
    <2>3. SumFunction(amount) = SumFunction(net) + SumFunction(tax)
      <3>1. \A i \in L : amount[i] = net[i] + tax[i]
        BY <1>2
      <3> QED  BY <1>1, <1>a, <3>1, Zenon
    <2> QED  BY <1>5, <2>2, <2>3
  <1>7. ASSUME NEW unit \in Nat \ {0}
        PROVE  /\ PrintedLines(lines, unit) \in Int
               /\ 2 * (PrintedLines(lines, unit) - SumFunction(amount))
                    \in (-(unit * Len(lines)))..(unit * Len(lines))
    <2> DEFINE print == [i \in L |-> ToFixed(amount[i], unit)]
               diff == [i \in L |-> ToFixed(amount[i], unit) - amount[i]]
               twice == [i \in L |-> 2 * (ToFixed(amount[i], unit) - amount[i])]
    <2>1. \A i \in L : /\ ToFixed(amount[i], unit) \in Int /\ amount[i] \in Int
                       /\ 2 * (ToFixed(amount[i], unit) - amount[i]) \in (-unit)..unit
      <3> SUFFICES ASSUME NEW i \in L
                   PROVE  /\ ToFixed(amount[i], unit) \in Int /\ amount[i] \in Int
                          /\ 2 * (ToFixed(amount[i], unit) - amount[i]) \in (-unit)..unit
        OBVIOUS
      <3>1. amount[i] \in Int
        BY <1>1
      <3> QED  BY <3>1, Fixes
    <2>2. print \in [L -> Int] /\ diff \in [L -> Int] /\ twice \in [L -> (-unit)..unit]
          /\ twice \in [L -> Int]
      BY <2>1
    <2>3. PrintedLines(lines, unit) = SumFunction(print)
      <3>1. [i \in L |-> ToFixed(LineAmount(lines[i]), unit)] = print
        BY <1>p
      <3> QED  BY <3>1, <1>q DEF PrintedLines
    <2>4. \A i \in L : print[i] = amount[i] + diff[i]
      BY <2>1
    <2>5. \A i \in L : twice[i] = 2 * diff[i]
      OBVIOUS
    <2> HIDE DEF print, diff, twice
    <2>6. SumFunction(print) = SumFunction(amount) + SumFunction(diff)
      BY <1>1, <1>a, <2>2, <2>4, Zenon
    <2>7. SumFunction(twice) = 2 * SumFunction(diff)
      <3>1. \A a, d \in [L -> Int] :
              (\A i \in L : d[i] = 2 * a[i]) => SumFunction(d) = 2 * SumFunction(a)
        <4>1. 2 \in Int
          OBVIOUS
        <4> QED  BY <1>1, <4>1, SumIsMultiple
      <3> QED  BY <2>2, <2>5, <3>1, Zenon
    <2>8. SumFunction(twice) \in (-(unit * Cardinality(L)))..(unit * Cardinality(L))
      <3>1. unit \in Nat
        OBVIOUS
      <3> QED  BY <1>1, <2>2, <3>1, SumIsWithin
    <2>9. SumFunction(print) \in Int /\ SumFunction(diff) \in Int
      BY <1>1, <2>2, SumIsInt, Zenon
    <2>10. 2 * (SumFunction(print) - SumFunction(amount)) = SumFunction(twice)
      BY <1>5, <2>6, <2>7, <2>9
    <2> QED  BY <1>1, <2>3, <2>8, <2>9, <2>10
  <1> QED  BY <1>4, <1>5, <1>6, <1>7

(* The totals of any lines add up, to each other, to the form and in print. *)
LEMMA TotalsAddUp ==
  ASSUME NEW lines \in Drafts \cup Edits, NEW doc,
         \A f \in DOMAIN Totals(lines) : doc[f] = Totals(lines)[f]
  PROVE  AddUp(Totals(lines)) /\ PrintedAddUp(lines, doc)
  <1> DEFINE s == SumOver(lines, ItemSubtotal)
             d == SumOver(lines, ItemDiscount)
             t == SumOver(lines, ItemTax)
  <1>0. lines \in Seq(LineItem)
    BY LinesAssumption
  <1>1. /\ s \in Int /\ d \in Int /\ t \in Int
        /\ \A unit \in Nat \ {0} :
             /\ PrintedLines(lines, unit) \in Int
             /\ 2 * (PrintedLines(lines, unit) - (s - d + t))
                  \in (-(unit * Len(lines)))..(unit * Len(lines))
    BY <1>0, SumsOK
  <1>2. FormTotal(lines) = s - d + t
    BY DEF FormTotal
  <1>3. Totals(lines) = [subtotal |-> ToCents(s), taxAmount |-> ToCents(t),
                         discountAmount |-> ToCents(d), totalAmount |-> ToCents(s - d + t)]
    BY DEF Totals
  <1> HIDE DEF s, d, t
  <1>4. doc.totalAmount = ToCents(s - d + t)
    BY <1>3
  <1> DEFINE x == s - d + t
             total == ToCents(x)
             rs == ToCents(s)
             rd == ToCents(d)
             rt == ToCents(t)
             C == Cent
  <1>5. x \in Int /\ C \in Nat \ {0} /\ Len(lines) \in Nat
    BY <1>0, <1>1, UnitsOK
  <1>6. \A y \in {x, s, d, t} :
          /\ ToCents(y) \in Int
          /\ 2 * (ToCents(y) * C) <= 2 * y + C
          /\ 2 * y + C < 2 * (ToCents(y) * C) + 2 * C
    BY <1>1, <1>5, Rounds
  <1>x. x = s - d + t
    OBVIOUS
  <1> HIDE DEF x, C
  <1>7. /\ total \in Int /\ rs \in Int /\ rd \in Int /\ rt \in Int
        /\ 2 * (total * C) <= 2 * x + C /\ 2 * x + C < 2 * (total * C) + 2 * C
        /\ 2 * (rs * C) <= 2 * s + C /\ 2 * s + C < 2 * (rs * C) + 2 * C
        /\ 2 * (rd * C) <= 2 * d + C /\ 2 * d + C < 2 * (rd * C) + 2 * C
        /\ 2 * (rt * C) <= 2 * t + C /\ 2 * t + C < 2 * (rt * C) + 2 * C
    BY <1>6
  <1> HIDE DEF total, rs, rd, rt
  <1>8. AbsVal(total - (rs - rd + rt)) <= 1
    <2> DEFINE k == total - (rs - rd + rt)
    <2>1. k \in Int
      BY <1>7
    <2>2. k * C = total * C - rs * C + rd * C - rt * C
      BY <1>5, <1>7
    <2>3. total * C \in Int /\ rs * C \in Int /\ rd * C \in Int /\ rt * C \in Int
      BY <1>5, <1>7
    <2> HIDE DEF k
    <2>4. k * C < 2 * C /\ -(2 * C) < k * C
      <3> DEFINE ct == total * C
                 cs == rs * C
                 cd == rd * C
                 cx == rt * C
      <3>1. /\ ct \in Int /\ cs \in Int /\ cd \in Int /\ cx \in Int
            /\ k * C = ct - cs + cd - cx
            /\ 2 * ct <= 2 * x + C /\ 2 * x + C < 2 * ct + 2 * C
            /\ 2 * cs <= 2 * s + C /\ 2 * s + C < 2 * cs + 2 * C
            /\ 2 * cd <= 2 * d + C /\ 2 * d + C < 2 * cd + 2 * C
            /\ 2 * cx <= 2 * t + C /\ 2 * t + C < 2 * cx + 2 * C
        BY <1>7, <2>2, <2>3
      <3> HIDE DEF ct, cs, cd, cx
      <3>2. s \in Int /\ d \in Int /\ t \in Int /\ C \in Int
        BY <1>1, <1>5
      <3>3. ct - cs + cd - cx < 2 * C /\ -(2 * C) < ct - cs + cd - cx
        BY <3>1, <3>2, <1>x
      <3> QED  BY <3>1, <3>3
    <2>5. k < 2
      <3>1. SUFFICES ASSUME k >= 2 PROVE FALSE
        BY <2>1
      <3>2. k * C >= 2 * C
        BY <1>5, <2>1, <3>1
      <3> QED  BY <1>5, <2>1, <2>4, <3>2
    <2>6. k > -2
      <3>1. SUFFICES ASSUME k <= -2 PROVE FALSE
        BY <2>1
      <3>2. k * C <= (-2) * C
        BY <1>5, <2>1, <3>1
      <3> QED  BY <1>5, <2>1, <2>4, <3>2
    <2>7. AbsVal(k) <= 1
      BY <2>1, <2>5, <2>6 DEF AbsVal
    <2> QED  BY <2>7 DEF k
  <1>9. 2 * AbsVal(total * C - x) <= C
    <2>1. total * C \in Int
      BY <1>5, <1>7
    <2> QED  BY <1>5, <1>7, <2>1 DEF AbsVal
  <1>10. AddUp(Totals(lines))
    BY <1>3, <1>8, <1>x DEF AddUp, total, rs, rd, rt
  <1>11. ASSUME NEW unit \in {Mill, Cent}
         PROVE  2 * AbsVal(total * C - PrintedLines(lines, unit)) <= C + Len(lines) * unit
    <2> DEFINE p == PrintedLines(lines, unit)
               m == unit * Len(lines)
    <2>1. unit \in Nat \ {0}
      BY UnitsOK
    <2>2. p \in Int /\ 2 * (p - x) \in (-m)..m
      BY <1>1, <1>x, <2>1
    <2>3. m \in Nat /\ Len(lines) * unit = m /\ total * C \in Int
      BY <1>5, <1>7, <2>1
    <2> HIDE DEF p, m
    <2>4. 2 * AbsVal(total * C - p) <= C + m
      BY <1>5, <1>7, <2>2, <2>3 DEF AbsVal
    <2> QED  BY <2>3, <2>4 DEF p
  <1>12. doc.totalAmount * Cent = total * C
    BY <1>4, <1>x DEF total, C
  <1>13. \A unit \in {Mill, Cent} :
           2 * AbsVal(doc.totalAmount * Cent - PrintedLines(lines, unit))
             <= Cent + Len(lines) * unit
    BY <1>11, <1>12 DEF C
  <1>14. 2 * AbsVal(doc.totalAmount * Cent - FormTotal(lines)) <= Cent
    BY <1>2, <1>9, <1>12, <1>x DEF C
  <1> QED  BY <1>10, <1>13, <1>14 DEF PrintedAddUp

(* Totals are whole cents.                                                  *)
LEMMA TotalsOK ==
  ASSUME NEW lines \in Drafts \cup Edits
  PROVE  Totals(lines) \in [AmountFields -> Int]
  <1> DEFINE s == SumOver(lines, ItemSubtotal)
             d == SumOver(lines, ItemDiscount)
             t == SumOver(lines, ItemTax)
  <1>1. s \in Int /\ d \in Int /\ t \in Int
    BY SumsOK, LinesAssumption
  <1>2. Totals(lines) = [subtotal |-> ToCents(s), taxAmount |-> ToCents(t),
                         discountAmount |-> ToCents(d), totalAmount |-> ToCents(s - d + t)]
    BY DEF Totals
  <1> HIDE DEF s, d, t
  <1>3. s - d + t \in Int
    BY <1>1
  <1>4. ToCents(s) \in Int /\ ToCents(d) \in Int /\ ToCents(t) \in Int
        /\ ToCents(s - d + t) \in Int
    BY <1>1, <1>3, Rounds
  <1> QED  BY <1>2, <1>4 DEF AmountFields

----------------------------------------------------------------------------
(* A document after a save: the fields sent, the others as they were.       *)
LEMMA UpdatedOK ==
  ASSUME NEW d \in InvoiceDoc, NEW s, SendTyped(s)
  PROVE  /\ Updated(d, s) \in InvoiceDoc
         /\ \A f \in {"number", "series", "provider"} : Updated(d, s)[f] = d[f]
         /\ \A f \in PartyFields \cup {"type"} :
              f \notin DOMAIN s => Updated(d, s)[f] = d[f]
         /\ Updated(d, s).converted =
              IF "converted" \in DOMAIN s THEN s["converted"] ELSE d.converted
  <1> DEFINE u == Updated(d, s)
  <1>1. DOMAIN d = {"series", "number", "type", "order", "customer", "provider", "status",
                    "converted", "lines", "subtotal", "taxAmount", "discountAmount",
                    "totalAmount"}
    BY DEF InvoiceDoc
  <1>2. u = [f \in DOMAIN d |-> IF f \in DOMAIN s THEN s[f] ELSE d[f]]
    BY DEF Updated
  <1>3. \A f \in {"number", "series", "provider"} : f \in DOMAIN d /\ f \notin DOMAIN s
    BY <1>1 DEF SendTyped, SendFields, AmountFields
  <1>4. \A f \in {"number", "series", "provider"} : u[f] = d[f]
    BY <1>2, <1>3
  <1>5. /\ u["status"] \in InvoiceStatus
        /\ u["type"] \in {"quote", "invoice"}
    BY <1>1, <1>2 DEF SendTyped, Typed, InvoiceDoc
  <1>6. /\ u["order"] \in Orders \cup {None}
        /\ u["customer"] \in Customers \cup {None}
        /\ u["lines"] \in Drafts \cup Edits
    BY <1>1, <1>2 DEF SendTyped, Typed, InvoiceDoc
  <1>7. /\ u["converted"] = (IF "converted" \in DOMAIN s THEN s["converted"] ELSE d["converted"])
        /\ u["converted"] \in Invoices \cup {None}
    BY <1>1, <1>2 DEF SendTyped, Typed, InvoiceDoc
  <1>8. \A f \in AmountFields : u[f] \in Int
    <2>1. \A f \in AmountFields : f \in DOMAIN d /\ d[f] \in Int
      BY <1>1 DEF AmountFields, InvoiceDoc
    <2> QED  BY <1>2, <2>1 DEF SendTyped, Typed
  <1>9. u \in InvoiceDoc
    <2>1. u = [f \in DOMAIN d |-> u[f]] /\ DOMAIN u = DOMAIN d
      BY <1>2
    <2> HIDE DEF u
    <2>2. u["number"] \in Nat /\ u["series"] \in {"quote", "invoice"} /\ u["provider"] \in Billers
      BY <1>4 DEF InvoiceDoc
    <2>3. u["subtotal"] \in Int /\ u["taxAmount"] \in Int /\ u["discountAmount"] \in Int
          /\ u["totalAmount"] \in Int
      BY <1>8 DEF AmountFields
    <2> QED  BY <1>1, <1>5, <1>6, <1>7, <2>1, <2>2, <2>3 DEF InvoiceDoc
  <1>10. \A f \in PartyFields \cup {"type"} : f \notin DOMAIN s => u[f] = d[f]
    BY <1>1, <1>2 DEF PartyFields
  <1> QED  BY <1>4, <1>7, <1>9, <1>10

(* A new document of these parties and this type.                           *)
DraftShape(d, type, o, c, p) ==
  /\ d \in InvoiceDoc
  /\ d.series = type /\ d.type = type
  /\ d.order = o /\ d.customer = c /\ d.provider = p
  /\ d.converted = None

(* A new document has the amounts of its lines.                             *)
LEMMA DraftOK ==
  ASSUME NEW type \in Types, NEW o \in Orders \cup {None},
         NEW c \in Customers \cup {None}, NEW p \in Billers,
         NEW status \in InvoiceStatus, NEW lines \in Drafts \cup Edits
  PROVE  DraftShape(Draft(type, o, c, p, status, lines), type, o, c, p)
  <1>1. Totals(lines) \in [AmountFields -> Int]
    BY TotalsOK
  <1>2. /\ Totals(lines).subtotal \in Int /\ Totals(lines).taxAmount \in Int
        /\ Totals(lines).discountAmount \in Int /\ Totals(lines).totalAmount \in Int
    BY <1>1 DEF AmountFields
  <1> QED  BY <1>2 DEF Draft, DraftShape, InvoiceDoc, Types

(* What an assignment leaves to send is what was assigned.                  *)
LEMMA ModifiedOK ==
  ASSUME NEW d \in InvoiceDoc, NEW s, DOMAIN s \subseteq SendFields \cup {"payment"}, Typed(s)
  PROVE  /\ SendTyped(Modified(d, s))
         /\ DOMAIN Modified(d, s) \subseteq DOMAIN s
  <1> DEFINE m == Modified(d, s)
  <1>1. m = [f \in {g \in DOMAIN s \cap DOMAIN d : s[g] # d[g]} |-> s[f]]
    BY DEF Modified
  <1>2. "payment" \notin DOMAIN d
    BY DEF InvoiceDoc
  <1>3. DOMAIN m \subseteq DOMAIN s /\ "payment" \notin DOMAIN m /\ \A f \in DOMAIN m : m[f] = s[f]
    BY <1>1, <1>2
  <1> HIDE DEF m
  <1> QED  BY <1>3 DEF SendTyped, Typed, m

(* The fields an update assigns fit the schema.                             *)
Changes(dto) == IF "lines" \in DOMAIN dto THEN Retotaled(dto) ELSE dto

LEMMA ChangesOK ==
  ASSUME NEW dto \in Dtos
  PROVE  DOMAIN Changes(dto) \subseteq SendFields \cup {"payment"} /\ Typed(Changes(dto))
  <1> DEFINE inputs == {"status", "type", "order", "customer", "converted", "lines", "payment"}
  <1>1. DOMAIN DtoFields = inputs
    BY DEF DtoFields
  <1>2. DOMAIN dto \subseteq inputs /\ \A f \in DOMAIN dto : dto[f] \in DtoFields[f]
    BY <1>1, DtoAssumption
  <1>3. /\ "status" \in DOMAIN dto => dto["status"] \in InvoiceStatus
        /\ "type" \in DOMAIN dto => dto["type"] \in {"quote", "invoice"}
        /\ "order" \in DOMAIN dto => dto["order"] \in Orders \cup {None}
        /\ "customer" \in DOMAIN dto => dto["customer"] \in Customers \cup {None}
        /\ "converted" \in DOMAIN dto => dto["converted"] \in Invoices \cup {None}
        /\ "lines" \in DOMAIN dto => dto["lines"] \in Edits
    BY <1>2 DEF DtoFields
  <1>4. AmountFields \cap inputs = {}
    BY DEF AmountFields
  <1>5. CASE "lines" \notin DOMAIN dto
    <2>1. Changes(dto) = dto
      BY <1>5 DEF Changes
    <2> QED  BY <1>2, <1>3, <1>4, <2>1 DEF Typed, SendFields
  <1>6. CASE "lines" \in DOMAIN dto
    <2> DEFINE r == Changes(dto)
    <2>1. r = [f \in DOMAIN dto \cup AmountFields |->
                IF f \in DOMAIN dto THEN dto[f] ELSE Totals(dto["lines"])[f]]
      BY <1>6 DEF Changes, Retotaled
    <2>2. DOMAIN r = DOMAIN dto \cup AmountFields /\ \A f \in DOMAIN dto : r[f] = dto[f]
      BY <2>1
    <2>3. Totals(dto["lines"]) \in [AmountFields -> Int]
      BY <1>3, <1>6, TotalsOK
    <2>4. \A f \in AmountFields : f \notin DOMAIN dto /\ r[f] \in Int
      BY <1>2, <1>4, <2>1, <2>3
    <2> HIDE DEF r
    <2> QED  BY <1>2, <1>3, <1>4, <2>2, <2>4 DEF Typed, SendFields, r
  <1> QED  BY <1>5, <1>6

----------------------------------------------------------------------------
(* What a step never does to a document: take it, or its deletion, back, or *)
(* change its type or parties when no update set out to.                    *)
Kept ==
  /\ rewritten \subseteq rewritten'
  /\ \A i \in Invoices : invoices[i] # None => invoices'[i] # None
  /\ \A i \in Invoices : invoices[i] = Gone => invoices'[i] = Gone
  /\ \A i \in Stored : i \in Stored' \ rewritten' =>
       \A f \in PartyFields \cup {"type", "series"} : invoices'[i][f] = invoices[i][f]

(* A document there before and after a step was not deleted before.         *)
LEMMA StoredLasts ==
  ASSUME Kept, NEW i \in Stored', invoices[i] # None
  PROVE  i \in Stored
  BY DEF Kept, Stored

(* A link that can be made can be made after the step.                      *)
LEMMA LinkLasts ==
  ASSUME Kept, NEW q, NEW i, LinkOK(q, i)
  PROVE  /\ q \in Invoices /\ invoices'[q] # None
         /\ i \in Invoices /\ invoices'[i] # None
         /\ {q, i} \subseteq Stored' \ rewritten' =>
              /\ invoices'[q].type = "quote"
              /\ invoices'[i].type = "invoice" /\ invoices'[i].series = "invoice"
              /\ \A f \in PartyFields : invoices'[i][f] = invoices'[q][f]
  <1>1. /\ q \in Invoices /\ invoices'[q] # None
        /\ i \in Invoices /\ invoices'[i] # None
    BY DEF Kept, LinkOK
  <1>2. ASSUME q \in Stored' \ rewritten', i \in Stored' \ rewritten'
        PROVE  /\ invoices'[q].type = "quote"
               /\ invoices'[i].type = "invoice" /\ invoices'[i].series = "invoice"
               /\ \A f \in PartyFields : invoices'[i][f] = invoices'[q][f]
    <2>1. q \in Stored \ rewritten /\ i \in Stored \ rewritten
      BY <1>2, StoredLasts DEF LinkOK, Kept
    <2>2. \A f \in PartyFields \cup {"type", "series"} :
            invoices'[i][f] = invoices[i][f] /\ invoices'[q][f] = invoices[q][f]
      BY <1>2, <2>1 DEF Kept
    <2> QED  BY <2>1, <2>2 DEF LinkOK
  <1> QED  BY <1>1, <1>2

(* A handler that does not step goes on relying on what it has read.        *)
LEMMA RelianceLasts ==
  ASSUME Kept, NEW k \in Jobs, Relies(job[k]), job'[k] = job[k]
  PROVE  Relies(job[k])'
  <1>1. ASSUME job[k].op \in Numberings
        PROVE  /\ job'[k] \in NumberingJob /\ job'[k].doc.converted = None
               /\ job'[k].doc.series = job'[k].doc.type
               /\ job'[k].quote # None => QuoteOK(job[k].quote, job[k].doc)'
    <2>1. job[k] \in NumberingJob /\ job[k].doc.converted = None
          /\ job[k].doc.series = job[k].doc.type
      BY <1>1 DEF Relies
    <2>2. ASSUME job[k].quote # None
          PROVE  QuoteOK(job[k].quote, job[k].doc)'
      <3> DEFINE q == job[k].quote
                 doc == job[k].doc
      <3>1. QuoteOK(q, doc)
        BY <1>1, <2>2 DEF Relies
      <3> HIDE DEF q, doc
      <3>2. q \in Invoices /\ invoices'[q] # None /\ doc.type = "invoice"
        BY <3>1 DEF QuoteOK, Kept
      <3>3. q \in Stored' \ rewritten' =>
              invoices'[q].type = "quote" /\ \A f \in PartyFields : doc[f] = invoices'[q][f]
        BY <3>1, <3>2, StoredLasts DEF QuoteOK, Kept
      <3> QED  BY <3>2, <3>3 DEF QuoteOK, q, doc
    <2> QED  BY <2>1, <2>2
  <1>2. ASSUME job[k].op \in Saves
        PROVE  /\ job'[k].id \in Invoices /\ invoices'[job'[k].id] # None
               /\ SendOK(job[k].id, job[k].sends)'
    <2>1. /\ job[k].id \in Invoices /\ invoices[job[k].id] # None
          /\ SendOK(job[k].id, job[k].sends)
      BY <1>2 DEF Relies
    <2>2. ASSUME "converted" \in DOMAIN job[k].sends, job[k].sends["converted"] # None,
                 job[k].id \notin rewritten'
          PROVE  LinkOK(job[k].id, job[k].sends["converted"])'
      <3> DEFINE q == job[k].id
                 i == job[k].sends["converted"]
      <3>1. LinkOK(q, i)
        BY <2>1, <2>2 DEF SendOK, Kept
      <3> HIDE DEF q, i
      <3>2. q' = q /\ i' = i
        BY DEF q, i
      <3> QED  BY <3>1, <3>2, LinkLasts DEF LinkOK, q, i
    <2> QED  BY <2>1, <2>2 DEF SendOK, SendTyped, Typed, Kept
  <1>3. ASSUME job[k].op = "invoice.delete"
        PROVE  job'[k].id \in Invoices /\ invoices'[job'[k].id] # None
    BY <1>3 DEF Relies, Kept
  <1> QED  BY <1>1, <1>2, <1>3 DEF Relies

(* What a handler has read in this step, it relies on.                      *)
LEMMA NewReliance ==
  ASSUME UNCHANGED <<invoices, rewritten>>, NEW k \in Jobs, NEW s, Relies(s), job'[k] = s
  PROVE  Relies(job[k])'
  BY DEF Relies, QuoteOK, SendOK, SendTyped, Typed, LinkOK, Stored

----------------------------------------------------------------------------
(* The state of a job that becomes s.                                       *)
LEMMA Becomes ==
  ASSUME Shapes, NEW j \in Jobs, NEW s, Become(j, s)
  PROVE  /\ job' = [k \in Jobs |-> job'[k]]
         /\ job'[j] = s
         /\ \A k \in Jobs \ {j} : job'[k] = job[k]
  BY DEF Shapes, Become

(* How many numberings are in flight after the step of a job.               *)
LEMMA NumberingCount ==
  ASSUME Shapes, NEW j \in Jobs, NEW s, Become(j, s)
  PROVE  /\ Cardinality(NumberingJobs) \in Nat /\ Cardinality(NumberingJobs') \in Nat
         /\ s.op \in Numberings => Cardinality(NumberingJobs') <= Cardinality(NumberingJobs) + 1
         /\ s.op \notin Numberings \/ job[j].op \in Numberings =>
              Cardinality(NumberingJobs') <= Cardinality(NumberingJobs)
         /\ s.op \notin Numberings /\ job[j].op \in Numberings =>
              Cardinality(NumberingJobs') = Cardinality(NumberingJobs) - 1
  <1> DEFINE N == NumberingJobs
             M == NumberingJobs'
  <1>1. IsFiniteSet(N) /\ IsFiniteSet(M)
    BY InvoiceAssumption, FS_Subset DEF NumberingJobs
  <1>2. M = IF s.op \in Numberings THEN N \cup {j} ELSE N \ {j}
    BY Becomes DEF NumberingJobs
  <1>3. j \in N <=> job[j].op \in Numberings
    BY DEF NumberingJobs
  <1>4. Cardinality(N) \in Nat /\ Cardinality(M) \in Nat
    BY <1>1, FS_CardinalityType
  <1>5. /\ Cardinality(N \cup {j}) = IF j \in N THEN Cardinality(N) ELSE Cardinality(N) + 1
        /\ Cardinality(N \ {j}) = IF j \in N THEN Cardinality(N) - 1 ELSE Cardinality(N)
    BY <1>1, FS_AddElement, FS_RemoveElement
  <1> HIDE DEF N, M
  <1>6. CASE s.op \in Numberings
    BY <1>2, <1>3, <1>4, <1>5, <1>6 DEF N, M
  <1>7. CASE s.op \notin Numberings
    BY <1>2, <1>3, <1>4, <1>5, <1>7 DEF N, M
  <1> QED  BY <1>6, <1>7

(* Documents are finitely many.                                             *)
LEMMA Counts ==
  /\ Cardinality(Unused) \in Nat
  /\ \A type : IsFiniteSet(Series(type)) /\ Count(type) \in Nat
  <1>1. IsFiniteSet(Unused)
    BY InvoiceAssumption, FS_Subset DEF Unused
  <1>2. \A type : IsFiniteSet(Series(type))
    <2> SUFFICES ASSUME NEW type
                 PROVE  IsFiniteSet(Series(type))
      OBVIOUS
    <2>1. Series(type) \in SUBSET Invoices
      BY DEF Series, Stored
    <2> QED  BY <2>1, InvoiceAssumption, FS_Subset
  <1> QED  BY <1>1, <1>2, FS_CardinalityType DEF Count

----------------------------------------------------------------------------
(* A handler that only reads; an update records what it rewrites.           *)
LEMMA CallStep ==
  ASSUME Inv, UNCHANGED <<invoices, faults>>,
         rewritten \subseteq rewritten', rewritten' \subseteq Invoices,
         NEW j \in Jobs, NEW s, Become(j, s), Relies(job[j])',
         s.op \in Numberings => job[j].op \in Numberings \/ Room,
         s.op = "invoice.insert" /\ Undeleted => \A type \in Types :
           s.doc.series = type => s.doc.number \in 1..(Count(type) + 1)
  PROVE  Inv'
  <1>1. Kept
    BY DEF Kept
  <1>2. Stored' = Stored /\ Unused' = Unused /\ (Undeleted' <=> Undeleted)
    BY DEF Stored, Unused, Undeleted
  <1>3. \A type : Series(type)' = Series(type) /\ Count(type)' = Count(type)
    BY <1>2 DEF Series, Count
  <1>4. Shapes'
    <2>1. \A k \in Jobs : Relies(job[k])'
      BY <1>1, Becomes, RelianceLasts DEF Inv, Shapes
    <2> QED  BY <2>1, Becomes DEF Inv, Shapes, InvoiceTypeOK
  <1>5. Linked'
    <2> SUFFICES ASSUME NEW q \in Stored \ rewritten', invoices[q].converted # None
                 PROVE  LinkOK(q, invoices[q].converted)'
      BY <1>2 DEF Linked
    <2>1. LinkOK(q, invoices[q].converted)
      BY DEF Inv, Linked
    <2> QED  BY <1>2, <2>1 DEF LinkOK
  <1>6. RoomLeft'
    <2>1. Room => Cardinality(NumberingJobs) < Cardinality(Unused)
      BY DEF Room, NumberingJobs, Numberings
    <2>2. Cardinality(NumberingJobs) <= Cardinality(Unused)
      BY DEF Inv, RoomLeft
    <2>3. Shapes
      BY DEF Inv
    <2> QED  BY <1>2, <2>1, <2>2, <2>3, Counts, NumberingCount DEF RoomLeft
  <1>7. Contiguous'
    BY <1>3 DEF Inv, Contiguous
  <1>8. NextNumbers'
    <2> SUFFICES ASSUME Undeleted', NEW k \in Jobs, job'[k].op = "invoice.insert",
                        NEW type \in Types, job'[k].doc.series = type
                 PROVE  job'[k].doc.number \in 1..(Count(type)' + 1)
      BY DEF NextNumbers
    <2>1. Undeleted /\ Count(type)' = Count(type)
      BY <1>2, <1>3
    <2>2. job'[k].doc.number \in 1..(Count(type) + 1)
      BY <2>1, Becomes DEF Inv, NextNumbers
    <2> QED  BY <2>1, <2>2
  <1> QED  BY <1>4, <1>5, <1>6, <1>7, <1>8 DEF Inv

(* A handler that only reads and rewrites nothing.                          *)
LEMMA JobStep ==
  ASSUME Inv, UNCHANGED <<invoices, rewritten, faults>>,
         NEW j \in Jobs, NEW s, Become(j, s), Relies(s),
         s.op \in Numberings => job[j].op \in Numberings \/ Room,
         s.op = "invoice.insert" /\ Undeleted => \A type \in Types :
           s.doc.series = type => s.doc.number \in 1..(Count(type) + 1)
  PROVE  Inv'
  <1>1. rewritten \subseteq Invoices
    BY DEF Inv, Shapes, InvoiceTypeOK
  <1>2. Relies(job[j])'
    BY Becomes, NewReliance DEF Inv
  <1> QED  BY <1>1, <1>2, CallStep

----------------------------------------------------------------------------
(* A read number is the next one.                                           *)
LEMMA HighestIsNat ==
  ASSUME Inv, NEW type \in Types
  PROVE  /\ Highest(type) \in Nat
         /\ Undeleted => Highest(type) <= Count(type)
  <1> DEFINE N == Numbered(type)
             numbers == {invoices[i].number : i \in N}
  <1>1. N \subseteq Series(type) /\ IsFiniteSet(N) /\ Count(type) \in Nat
    BY Counts, FS_Subset DEF Numbered
  <1>2. \A i \in N : invoices[i].number \in Nat
    BY DEF Numbered, Series, Stored, Inv, Shapes, InvoiceTypeOK, InvoiceDoc
  <1>3. numbers \in SUBSET Nat /\ IsFiniteSet(numbers)
    <2> DEFINE f == [i \in N |-> invoices[i].number]
    <2>1. f \in Surjection(N, numbers)
      BY DEF Surjection
    <2> HIDE DEF f, N
    <2>2. IsFiniteSet(numbers)
      BY <1>1, <2>1, FS_Surjection
    <2> QED  BY <1>2, <2>2
  <1>4. CASE N = {}
    <2>1. Highest(type) = 0
      BY <1>4 DEF Highest
    <2> QED  BY <1>1, <2>1
  <1>5. CASE N # {}
    <2>1. Highest(type) = Max(numbers)
      BY <1>5 DEF Highest
    <2>2. numbers # {}
      BY <1>5
    <2>3. Undeleted => numbers \subseteq 1..Count(type)
      <3>1. Undeleted => {invoices[i].number : i \in Series(type)} = 1..Count(type)
        BY DEF Inv, Contiguous, Undeleted, Count, Types
      <3> QED  BY <1>1, <3>1
    <2> HIDE DEF numbers
    <2>4. Max(numbers) \in numbers
      BY <1>3, <2>2, MaxInSet
    <2>5. Highest(type) \in Nat
      BY <1>3, <2>1, <2>4
    <2>6. ASSUME Undeleted
          PROVE  Highest(type) <= Count(type)
      <3>1. Highest(type) \in 1..Count(type)
        BY <2>1, <2>3, <2>4, <2>6
      <3> QED  BY <1>1, <3>1
    <2> QED  BY <2>5, <2>6
  <1> QED  BY <1>4, <1>5

(* The read: the number goes one beyond the highest.                        *)
LEMMA ReadNumberStep ==
  ASSUME Inv, NEW j \in Jobs, ReadNumber(j)
  PROVE  Inv'
  <1> DEFINE h == Highest(job[j].doc.type)
             s == [job[j] EXCEPT !.op = "invoice.insert", !.doc.number = h + 1]
  <1>1. /\ job[j].op = "invoice.number" /\ Become(j, s)
        /\ UNCHANGED <<invoices, rewritten, faults>> /\ Relies(job[j])
    BY DEF ReadNumber, Inv, Shapes
  <1>2. /\ job[j] \in NumberingJob /\ job[j].doc.converted = None
        /\ job[j].doc.series = job[j].doc.type
        /\ job[j].quote # None => QuoteOK(job[j].quote, job[j].doc)
    BY <1>1 DEF Relies, Numberings, Saves
  <1>9. job[j].doc \in InvoiceDoc /\ job[j].doc.type \in Types
    BY <1>2 DEF NumberingJob, InvoiceDoc, Types
  <1>3. h \in Nat /\ (Undeleted => h <= Count(job[j].doc.type))
    BY <1>9, HighestIsNat
  <1>4. Count(job[j].doc.type) \in Nat
    BY Counts
  <1> DEFINE d == [job[j].doc EXCEPT !.number = h + 1]
  <1>5. /\ d \in InvoiceDoc /\ d.number = h + 1 /\ d.converted = None
        /\ d.type = job[j].doc.type /\ d.series = d.type
        /\ \A f \in PartyFields : d[f] = job[j].doc[f]
    <2> HIDE DEF h
    <2> QED  BY <1>2, <1>9, <1>3 DEF InvoiceDoc, PartyFields
  <1>6. /\ s.op = "invoice.insert" /\ s.doc = d /\ s.quote = job[j].quote
        /\ d \in InvoiceDoc => s \in NumberingJob
    <2> HIDE DEF h
    <2> QED  BY <1>2 DEF NumberingJob, Numberings
  <1> HIDE DEF s, d, h
  <1>7. Relies(s)
    <2>1. s.quote # None => QuoteOK(s.quote, d)
      BY <1>2, <1>5, <1>6 DEF QuoteOK
    <2> QED  BY <1>5, <1>6, <2>1 DEF Relies, Numberings, Saves
  <1>8. Undeleted => \A type \in Types :
          s.doc.series = type => s.doc.number \in 1..(Count(type) + 1)
    BY <1>3, <1>4, <1>5, <1>6
  <1> QED  BY <1>1, <1>6, <1>7, <1>8, JobStep DEF Numberings

(* The insert is refused: the number is read again, or the handler ends.    *)
LEMMA NumberTakenStep ==
  ASSUME Inv, NEW j \in Jobs, NumberTaken(j)
  PROVE  Inv'
  <1> DEFINE s == [job[j] EXCEPT !.op = "invoice.number", !.attempts = @ + 1]
  <1>1. /\ job[j].op = "invoice.insert" /\ UNCHANGED <<invoices, rewritten, faults>>
        /\ Become(j, Idle) \/ Become(j, s)
        /\ Relies(job[j])
    BY DEF NumberTaken, Finish, Inv, Shapes
  <1>2. /\ job[j] \in NumberingJob /\ job[j].doc.converted = None
        /\ job[j].doc.series = job[j].doc.type
        /\ job[j].quote # None => QuoteOK(job[j].quote, job[j].doc)
    BY <1>1 DEF Relies, Numberings, Saves
  <1>3. /\ s \in NumberingJob /\ s.op = "invoice.number"
        /\ s.doc = job[j].doc /\ s.quote = job[j].quote
    <2> DEFINE n == job[j].attempts + 1
    <2>1. n \in Nat /\ s = [job[j] EXCEPT !.op = "invoice.number", !.attempts = n]
      BY <1>2 DEF NumberingJob
    <2> HIDE DEF n, s
    <2> QED  BY <1>2, <2>1 DEF NumberingJob, Numberings
  <1> HIDE DEF s
  <1>4. Relies(s)
    BY <1>2, <1>3 DEF Relies, Numberings, Saves
  <1>5. Relies(Idle) /\ Idle.op = "idle"
    BY DEF Relies, Idle, Numberings, Saves
  <1> QED  BY <1>1, <1>3, <1>4, <1>5, JobStep DEF Numberings

(* The insert: a document with the next number takes an id nobody uses.     *)
LEMMA InsertStep ==
  ASSUME Inv, NEW j \in Jobs, InsertInvoice(j)
  PROVE  Inv'
  <1> DEFINE m == Min(Unused)
             doc == job[j].doc
             s == IF job[j].quote = None THEN Idle ELSE Link(job[j].quote, m)
  <1>1. /\ job[j].op = "invoice.insert" /\ ~Taken(doc)
        /\ invoices' = [invoices EXCEPT ![m] = doc] /\ UNCHANGED <<rewritten, faults>>
        /\ Become(j, s)
    BY DEF InsertInvoice, Put, Finish
  <1>2. /\ job[j] \in NumberingJob /\ doc \in InvoiceDoc /\ doc.converted = None
        /\ doc.series = doc.type
        /\ job[j].quote # None => QuoteOK(job[j].quote, doc)
        /\ doc.type \in Types /\ doc.number \in Nat
    BY <1>1 DEF Inv, Shapes, Relies, Numberings, NumberingJob, InvoiceDoc, Types
  <1>3. s.op \in {"idle", "invoice.link"} /\ s.op \notin Numberings
    BY DEF Idle, Link, Numberings
  <1>4. Cardinality(NumberingJobs') = Cardinality(NumberingJobs) - 1
        /\ Cardinality(NumberingJobs) \in Nat /\ Cardinality(NumberingJobs') \in Nat
    <2>1. job[j].op \in Numberings /\ Shapes
      BY <1>1 DEF Numberings, Inv
    <2> HIDE DEF s
    <2> QED  BY <1>1, <1>3, <2>1, NumberingCount
  <1>5. m \in Unused
    <2>1. Unused # {}
      <3>1. Cardinality(Unused) # 0
        BY <1>4, Counts DEF Inv, RoomLeft
      <3> QED  BY <3>1, FS_EmptySet
    <2>2. Unused \in SUBSET Nat
      BY InvoiceAssumption DEF Unused
    <2> QED  BY <2>1, <2>2, MinInSet
  <1>6. m \in Invoices /\ invoices[m] = None
    BY <1>5 DEF Unused
  <1>7. doc # None /\ doc # Gone
    BY <1>2, NullIsNoInvoice
  <1> HIDE DEF m, doc
  <1>8. /\ invoices \in [Invoices -> InvoiceDoc \cup {None, Gone}]
        /\ invoices' \in [Invoices -> InvoiceDoc \cup {None, Gone}]
        /\ invoices'[m] = doc
        /\ \A i \in Invoices \ {m} : invoices'[i] = invoices[i]
    BY <1>1, <1>2, <1>6 DEF Inv, Shapes, InvoiceTypeOK
  <1>9. Stored' = Stored \cup {m} /\ m \notin Stored /\ Unused' = Unused \ {m}
    BY <1>6, <1>7, <1>8 DEF Stored, Unused
  <1>10. Kept
    <2>1. /\ rewritten' = rewritten
          /\ \A i \in Invoices : invoices[i] # None => i # m /\ invoices'[i] = invoices[i]
      BY <1>1, <1>6, <1>8
    <2>2. \A i \in Stored : invoices'[i] = invoices[i]
      BY <2>1 DEF Stored
    <2>3. None # Gone
      BY NullIsNoInvoice
    <2> HIDE DEF s
    <2> QED  BY <2>1, <2>2, <2>3 DEF Kept
  <1>11. Undeleted' => Undeleted
    BY <1>6, <1>8, NullIsNoInvoice DEF Undeleted
  <1>12. \A type \in Types :
           /\ Count(type)' \in Nat
           /\ type = doc.series => /\ Series(type)' = Series(type) \cup {m}
                                 /\ Count(type)' = Count(type) + 1
           /\ type # doc.series => /\ Series(type)' = Series(type)
                                 /\ Count(type)' = Count(type)
    <2> SUFFICES ASSUME NEW type \in Types
                 PROVE  /\ Count(type)' \in Nat
                        /\ type = doc.series => /\ Series(type)' = Series(type) \cup {m}
                                              /\ Count(type)' = Count(type) + 1
                        /\ type # doc.series => /\ Series(type)' = Series(type)
                                              /\ Count(type)' = Count(type)
      OBVIOUS
    <2>1. Series(type)' = {i \in Stored' : invoices'[i].series = type}
      BY DEF Series
    <2>2. \A i \in Stored : invoices'[i] = invoices[i]
      BY <1>8, <1>9 DEF Stored
    <2>3. Series(type)' = IF type = doc.series THEN Series(type) \cup {m} ELSE Series(type)
      BY <1>8, <1>9, <2>1, <2>2 DEF Series
    <2>4. m \notin Series(type) /\ IsFiniteSet(Series(type)) /\ Count(type) \in Nat
      BY <1>9, Counts DEF Series
    <2>5. Count(type)' = Cardinality(Series(type)')
      BY DEF Count
    <2>6. Cardinality(Series(type) \cup {m}) = Count(type) + 1
      BY <2>4, FS_AddElement DEF Count
    <2> QED  BY <2>3, <2>4, <2>5, <2>6 DEF Count
  <1>13. Shapes'
    <2>1. \A k \in Jobs \ {j} : Relies(job[k])'
      <3> HIDE DEF s
      <3> QED  BY <1>1, <1>10, Becomes, RelianceLasts DEF Inv, Shapes
    <2>2. Relies(job[j])'
      <3>1. CASE job[j].quote = None
        <4>1. job'[j] = Idle
          BY <1>1, <3>1, Becomes DEF Inv
        <4> QED  BY <4>1 DEF Relies, Idle, Numberings, Saves
      <3>2. CASE job[j].quote # None
        <4> DEFINE q == job[j].quote
        <4>1. QuoteOK(q, doc)
          BY <1>2, <3>2
        <4>2. Become(j, Link(q, m))
          BY <1>1, <3>2 DEF m
        <4>3. job'[j] = Link(q, m)
          BY <4>2, Becomes DEF Inv
        <4> HIDE DEF q
        <4>4. q \in Invoices /\ q # m /\ invoices'[q] # None
          BY <1>6, <1>8, <4>1 DEF QuoteOK
        <4>5. q \in Stored' => q \in Stored /\ invoices'[q] = invoices[q]
          BY <1>8, <1>9, <4>4
        <4>6. /\ {q, m} \subseteq Stored' \ rewritten' =>
                   /\ invoices'[q].type = "quote"
                   /\ invoices'[m].type = "invoice" /\ invoices'[m].series = "invoice"
                   /\ \A f \in PartyFields : invoices'[m][f] = invoices'[q][f]
              /\ invoices'[m] # None
          BY <1>1, <1>2, <1>7, <1>8, <4>1, <4>5 DEF QuoteOK
        <4>7. /\ job'[j].op = "invoice.link" /\ job'[j].id = q
              /\ DOMAIN job'[j].sends = {"converted"} /\ job'[j].sends["converted"] = m
          BY <4>3 DEF Link
        <4>8. SendTyped(job[j].sends)'
          BY <1>6, <4>7 DEF SendTyped, Typed, SendFields, AmountFields
        <4>9. LinkOK(job[j].id, job[j].sends["converted"])'
          BY <1>6, <4>4, <4>6, <4>7 DEF LinkOK
        <4> QED  BY <4>4, <4>7, <4>8, <4>9 DEF Relies, SendOK, Numberings, Saves
      <3> QED  BY <3>1, <3>2
    <2>3. job' = [k \in Jobs |-> job'[k]]
      <3> HIDE DEF s
      <3> QED  BY <1>1, Becomes DEF Inv
    <2>4. InvoiceTypeOK'
      BY <1>1, <1>8 DEF Inv, Shapes, InvoiceTypeOK
    <2> QED  BY <2>1, <2>2, <2>3, <2>4 DEF Shapes
  <1>14. Linked'
    <2> SUFFICES ASSUME NEW q \in Stored' \ rewritten', invoices'[q].converted # None
                 PROVE  LinkOK(q, invoices[q].converted)'
      BY DEF Linked
    <2>1. q # m
      BY <1>2, <1>8
    <2>2. q \in Stored /\ invoices'[q] = invoices[q]
      BY <1>8, <1>9, <2>1 DEF Stored
    <2>3. LinkOK(q, invoices[q].converted)
      BY <1>1, <2>2 DEF Inv, Linked
    <2> DEFINE i == invoices[q].converted
    <2> HIDE DEF i
    <2>4. LinkOK(q, i) /\ invoices'[q].converted = i
      BY <2>2, <2>3 DEF i
    <2> QED  BY <1>10, <2>4, LinkLasts DEF LinkOK
  <1>15. RoomLeft'
    <2>1. IsFiniteSet(Unused)
      BY InvoiceAssumption, FS_Subset DEF Unused
    <2>2. Cardinality(Unused') = Cardinality(Unused) - 1
      BY <1>5, <1>9, <2>1, FS_RemoveElement
    <2> QED  BY <1>4, <2>2, Counts DEF Inv, RoomLeft
  <1>16. ASSUME Undeleted'
         PROVE  /\ \A type \in Types :
                     {invoices'[i].number : i \in Series(type)'} = 1..(Count(type)')
                /\ NextNumbers'
    <2>1. Undeleted
      BY <1>11, <1>16
    <2>2. \A type \in Types :
            {invoices[i].number : i \in Series(type)} = 1..Count(type) /\ Count(type) \in Nat
      BY <2>1, Counts DEF Inv, Contiguous, Undeleted, Count, Types
    <2>3. doc.number = Count(doc.series) + 1
      <3>1. doc.number \in 1..(Count(doc.series) + 1)
        BY <1>1, <1>2, <2>1 DEF Inv, NextNumbers, doc
      <3>2. doc.number \notin 1..Count(doc.series)
        BY <1>1, <1>2, <2>2 DEF Taken
      <3> QED  BY <1>2, <2>2, <3>1, <3>2
    <2>4. ASSUME NEW type \in Types
          PROVE  {invoices'[i].number : i \in Series(type)'} = 1..(Count(type)')
      <3>1. \A i \in Series(type) : invoices'[i] = invoices[i]
        BY <1>8, <1>9 DEF Series, Stored
      <3>2. CASE type = doc.series
        <4>1. Series(type)' = Series(type) \cup {m} /\ Count(type)' = Count(type) + 1
          BY <1>12, <3>2
        <4>2. {invoices'[i].number : i \in Series(type)'}
                = {invoices[i].number : i \in Series(type)} \cup {doc.number}
          BY <1>8, <3>1, <4>1
        <4>3. 1..(Count(type) + 1) = 1..Count(type) \cup {Count(type) + 1}
          BY <2>2
        <4> QED  BY <2>2, <2>3, <3>2, <4>1, <4>2, <4>3
      <3>3. CASE type # doc.series
        <4>1. Series(type)' = Series(type) /\ Count(type)' = Count(type)
          BY <1>12, <3>3
        <4>2. {invoices'[i].number : i \in Series(type)'}
                = {invoices[i].number : i \in Series(type)}
          BY <3>1, <4>1
        <4> QED  BY <2>2, <4>1, <4>2
      <3> QED  BY <3>2, <3>3
    <2>5. NextNumbers'
      <3> SUFFICES ASSUME NEW k \in Jobs, job'[k].op = "invoice.insert",
                          NEW type \in Types, job'[k].doc.series = type
                   PROVE  job'[k].doc.number \in 1..(Count(type)' + 1)
        BY DEF NextNumbers
      <3>1. k # j /\ job'[k] = job[k]
        <4>1. Shapes /\ job'[j] = s
          BY <1>1, Becomes DEF Inv
        <4> HIDE DEF s
        <4> QED  BY <1>1, <1>3, <4>1, Becomes
      <3>2. job[k].doc.number \in 1..(Count(type) + 1)
        BY <2>1, <3>1 DEF Inv, NextNumbers
      <3>3. Count(type) \in Nat /\ Count(type)' \in Nat /\ Count(type) <= Count(type)'
        BY <1>12, <2>2
      <3> QED  BY <3>1, <3>2, <3>3
    <2> QED  BY <2>4, <2>5
  <1>17. Contiguous'
    BY <1>16 DEF Contiguous, Undeleted, Count, Types
  <1>18. NextNumbers'
    <2>1. Undeleted' => NextNumbers'
      BY <1>16
    <2> QED  BY <2>1 DEF NextNumbers
  <1> QED  BY <1>13, <1>14, <1>15, <1>17, <1>18 DEF Inv

(* A step of a handler that writes no new document: what has been said of   *)
(* the documents that stay, and of the ids that are left, goes on.          *)
LEMMA WriteStep ==
  ASSUME Inv, Kept, NEW j \in Jobs, Become(j, Idle), UNCHANGED <<rewritten, faults>>,
         invoices' \in [Invoices -> InvoiceDoc \cup {None, Gone}],
         Unused' = Unused,
         Linked',
         Undeleted' => Undeleted /\ \A type \in Types :
           /\ Series(type)' = Series(type)
           /\ \A i \in Series(type) : invoices'[i].number = invoices[i].number
  PROVE  Inv'
  <1>1. /\ Shapes /\ job'[j] = Idle /\ \A k \in Jobs \ {j} : job'[k] = job[k]
        /\ job' = [k \in Jobs |-> job'[k]]
    BY Becomes DEF Inv
  <1>2. Idle.op = "idle" /\ Idle.op \notin Numberings \cup Saves
    BY DEF Idle, Numberings, Saves
  <1>3. Shapes'
    <2>1. \A k \in Jobs \ {j} : Relies(job[k])'
      BY <1>1, RelianceLasts DEF Shapes
    <2>2. Relies(job[j])'
      BY <1>1, <1>2 DEF Relies, Numberings, Saves
    <2> QED  BY <1>1, <2>1, <2>2 DEF Shapes, InvoiceTypeOK
  <1>4. RoomLeft'
    <2>1. Cardinality(NumberingJobs') <= Cardinality(NumberingJobs)
          /\ Cardinality(NumberingJobs') \in Nat /\ Cardinality(NumberingJobs) \in Nat
      BY <1>1, <1>2, NumberingCount
    <2> QED  BY <2>1, Counts DEF Inv, RoomLeft
  <1>5. ASSUME Undeleted'
        PROVE  /\ \A type \in Types :
                    {invoices'[i].number : i \in Series(type)'} = 1..(Count(type)')
               /\ NextNumbers'
    <2>1. Undeleted
      BY <1>5
    <2>2. \A type \in Types :
            /\ Series(type)' = Series(type) /\ Count(type)' = Count(type)
            /\ \A i \in Series(type) : invoices'[i].number = invoices[i].number
      BY <1>5 DEF Count
    <2>3. \A type \in Types : {invoices[i].number : i \in Series(type)} = 1..Count(type)
      BY <2>1 DEF Inv, Contiguous, Undeleted, Count, Types
    <2>4. \A type \in Types : {invoices'[i].number : i \in Series(type)'} = 1..(Count(type)')
      <3> SUFFICES ASSUME NEW type \in Types
                   PROVE  {invoices'[i].number : i \in Series(type)'} = 1..(Count(type)')
        OBVIOUS
      <3>1. {invoices'[i].number : i \in Series(type)'}
              = {invoices[i].number : i \in Series(type)}
        BY <2>2
      <3> QED  BY <2>2, <2>3, <3>1
    <2>5. NextNumbers'
      <3> SUFFICES ASSUME NEW k \in Jobs, job'[k].op = "invoice.insert",
                          NEW type \in Types, job'[k].doc.series = type
                   PROVE  job'[k].doc.number \in 1..(Count(type)' + 1)
        BY DEF NextNumbers
      <3>1. job'[k] = job[k]
        BY <1>1, <1>2
      <3>2. job[k].doc.number \in 1..(Count(type) + 1)
        BY <2>1, <3>1 DEF Inv, NextNumbers
      <3> QED  BY <2>2, <3>1, <3>2
    <2> QED  BY <2>4, <2>5
  <1>6. Contiguous'
    BY <1>5 DEF Contiguous, Undeleted, Count, Types
  <1>7. NextNumbers'
    <2>1. Undeleted' => NextNumbers'
      BY <1>5
    <2> QED  BY <2>1 DEF NextNumbers
  <1> QED  BY <1>3, <1>4, <1>6, <1>7 DEF Inv

(* save: the number, the type and the parties stay; a link that it sends    *)
(* leads to an invoice with the parties of the quote.                       *)
LEMMA SaveStep ==
  ASSUME Inv, NEW j \in Jobs, SaveInvoice(j)
  PROVE  Inv'
  <1> DEFINE id == job[j].id
             sends == job[j].sends
             d == Updated(invoices[id], sends)
  <1>1. /\ Become(j, Idle) /\ UNCHANGED <<rewritten, faults>>
        /\ id \in Stored => invoices' = [invoices EXCEPT ![id] = d]
        /\ id \notin Stored => UNCHANGED invoices
        /\ job[j].op \in Saves
    BY DEF SaveInvoice, Put, Finish, Saves
  <1>2. id \in Invoices /\ invoices[id] # None /\ SendOK(id, sends)
    BY <1>1 DEF Inv, Shapes, Relies
  <1>3. invoices \in [Invoices -> InvoiceDoc \cup {None, Gone}]
    BY DEF Inv, Shapes, InvoiceTypeOK
  <1>4. CASE id \notin Stored
    <2>1. UNCHANGED <<invoices, rewritten, faults>>
      BY <1>1, <1>4
    <2>2. Relies(Idle) /\ Idle.op = "idle"
      BY DEF Relies, Idle, Numberings, Saves
    <2> QED  BY <1>1, <2>1, <2>2, JobStep DEF Numberings
  <1>5. CASE id \in Stored
    <2>1. invoices[id] \in InvoiceDoc
      BY <1>3, <1>5 DEF Stored
    <2>2. /\ d \in InvoiceDoc
          /\ \A f \in {"number", "series", "provider"} : d[f] = invoices[id][f]
          /\ id \notin rewritten =>
               \A f \in PartyFields \cup {"type"} : d[f] = invoices[id][f]
          /\ d.converted = IF "converted" \in DOMAIN sends
                           THEN sends["converted"] ELSE invoices[id].converted
      <3>1. /\ SendTyped(sends)
            /\ DOMAIN sends \cap {"type", "order", "customer"} # {} => id \in rewritten
        BY <1>2 DEF SendOK
      <3> HIDE DEF sends, id
      <3>2. /\ \A f \in {"number", "series", "provider"} : d[f] = invoices[id][f]
            /\ \A f \in PartyFields \cup {"type"} :
                 f \notin DOMAIN sends => d[f] = invoices[id][f]
        BY <2>1, <3>1, UpdatedOK
      <3>3. "provider" \notin DOMAIN sends
        BY <3>1 DEF SendTyped, SendFields, AmountFields
      <3>4. id \notin rewritten => \A f \in PartyFields \cup {"type"} : d[f] = invoices[id][f]
        BY <3>1, <3>2, <3>3 DEF PartyFields
      <3> QED  BY <2>1, <3>1, <3>2, <3>4, UpdatedOK
    <2> HIDE DEF d, id, sends
    <2>3. /\ invoices' \in [Invoices -> InvoiceDoc \cup {None, Gone}]
          /\ invoices'[id] = d
          /\ \A i \in Invoices \ {id} : invoices'[i] = invoices[i]
      BY <1>1, <1>2, <1>3, <1>5, <2>2
    <2>4. d # None /\ d # Gone /\ invoices[id] # Gone
      BY <1>5, <2>2, NullIsNoInvoice DEF Stored
    <2>5. Stored' = Stored /\ Unused' = Unused
      BY <1>2, <2>3, <2>4 DEF Stored, Unused
    <2>6. \A i \in Stored :
            /\ \A f \in {"number", "series"} : invoices'[i][f] = invoices[i][f]
            /\ i \notin rewritten =>
                 \A f \in PartyFields \cup {"type", "series"} : invoices'[i][f] = invoices[i][f]
      BY <2>2, <2>3 DEF Stored
    <2>7. Kept
      <3>1. \A i \in Invoices : invoices[i] # None => invoices'[i] # None
        BY <2>3, <2>4
      <3>2. \A i \in Invoices : invoices[i] = Gone => invoices'[i] = Gone
        BY <2>3, <2>4
      <3> QED  BY <1>1, <2>6, <3>1, <3>2 DEF Kept
    <2>8. Linked'
      <3> SUFFICES ASSUME NEW q \in Stored \ rewritten, invoices'[q].converted # None
                   PROVE  LinkOK(q, invoices[q].converted)'
        BY <1>1, <2>5 DEF Linked
      <3> DEFINE i == invoices'[q].converted
      <3>1. LinkOK(q, i)
        <4>1. CASE q = id /\ "converted" \in DOMAIN sends
          <5>1. i = sends["converted"]
            BY <2>2, <2>3, <4>1
          <5> QED  BY <1>2, <4>1, <5>1 DEF SendOK
        <4>2. CASE ~(q = id /\ "converted" \in DOMAIN sends)
          <5>1. i = invoices[q].converted
            BY <2>2, <2>3, <4>2 DEF Stored
          <5> QED  BY <5>1 DEF Inv, Linked
        <4> QED  BY <4>1, <4>2
      <3> HIDE DEF i
      <3>2. /\ q \in Invoices /\ invoices'[q] # None
            /\ i \in Invoices /\ invoices'[i] # None
            /\ {q, i} \subseteq Stored' \ rewritten' =>
                 /\ invoices'[q].type = "quote"
                 /\ invoices'[i].type = "invoice" /\ invoices'[i].series = "invoice"
                 /\ \A f \in PartyFields : invoices'[i][f] = invoices'[q][f]
        BY <2>7, <3>1, LinkLasts
      <3> QED  BY <3>2 DEF LinkOK, i
    <2>9. Undeleted' => Undeleted
      BY <2>3, <2>4 DEF Undeleted
    <2>10. \A type \in Types :
             /\ Series(type)' = Series(type)
             /\ \A i \in Series(type) : invoices'[i].number = invoices[i].number
      BY <2>5, <2>6 DEF Series
    <2> QED  BY <1>1, <2>3, <2>5, <2>7, <2>8, <2>9, <2>10, WriteStep
  <1> QED  BY <1>4, <1>5

(* remove: from now on the numbers may have a gap.                          *)
LEMMA DeleteStep ==
  ASSUME Inv, NEW j \in Jobs, DeleteInvoice(j)
  PROVE  Inv'
  <1> DEFINE id == job[j].id
  <1>1. /\ Become(j, Idle) /\ UNCHANGED <<rewritten, faults>>
        /\ invoices' = [invoices EXCEPT ![id] = Gone]
    BY DEF DeleteInvoice, Put, Finish
  <1>2. id \in Invoices /\ invoices[id] # None
    BY DEF DeleteInvoice, Inv, Shapes, Relies
  <1>3. invoices \in [Invoices -> InvoiceDoc \cup {None, Gone}]
    BY DEF Inv, Shapes, InvoiceTypeOK
  <1>4. None # Gone
    BY NullIsNoInvoice
  <1> HIDE DEF id
  <1>5. /\ invoices' \in [Invoices -> InvoiceDoc \cup {None, Gone}]
        /\ invoices'[id] = Gone
        /\ \A i \in Invoices \ {id} : invoices'[i] = invoices[i]
    BY <1>1, <1>2, <1>3
  <1>6. Stored' = Stored \ {id} /\ Unused' = Unused
    BY <1>2, <1>4, <1>5 DEF Stored, Unused
  <1>7. Kept
    <2>1. \A i \in Invoices : invoices[i] # None => invoices'[i] # None
      BY <1>4, <1>5
    <2>2. \A i \in Stored' : invoices'[i] = invoices[i]
      BY <1>5, <1>6 DEF Stored
    <2> QED  BY <1>1, <1>5, <2>1, <2>2 DEF Kept
  <1>8. Linked'
    <2> SUFFICES ASSUME NEW q \in Stored' \ rewritten, invoices'[q].converted # None
                 PROVE  LinkOK(q, invoices[q].converted)'
      BY <1>1 DEF Linked
    <2> DEFINE i == invoices'[q].converted
    <2>1. q \in Stored /\ invoices'[q] = invoices[q]
      BY <1>5, <1>6 DEF Stored
    <2>2. LinkOK(q, i)
      BY <2>1 DEF Inv, Linked
    <2> HIDE DEF i
    <2>3. /\ q \in Invoices /\ invoices'[q] # None
          /\ i \in Invoices /\ invoices'[i] # None
          /\ {q, i} \subseteq Stored' \ rewritten' =>
               /\ invoices'[q].type = "quote"
               /\ invoices'[i].type = "invoice" /\ invoices'[i].series = "invoice"
               /\ \A f \in PartyFields : invoices'[i][f] = invoices'[q][f]
      BY <1>7, <2>2, LinkLasts
    <2> QED  BY <2>3 DEF LinkOK, i
  <1>9. ~Undeleted'
    BY <1>2, <1>5 DEF Undeleted
  <1> QED  BY <1>1, <1>5, <1>6, <1>7, <1>8, <1>9, WriteStep

----------------------------------------------------------------------------
(* The calls, up to their first write.                                      *)
LEMMA FreeIsIdle ==
  ASSUME NEW j \in Jobs, Free(j)
  PROVE  job[j].op = "idle"
  BY DEF Free, Idle

(* A numbering starts only with an id left for it.                          *)
LEMMA NumberingStarts ==
  ASSUME Inv, NEW j \in Jobs, Free(j), Room, UNCHANGED <<invoices, rewritten, faults>>,
         NEW doc \in InvoiceDoc, doc.converted = None, doc.series = doc.type,
         NEW quote \in Invoices \cup {None}, quote # None => QuoteOK(quote, doc),
         Become(j, Numbering(doc, quote))
  PROVE  Inv'
  <1> DEFINE s == Numbering(doc, quote)
  <1>1. s \in NumberingJob /\ s.op = "invoice.number" /\ s.doc = doc /\ s.quote = quote
    BY DEF Numbering, NumberingJob, Numberings
  <1> HIDE DEF s
  <1>2. Relies(s)
    BY <1>1 DEF Relies, Numberings, Saves
  <1>3. Become(j, s)
    BY DEF s
  <1> QED  BY <1>1, <1>2, <1>3, JobStep

(* create: the parties are those of the order, or the caller and whom he    *)
(* names.                                                                   *)
LEMMA CreateStep ==
  ASSUME Inv, NEW j \in Jobs, NEW user \in Users, NEW type \in Types,
         NEW o \in Orders \cup {None}, NEW c \in Addressees,
         NEW status \in StatusInputs, NEW lines \in Drafts,
         CreateLoad(j, user, type, o, c, status, lines)
  PROVE  Inv'
  <1> DEFINE customer == IF o # None THEN Parties[o].customer ELSE c
             doc == Draft(type, o, customer, user, status, lines)
  <1>1. customer \in Customers \cup {None} /\ status \in InvoiceStatus
    BY InvoiceAssumption
  <1>2. user \in Billers
    BY DEF CreateLoad, MayCall
  <1> HIDE DEF customer
  <1>3. doc \in InvoiceDoc /\ doc.converted = None /\ doc.series = doc.type
    <2>1. doc = Draft(type, o, customer, user, status, lines) /\ lines \in Drafts \cup Edits
      OBVIOUS
    <2> HIDE DEF doc
    <2>2. DraftShape(doc, type, o, customer, user)
      BY <1>1, <1>2, <2>1, DraftOK
    <2> QED  BY <2>2 DEF DraftShape
  <1>4. /\ Free(j) /\ Room /\ UNCHANGED <<invoices, rewritten, faults>>
        /\ Become(j, Numbering(doc, None))
    BY DEF CreateLoad, customer
  <1> HIDE DEF doc
  <1> QED  BY <1>3, <1>4, NumberingStarts

(* convertQuoteToInvoice: the invoice gets the parties of the quote.        *)
LEMMA ConvertStep ==
  ASSUME Inv, NEW j \in Jobs, NEW user \in Users, NEW i \in Stored, ConvertLoad(j, user, i)
  PROVE  Inv'
  <1> DEFINE q == invoices[i]
             copy == Draft("invoice", q.order, q.customer, q.provider, "draft", q.lines)
             amounts == [f \in AmountFields |-> q[f]]
             doc == Updated(copy, amounts)
  <1>1. i \in Invoices /\ q # None /\ q \in InvoiceDoc
    BY DEF Stored, Inv, Shapes, InvoiceTypeOK
  <1>2. copy \in InvoiceDoc /\ copy.type = "invoice" /\ copy.series = "invoice"
        /\ copy.converted = None
        /\ \A f \in PartyFields : copy[f] = q[f]
    <2> DEFINE o == q.order
               c == q.customer
               p == q.provider
               lines == q.lines
               type == "invoice"
               status == "draft"
    <2>1. /\ o \in Orders \cup {None} /\ c \in Customers \cup {None}
          /\ p \in Billers /\ lines \in Drafts \cup Edits
      BY <1>1 DEF InvoiceDoc
    <2>2. status \in InvoiceStatus /\ type \in Types
      BY DEF InvoiceStatus, Types
    <2>3. copy = Draft(type, o, c, p, status, lines)
      OBVIOUS
    <2> HIDE DEF q, copy, o, c, p, lines, type, status
    <2>4. DraftShape(copy, type, o, c, p)
      BY <2>1, <2>2, <2>3, DraftOK
    <2> QED  BY <2>4 DEF DraftShape, PartyFields, type, o, c, p
  <1>3. SendTyped(amounts) /\ DOMAIN amounts = AmountFields
    <2>1. \A f \in AmountFields : q[f] \in Int
      BY <1>1 DEF AmountFields, InvoiceDoc
    <2> QED  BY <2>1 DEF SendTyped, Typed, SendFields, AmountFields
  <1> HIDE DEF copy, amounts, q
  <1>4. /\ doc \in InvoiceDoc /\ doc.converted = None /\ doc.type = "invoice"
        /\ doc.series = "invoice" /\ \A f \in PartyFields : doc[f] = q[f]
    <2>1. \A f \in PartyFields \cup {"type", "converted"} : f \notin DOMAIN amounts
      BY <1>3 DEF PartyFields, AmountFields
    <2> QED  BY <1>2, <1>3, <2>1, UpdatedOK
  <1>5. /\ Free(j) /\ Room /\ UNCHANGED <<invoices, rewritten, faults>>
        /\ Become(j, Numbering(doc, i)) /\ q.type = "quote"
    BY DEF ConvertLoad, Called, Convertible, q, copy, amounts
  <1> HIDE DEF doc
  <1>6. QuoteOK(i, doc)
    BY <1>1, <1>4, <1>5 DEF QuoteOK, q
  <1> QED  BY <1>1, <1>4, <1>5, <1>6, NumberingStarts

(* markAsPaid, cancel, acceptQuote and rejectQuote assign a status.         *)
LEMMA StatusStep ==
  ASSUME Inv, NEW j \in Jobs, NEW user \in Users, NEW i \in Stored,
         \/ PayLoad(j, user, i) \/ CancelLoad(j, user, i)
         \/ AcceptLoad(j, user, i) \/ RejectLoad(j, user, i)
  PROVE  Inv'
  <1>1. PICK status \in InvoiceStatus : Assign(j, i, [status |-> status])
    BY DEF PayLoad, CancelLoad, AcceptLoad, RejectLoad, InvoiceStatus
  <1> DEFINE changes == [status |-> status]
             sends == Modified(invoices[i], changes)
             s == [op |-> "invoice.save", id |-> i, sends |-> sends]
  <1>2. UNCHANGED <<invoices, rewritten, faults>> /\ Become(j, s)
    BY <1>1 DEF PayLoad, CancelLoad, AcceptLoad, RejectLoad, Called, Assign, Send
  <1>3. Typed(changes) /\ DOMAIN changes = {"status"}
    BY DEF Typed, AmountFields
  <1> HIDE DEF changes
  <1>4. invoices[i] \in InvoiceDoc /\ i \in Invoices /\ invoices[i] # None
    BY DEF Inv, Shapes, InvoiceTypeOK, Stored
  <1>5. SendTyped(sends) /\ DOMAIN sends \subseteq {"status"}
    BY <1>3, <1>4, ModifiedOK DEF SendFields
  <1> HIDE DEF sends
  <1>6. SendOK(i, sends)
    BY <1>5 DEF SendOK
  <1>7. Relies(s) /\ s.op = "invoice.save"
    BY <1>4, <1>6 DEF Relies, Numberings, Saves
  <1> HIDE DEF s
  <1> QED  BY <1>2, <1>7, JobStep DEF Numberings

(* update assigns what the body holds, may unset the link, and records what *)
(* it rewrites.                                                             *)
LEMMA UpdateStep ==
  ASSUME Inv, NEW j \in Jobs, NEW user \in Users, NEW i \in Stored, NEW dto \in Dtos,
         UpdateLoad(j, user, i, dto)
  PROVE  Inv'
  <1> DEFINE sends == Modified(invoices[i], Changes(dto))
  <1>1. /\ UNCHANGED <<invoices, faults>>
        /\ Send(j, i, sends) \/ Send(j, i, Unlinking(sends))
        /\ rewritten' = IF Rewrites(sends) THEN rewritten \cup {i} ELSE rewritten
    BY DEF UpdateLoad, Called, Changes
  <1>2. invoices[i] \in InvoiceDoc /\ i \in Invoices /\ invoices[i] # None
    BY DEF Inv, Shapes, InvoiceTypeOK, Stored
  <1>3. rewritten \subseteq rewritten' /\ rewritten' \subseteq Invoices
    BY <1>1, <1>2 DEF Inv, Shapes, InvoiceTypeOK
  <1>4. SendTyped(sends)
    BY <1>2, ChangesOK, ModifiedOK
  <1> HIDE DEF sends
  <1>5. PICK t \in {sends, Unlinking(sends)} : Send(j, i, t)
    BY <1>1
  <1>6. SendTyped(t)
    <2>1. CASE t = sends
      BY <1>4, <2>1
    <2>2. CASE t = Unlinking(sends)
      <3>1. /\ DOMAIN t = DOMAIN sends \cup {"converted"} /\ t["converted"] = None
            /\ \A f \in DOMAIN sends \ {"converted"} : t[f] = sends[f]
        BY <2>2 DEF Unlinking
      <3>2. "converted" \notin AmountFields
        BY DEF AmountFields
      <3> QED  BY <1>4, <3>1, <3>2 DEF SendTyped, Typed, SendFields
    <2> QED  BY <1>5, <2>1, <2>2
  <1>7. Rewrites(t) => i \in rewritten'
    <2>1. Rewrites(t) => Rewrites(sends)
      BY <1>5 DEF Rewrites, Unlinking
    <2> QED  BY <1>1, <2>1
  <1>8. SendOK(i, t)'
    BY <1>6, <1>7 DEF SendOK, Rewrites, SendTyped, Typed
  <1> DEFINE s == [op |-> "invoice.save", id |-> i, sends |-> t]
  <1>9. Become(j, s) /\ s.op = "invoice.save"
    BY <1>5 DEF Send
  <1>10. job'[j] = s
    <2> HIDE DEF s
    <2> QED  BY <1>9, Becomes DEF Inv
  <1>11. Relies(job[j])'
    BY <1>1, <1>2, <1>8, <1>10 DEF Relies, Numberings, Saves
  <1> HIDE DEF s
  <1> QED  BY <1>1, <1>3, <1>9, <1>11, CallStep DEF Numberings

(* remove leaves the deletion for a later call.                             *)
LEMMA RemoveStep ==
  ASSUME Inv, NEW j \in Jobs, NEW user \in Users, NEW i \in Stored, RemoveLoad(j, user, i)
  PROVE  Inv'
  <1> DEFINE s == [op |-> "invoice.delete", id |-> i]
  <1>1. Become(j, s) /\ UNCHANGED <<invoices, rewritten, faults>>
    BY DEF RemoveLoad, Called
  <1>2. Relies(s) /\ s.op = "invoice.delete"
    BY DEF Relies, Numberings, Saves, Stored
  <1> HIDE DEF s
  <1> QED  BY <1>1, <1>2, JobStep DEF Numberings

(* A failure forgets handlers and leaves the documents.                     *)
LEMMA FaultStep ==
  ASSUME Inv, (Crash /\ UNCHANGED <<invoices, rewritten>>) \/ (\E j \in Jobs : InvoiceAbort(j))
  PROVE  Inv'
  <1>1. /\ UNCHANGED <<invoices, rewritten>> /\ faults' \in Nat
        /\ job' = [k \in Jobs |-> job'[k]]
        /\ \A k \in Jobs : job'[k] = job[k] \/ job'[k] = Idle
    BY DEF Crash, InvoiceAbort, Abort, Faulty, Finish, Become, Inv, Shapes, InvoiceTypeOK
  <1>2. Idle.op = "idle" /\ Relies(Idle)
    BY DEF Idle, Relies, Numberings, Saves
  <1>3. Kept /\ Stored' = Stored /\ Unused' = Unused /\ (Undeleted' <=> Undeleted)
    BY <1>1 DEF Kept, Stored, Unused, Undeleted
  <1>4. \A type : Series(type)' = Series(type) /\ Count(type)' = Count(type)
    BY <1>1, <1>3 DEF Series, Count
  <1>5. Shapes'
    <2>1. \A k \in Jobs : Relies(job[k])'
      BY <1>1, <1>2, <1>3, NewReliance, RelianceLasts DEF Inv, Shapes
    <2> QED  BY <1>1, <2>1 DEF Inv, Shapes, InvoiceTypeOK
  <1>6. Linked'
    <2> SUFFICES ASSUME NEW q \in Stored \ rewritten, invoices[q].converted # None
                 PROVE  LinkOK(q, invoices[q].converted)'
      BY <1>1, <1>3 DEF Linked
    <2>1. LinkOK(q, invoices[q].converted)
      BY DEF Inv, Linked
    <2> QED  BY <1>1, <1>3, <2>1 DEF LinkOK
  <1>7. RoomLeft'
    <2>1. NumberingJobs' \subseteq NumberingJobs
      BY <1>1, <1>2 DEF NumberingJobs, Numberings
    <2>2. IsFiniteSet(NumberingJobs)
      BY InvoiceAssumption, FS_Subset DEF NumberingJobs
    <2>3. /\ Cardinality(NumberingJobs') <= Cardinality(NumberingJobs)
          /\ Cardinality(NumberingJobs') \in Nat /\ Cardinality(NumberingJobs) \in Nat
      BY <2>1, <2>2, FS_Subset, FS_CardinalityType
    <2> QED  BY <1>3, <2>3, Counts DEF Inv, RoomLeft
  <1>8. Contiguous'
    BY <1>1, <1>4 DEF Inv, Contiguous
  <1>9. NextNumbers'
    <2> SUFFICES ASSUME Undeleted', NEW k \in Jobs, job'[k].op = "invoice.insert",
                        NEW type \in Types, job'[k].doc.series = type
                 PROVE  job'[k].doc.number \in 1..(Count(type)' + 1)
      BY DEF NextNumbers
    <2>1. Undeleted /\ Count(type)' = Count(type) /\ job'[k] = job[k]
      BY <1>1, <1>2, <1>3, <1>4
    <2> QED  BY <2>1 DEF Inv, NextNumbers
  <1> QED  BY <1>5, <1>6, <1>7, <1>8, <1>9 DEF Inv

(* Nothing changes.                                                         *)
LEMMA Stutter ==
  ASSUME Inv, UNCHANGED invoiceVars
  PROVE  Inv'
  BY DEF invoiceVars, Inv, Shapes, InvoiceTypeOK, Relies, QuoteOK, SendOK, SendTyped, Typed, LinkOK,
         Linked, Stored, RoomLeft, NumberingJobs, Unused, Contiguous, Series, NextNumbers,
         Undeleted, Count

(* Every step keeps the invariant.                                          *)
LEMMA NextInv == Inv /\ [InvoiceNext]_invoiceVars => Inv'
  <1> SUFFICES ASSUME Inv, [InvoiceNext]_invoiceVars
               PROVE  Inv'
    OBVIOUS
  <1>1. ASSUME NEW j \in Jobs, NEW user \in Users, InvoiceCall(j, user)
        PROVE  Inv'
    BY <1>1, CreateStep, UpdateStep, StatusStep, RemoveStep, ConvertStep DEF InvoiceCall, Types
  <1>2. ASSUME NEW j \in Jobs, InvoiceStep(j)
        PROVE  Inv'
    BY <1>2, ReadNumberStep, InsertStep, NumberTakenStep, SaveStep, DeleteStep DEF InvoiceStep
  <1>3. CASE UNCHANGED invoiceVars
    BY <1>3, Stutter
  <1> QED  BY <1>1, <1>2, <1>3, FaultStep DEF InvoiceNext

(* The invariant holds at first.                                            *)
LEMMA InitInv == InvoiceInit => Inv
  <1> SUFFICES ASSUME InvoiceInit
               PROVE  Inv
    OBVIOUS
  <1>1. /\ job = [j \in Jobs |-> Idle] /\ Idle.op = "idle" /\ faults = 0 /\ rewritten = {}
        /\ invoices = [i \in Invoices |-> None]
    BY DEF InvoiceInit, BackendInit, Idle
  <1>2. Stored = {}
    BY <1>1 DEF Stored
  <1>3. Shapes
    BY <1>1 DEF Shapes, InvoiceTypeOK, Relies, Numberings, Saves
  <1>4. RoomLeft
    <2>1. NumberingJobs = {}
      BY <1>1 DEF NumberingJobs, Numberings
    <2> QED  BY <2>1, FS_EmptySet, Counts DEF RoomLeft
  <1>5. Contiguous
    <2>1. \A type : Series(type) = {}
      BY <1>2 DEF Series
    <2>2. Cardinality({}) = 0
      BY FS_EmptySet
    <2> QED  BY <2>1, <2>2 DEF Contiguous
  <1>6. NextNumbers
    BY <1>1 DEF NextNumbers
  <1> QED  BY <1>2, <1>3, <1>4, <1>5, <1>6 DEF Inv, Linked

(* The invariant is enough for the link of a quote.                         *)
LEMMA InvSuffices == Inv => InvoiceTypeOK /\ Contiguous /\ LinkedInvoice
  <1> SUFFICES ASSUME Inv, NEW q \in Stored \ rewritten,
                      invoices[q].converted \notin rewritten \cup {None},
                      invoices[invoices[q].converted] # Gone
               PROVE  LET i == invoices[q].converted
                      IN /\ invoices[q].type = "quote"
                         /\ invoices[i].type = "invoice" /\ invoices[i].series = "invoice"
                         /\ \A f \in PartyFields : invoices[i][f] = invoices[q][f]
    BY DEF Inv, Shapes, LinkedInvoice, PartyFields
  <1>1. LinkOK(q, invoices[q].converted)
    BY DEF Inv, Linked
  <1> QED  BY <1>1 DEF LinkOK, Stored

----------------------------------------------------------------------------
(* The inductive invariant: what every handler in flight relies on, room    *)
(* for the numberings, and the numbers they carry                           *)
(* (invoices.service.ts:38-58, 130-175 and 957-1014).                       *)
THEOREM InvoicesInvariant == InvoiceSpec => []Inv
  BY InitInv, NextInv, PTL DEF InvoiceSpec

(* Documents keep the shape of the schema, whatever saves overlap.          *)
THEOREM InvoicesTypeCorrect == InvoiceSpec => []InvoiceTypeOK
  BY InvoicesInvariant, InvSuffices, PTL

(* Numbers neither repeat nor leave a gap within their series until a       *)
(* document is deleted, whatever types updates give to numbered documents   *)
(* (generateInvoiceNumber, the unique index and update,                     *)
(* invoices.service.ts:38-58 and 441-499).                                  *)
THEOREM NumbersContiguous == InvoiceSpec => []Contiguous
  BY InvoicesInvariant, InvSuffices, PTL

(* A quote's link leads to an invoice of the same order and parties, unless *)
(* an update set out to replace type, order, customer or link of either     *)
(* (convertQuoteToInvoice and update, invoices.service.ts:441-499).         *)
THEOREM LinkLeadsToInvoice == InvoiceSpec => []LinkedInvoice
  BY InvoicesInvariant, InvSuffices, PTL

----------------------------------------------------------------------------
(* From here on: handlers that do not overlap.  A document has the amounts  *)
(* of its lines.                                                            *)
Summed(d) == \A f \in AmountFields : d[f] = Totals(d.lines)[f]

OneInFlight == \A j, k \in Jobs : job[j] # Idle /\ job[k] # Idle => j = k

BilledFor(o) == \E i \in Stored : invoices[i].type = "invoice" /\ invoices[i].order = o

(* What a handler relies on that nobody disturbs: the document it loaded is *)
(* as it was, and its save completes the amounts.                           *)
UndisturbedNumbering(s) ==
  /\ Summed(s.doc)
  /\ s.quote = None /\ s.doc.type = "invoice" =>
       s.doc.order # None /\ ~BilledFor(s.doc.order)
  /\ s.quote # None =>
       /\ s.quote \in Stored
       /\ invoices[s.quote].status = "accepted" /\ invoices[s.quote].converted = None
       /\ invoices[s.quote].type = "quote" /\ s.doc.status = "draft"
       /\ \A f \in PartyFields : s.doc[f] = invoices[s.quote][f]

UndisturbedSave(s) ==
  /\ s.id \in Stored
  /\ Summed(Updated(invoices[s.id], s.sends))

(* A conversion sends the link alone; what an update rewrites is recorded.  *)
LinkAlone(s) ==
  /\ s.op = "invoice.link" => DOMAIN s.sends = {"converted"}
  /\ s.op = "invoice.save" => (Rewrites(s.sends) => s.id \in rewritten)

Undisturbed(s) ==
  /\ s.op \in Numberings => UndisturbedNumbering(s)
  /\ s.op \in Saves => UndisturbedSave(s)
  /\ LinkAlone(s)
  /\ s.op = "invoice.delete" => s.id \in Stored /\ invoices[s.id].status = "draft"

AllSummed == \A i \in Stored : Summed(invoices[i])

Quiet == OneInFlight /\ AllSummed /\ \A j \in Jobs : Undisturbed(job[j])

SerialInv == Inv /\ raced \in BOOLEAN /\ (~raced => Quiet)

LEMMA IdleUndisturbed == Undisturbed(Idle)
  BY DEF Undisturbed, LinkAlone, Idle, Numberings, Saves

(* If handlers have not overlapped after a step, they had not before.       *)
LEMMA RacedStays ==
  ASSUME raced \in BOOLEAN, NEW n, Watched(n)
  PROVE  raced' \in BOOLEAN /\ (~raced' => ~raced /\ OneInFlight')
  BY DEF Watched, OneInFlight

(* While a handler steps, the others are idle.                              *)
LEMMA OthersIdle ==
  ASSUME Inv, OneInFlight, OneInFlight', NEW j \in Jobs, NEW s, Become(j, s),
         s # Idle \/ job[j] # Idle
  PROVE  /\ job'[j] = s
         /\ \A k \in Jobs \ {j} : job'[k] = Idle /\ job[k] = Idle
  BY Becomes DEF Inv, OneInFlight

(* A handler's step keeps things quiet if it leaves documents with the      *)
(* amounts of their lines and goes on undisturbed.                          *)
LEMMA QuietStep ==
  ASSUME Inv, OneInFlight, OneInFlight', NEW j \in Jobs, NEW s, Become(j, s),
         s # Idle \/ job[j] # Idle, AllSummed', Undisturbed(s)'
  PROVE  Quiet'
  <1>1. /\ job'[j] = s
        /\ \A k \in Jobs \ {j} : job'[k] = Idle
    BY OthersIdle
  <1>2. ASSUME NEW k \in Jobs
        PROVE  Undisturbed(job[k])'
    <2>1. CASE k = j
      BY <1>1, <2>1 DEF Undisturbed, UndisturbedNumbering, UndisturbedSave, LinkAlone
    <2>2. CASE k # j
      BY <1>1, <2>2 DEF Undisturbed, LinkAlone, Idle, Numberings, Saves
    <2> QED  BY <2>1, <2>2
  <1> QED  BY <1>2 DEF Quiet

(* A handler that only reads.                                               *)
LEMMA QuietRead ==
  ASSUME Inv, Quiet, OneInFlight', UNCHANGED <<invoices, rewritten>>,
         NEW j \in Jobs, NEW s, Become(j, s), s # Idle \/ job[j] # Idle, Undisturbed(s)
  PROVE  Quiet'
  <1>1. Stored' = Stored /\ AllSummed'
    BY DEF Stored, Quiet, AllSummed
  <1>2. Undisturbed(s)'
    BY <1>1 DEF Undisturbed, UndisturbedNumbering, UndisturbedSave, LinkAlone, BilledFor
  <1> QED  BY <1>1, <1>2, QuietStep DEF Quiet

----------------------------------------------------------------------------
LEMMA DocFields ==
  ASSUME NEW d \in InvoiceDoc
  PROVE  /\ DOMAIN d = {"series", "number", "type", "order", "customer", "provider", "status",
                        "converted", "lines"} \cup AmountFields
         /\ d.lines \in Drafts \cup Edits /\ d.type \in Types
  BY DEF InvoiceDoc, AmountFields, Types

(* A save that sends neither lines nor amounts leaves them as they are.     *)
LEMMA SummedStays ==
  ASSUME NEW d \in InvoiceDoc, Summed(d), NEW s,
         \A f \in DOMAIN s : f \notin {"lines"} \cup AmountFields
  PROVE  Summed(Updated(d, s))
  <1> DEFINE u == Updated(d, s)
  <1>1. u = [f \in DOMAIN d |-> IF f \in DOMAIN s THEN s[f] ELSE d[f]]
    BY DEF Updated
  <1>2. \A f \in {"lines"} \cup AmountFields : u[f] = d[f]
    BY <1>1, DocFields
  <1> HIDE DEF u
  <1>3. u["lines"] = d["lines"]
    BY <1>2
  <1> QED  BY <1>2, <1>3 DEF Summed, u

(* Sending only what differs changes as much as sending everything.         *)
LEMMA ModifiedIsEnough ==
  ASSUME NEW d, NEW c
  PROVE  Updated(d, Modified(d, c)) = Updated(d, c)
  <1> DEFINE m == Modified(d, c)
  <1>1. m = [f \in {g \in DOMAIN c \cap DOMAIN d : c[g] # d[g]} |-> c[f]]
    BY DEF Modified
  <1>2. \A f \in DOMAIN d : (IF f \in DOMAIN m THEN m[f] ELSE d[f])
                            = (IF f \in DOMAIN c THEN c[f] ELSE d[f])
    BY <1>1
  <1> HIDE DEF m
  <1> QED  BY <1>2 DEF Updated, m

(* New lines come with their amounts, and without them neither changes.     *)
LEMMA ChangesSummed ==
  ASSUME NEW d \in InvoiceDoc, Summed(d), NEW dto \in Dtos
  PROVE  Summed(Updated(d, Changes(dto)))
  <1>1. \A f \in AmountFields : f \notin DOMAIN dto
    BY DtoAssumption DEF DtoFields, AmountFields
  <1>2. CASE "lines" \notin DOMAIN dto
    <2>1. Changes(dto) = dto
      BY <1>2 DEF Changes
    <2> QED  BY <1>1, <1>2, <2>1, SummedStays
  <1>3. CASE "lines" \in DOMAIN dto
    <2> DEFINE r == Changes(dto)
               u == Updated(d, r)
    <2>1. r = [f \in DOMAIN dto \cup AmountFields |->
                IF f \in DOMAIN dto THEN dto[f] ELSE Totals(dto["lines"])[f]]
      BY <1>3 DEF Changes, Retotaled
    <2>2. /\ "lines" \in DOMAIN r /\ r["lines"] = dto["lines"]
          /\ \A f \in AmountFields : f \in DOMAIN r /\ r[f] = Totals(dto["lines"])[f]
      BY <1>1, <1>3, <2>1
    <2> HIDE DEF r
    <2>3. u = [f \in DOMAIN d |-> IF f \in DOMAIN r THEN r[f] ELSE d[f]]
      BY DEF Updated
    <2>4. u["lines"] = dto["lines"] /\ \A f \in AmountFields : u[f] = Totals(dto["lines"])[f]
      BY <2>2, <2>3, DocFields
    <2> HIDE DEF u
    <2> QED  BY <2>4 DEF Summed, u, r
  <1> QED  BY <1>2, <1>3

(* Unsetting the link leaves lines and amounts as they are.                 *)
LEMMA UnlinkingSummed ==
  ASSUME NEW d \in InvoiceDoc, NEW s, Summed(Updated(d, s))
  PROVE  Summed(Updated(d, Unlinking(s)))
  <1> DEFINE r == Unlinking(s)
             u == Updated(d, s)
             v == Updated(d, r)
  <1>1. \A f \in {"lines"} \cup AmountFields :
          (f \in DOMAIN r <=> f \in DOMAIN s) /\ (f \in DOMAIN s => r[f] = s[f])
    BY DEF Unlinking, AmountFields
  <1> HIDE DEF r
  <1>2. /\ u = [f \in DOMAIN d |-> IF f \in DOMAIN s THEN s[f] ELSE d[f]]
        /\ v = [f \in DOMAIN d |-> IF f \in DOMAIN r THEN r[f] ELSE d[f]]
    BY DEF Updated
  <1>3. \A f \in {"lines"} \cup AmountFields : v[f] = u[f]
    BY <1>1, <1>2, DocFields
  <1> HIDE DEF u, v
  <1>4. v["lines"] = u["lines"]
    BY <1>3
  <1> QED  BY <1>3, <1>4 DEF Summed, u, v, r

(* A new document has the amounts of its lines.                             *)
LEMMA DraftSummed ==
  ASSUME NEW type, NEW o, NEW c, NEW p, NEW status, NEW lines
  PROVE  LET d == Draft(type, o, c, p, status, lines)
         IN Summed(d) /\ d.lines = lines /\ d.status = status /\ d.order = o /\ d.type = type
  BY DEF Draft, Summed, AmountFields

----------------------------------------------------------------------------
(* create.                                                                  *)
LEMMA CreateQuiet ==
  ASSUME Inv, Quiet, OneInFlight', NEW j \in Jobs, NEW user \in Users, NEW type \in Types,
         NEW o \in Orders \cup {None}, NEW c \in Addressees,
         NEW status \in StatusInputs, NEW lines \in Drafts,
         CreateLoad(j, user, type, o, c, status, lines)
  PROVE  Quiet'
  <1> DEFINE customer == IF o # None THEN Parties[o].customer ELSE c
             doc == Draft(type, o, customer, user, status, lines)
             s == Numbering(doc, None)
  <1>1. Become(j, s) /\ UNCHANGED <<invoices, rewritten>>
    BY DEF CreateLoad
  <1>2. type = "invoice" => o # None /\ ~BilledFor(o)
    BY DEF CreateLoad, BilledFor
  <1> HIDE DEF customer
  <1>3. Summed(doc) /\ doc.order = o /\ doc.type = type
    BY DraftSummed
  <1> HIDE DEF doc
  <1>4. s.op = "invoice.number" /\ s.doc = doc /\ s.quote = None
    BY DEF Numbering
  <1> HIDE DEF s
  <1>5. Undisturbed(s) /\ s # Idle
    BY <1>2, <1>3, <1>4 DEF Undisturbed, UndisturbedNumbering, LinkAlone, Numberings, Saves, Idle
  <1> QED  BY <1>1, <1>5, QuietRead

(* convertQuoteToInvoice.                                                   *)
LEMMA ConvertQuiet ==
  ASSUME Inv, Quiet, OneInFlight', NEW j \in Jobs, NEW user \in Users, NEW i \in Stored,
         ConvertLoad(j, user, i)
  PROVE  Quiet'
  <1> DEFINE q == invoices[i]
             copy == Draft("invoice", q.order, q.customer, q.provider, "draft", q.lines)
             amounts == [f \in AmountFields |-> q[f]]
             doc == Updated(copy, amounts)
             s == Numbering(doc, i)
  <1>1. /\ Become(j, s) /\ UNCHANGED <<invoices, rewritten>>
        /\ q.status = "accepted" /\ q.converted = None /\ q.type = "quote"
    BY DEF ConvertLoad, Called, Convertible
  <1>2. Summed(q) /\ i \in Invoices /\ q # None
    BY DEF Quiet, AllSummed, Stored
  <1>3. /\ copy.lines = q.lines /\ copy.status = "draft"
        /\ \A f \in PartyFields : copy[f] = q[f]
        /\ {"lines", "status"} \cup PartyFields \cup AmountFields \subseteq DOMAIN copy
    BY DEF Draft, AmountFields, PartyFields
  <1> HIDE DEF copy, q
  <1>4. doc = [f \in DOMAIN copy |-> IF f \in DOMAIN amounts THEN amounts[f] ELSE copy[f]]
    BY DEF Updated
  <1>5. DOMAIN amounts = AmountFields /\ \A f \in AmountFields : amounts[f] = q[f]
    OBVIOUS
  <1>6. ({"lines", "status"} \cup PartyFields) \cap AmountFields = {}
    BY DEF AmountFields, PartyFields
  <1> HIDE DEF amounts
  <1>7. /\ doc["lines"] = copy["lines"] /\ doc["status"] = copy["status"]
        /\ \A f \in PartyFields : doc[f] = q[f]
        /\ \A f \in AmountFields : doc[f] = q[f]
    BY <1>3, <1>4, <1>5, <1>6
  <1> HIDE DEF doc
  <1>8. Summed(doc) /\ doc.status = "draft" /\ \A f \in PartyFields : doc[f] = q[f]
    BY <1>2, <1>3, <1>7 DEF Summed
  <1>9. s.op = "invoice.number" /\ s.doc = doc /\ s.quote = i
    BY DEF Numbering
  <1> HIDE DEF s
  <1>10. i # None
    BY <1>2, InvoiceAssumption, NoneAssumption
  <1>11. Undisturbed(s) /\ s # Idle
    BY <1>1, <1>8, <1>9, <1>10 DEF Undisturbed, UndisturbedNumbering, LinkAlone, Numberings, Saves, Idle, q
  <1> QED  BY <1>1, <1>11, QuietRead

LEMMA StoredDoc ==
  ASSUME Inv, NEW i \in Stored
  PROVE  i \in Invoices /\ invoices[i] \in InvoiceDoc
  BY DEF Inv, Shapes, InvoiceTypeOK, Stored

(* The operations that end in a save.                                       *)
LEMMA StatusQuiet ==
  ASSUME Inv, Quiet, OneInFlight', NEW j \in Jobs, NEW user \in Users, NEW i \in Stored,
         \/ PayLoad(j, user, i) \/ CancelLoad(j, user, i)
         \/ AcceptLoad(j, user, i) \/ RejectLoad(j, user, i)
  PROVE  Quiet'
  <1>1. PICK status : Assign(j, i, [status |-> status])
    BY DEF PayLoad, CancelLoad, AcceptLoad, RejectLoad
  <1> DEFINE c == [status |-> status]
             sends == Modified(invoices[i], c)
             s == [op |-> "invoice.save", id |-> i, sends |-> sends]
  <1>2. UNCHANGED <<invoices, rewritten>> /\ Become(j, s)
    BY <1>1 DEF PayLoad, CancelLoad, AcceptLoad, RejectLoad, Called, Assign, Send
  <1>3. Summed(invoices[i]) /\ invoices[i] \in InvoiceDoc
    BY StoredDoc DEF Quiet, AllSummed
  <1>4. DOMAIN c = {"status"}
    OBVIOUS
  <1> HIDE DEF c
  <1>5. \A f \in DOMAIN c : f \notin {"lines"} \cup AmountFields
    BY <1>4 DEF AmountFields
  <1>6. Summed(Updated(invoices[i], sends))
    BY <1>3, <1>5, SummedStays, ModifiedIsEnough
  <1>7. ~Rewrites(sends)
    BY <1>4 DEF Modified, Rewrites
  <1> HIDE DEF sends
  <1>8. s.op = "invoice.save" /\ s.id = i /\ s.sends = sends
    OBVIOUS
  <1> HIDE DEF s
  <1>9. Undisturbed(s) /\ s # Idle
    BY <1>6, <1>7, <1>8 DEF Undisturbed, UndisturbedSave, LinkAlone, Numberings, Saves, Idle
  <1> QED  BY <1>2, <1>9, QuietRead

LEMMA UpdateQuiet ==
  ASSUME Inv, Quiet, OneInFlight', NEW j \in Jobs, NEW user \in Users, NEW i \in Stored,
         NEW dto \in Dtos, UpdateLoad(j, user, i, dto)
  PROVE  Quiet'
  <1> DEFINE sends == Modified(invoices[i], Changes(dto))
  <1>1. /\ UNCHANGED invoices /\ Free(j)
        /\ Send(j, i, sends) \/ Send(j, i, Unlinking(sends))
        /\ rewritten' = IF Rewrites(sends) THEN rewritten \cup {i} ELSE rewritten
    BY DEF UpdateLoad, Called, Changes
  <1>2. Summed(invoices[i]) /\ invoices[i] \in InvoiceDoc
    BY StoredDoc DEF Quiet, AllSummed
  <1>3. Summed(Updated(invoices[i], sends))
    BY <1>2, ChangesSummed, ModifiedIsEnough
  <1> HIDE DEF sends
  <1>4. PICK t \in {sends, Unlinking(sends)} : Send(j, i, t)
    BY <1>1
  <1>5. Summed(Updated(invoices[i], t))
    BY <1>2, <1>3, <1>4, UnlinkingSummed
  <1>6. Rewrites(t) => i \in rewritten'
    <2>1. Rewrites(t) => Rewrites(sends)
      BY <1>4 DEF Rewrites, Unlinking
    <2> QED  BY <1>1, <2>1
  <1> DEFINE s == [op |-> "invoice.save", id |-> i, sends |-> t]
  <1>7. Become(j, s) /\ s.op = "invoice.save" /\ s.id = i /\ s.sends = t
    BY <1>4 DEF Send
  <1> HIDE DEF s
  <1>8. s # Idle
    BY <1>7 DEF Idle
  <1>9. Stored' = Stored /\ AllSummed'
    BY <1>1 DEF Stored, Quiet, AllSummed
  <1>10. Undisturbed(s)'
    BY <1>1, <1>5, <1>6, <1>7, <1>9
       DEF Undisturbed, UndisturbedSave, LinkAlone, Numberings, Saves
  <1> QED  BY <1>7, <1>8, <1>9, <1>10, QuietStep DEF Quiet

LEMMA RemoveQuiet ==
  ASSUME Inv, Quiet, OneInFlight', NEW j \in Jobs, NEW user \in Users, NEW i \in Stored,
         RemoveLoad(j, user, i)
  PROVE  Quiet'
  <1> DEFINE s == [op |-> "invoice.delete", id |-> i]
  <1>1. Become(j, s) /\ UNCHANGED <<invoices, rewritten>> /\ invoices[i].status = "draft"
    BY DEF RemoveLoad, Called
  <1>2. Undisturbed(s) /\ s # Idle
    BY <1>1 DEF Undisturbed, LinkAlone, Numberings, Saves, Idle
  <1> HIDE DEF s
  <1> QED  BY <1>1, <1>2, QuietRead
----------------------------------------------------------------------------
(* The steps of a handler in flight.                                        *)
LEMMA NumberQuiet ==
  ASSUME Inv, Quiet, OneInFlight', NEW j \in Jobs, ReadNumber(j) \/ NumberTaken(j)
  PROVE  Quiet'
  <1>1. job[j].op \in Numberings /\ UNCHANGED <<invoices, rewritten>>
    BY DEF ReadNumber, NumberTaken, Numberings
  <1>2. job[j] \in NumberingJob /\ UndisturbedNumbering(job[j])
    BY <1>1 DEF Inv, Shapes, Relies, Quiet, Undisturbed
  <1>3. job[j] # Idle
    BY <1>1 DEF Idle, Numberings
  <1>4. ASSUME ReadNumber(j)
        PROVE  \E s : Become(j, s) /\ Undisturbed(s)
    <2> DEFINE h == Highest(job[j].doc.type)
               s == [job[j] EXCEPT !.op = "invoice.insert", !.doc.number = h + 1]
               d == [job[j].doc EXCEPT !.number = h + 1]
    <2>1. Become(j, s)
      BY <1>4 DEF ReadNumber
    <2> HIDE DEF h
    <2>2. job[j].doc \in InvoiceDoc
      BY <1>2 DEF NumberingJob
    <2>3. /\ d.lines = job[j].doc.lines /\ d.type = job[j].doc.type
          /\ d.order = job[j].doc.order /\ d.status = job[j].doc.status
          /\ \A f \in AmountFields \cup PartyFields : d[f] = job[j].doc[f]
      BY <2>2, DocFields DEF InvoiceDoc, AmountFields, PartyFields
    <2>4. s.op = "invoice.insert" /\ s.doc = d /\ s.quote = job[j].quote
      BY <1>2 DEF NumberingJob
    <2> HIDE DEF s, d
    <2>5. Summed(d)
      BY <1>2, <2>3 DEF UndisturbedNumbering, Summed
    <2>6. UndisturbedNumbering(s)
      BY <1>2, <2>3, <2>4, <2>5 DEF UndisturbedNumbering
    <2>7. Undisturbed(s)
      BY <2>4, <2>6 DEF Undisturbed, LinkAlone, Numberings, Saves
    <2> QED  BY <2>1, <2>7
  <1>5. ASSUME NumberTaken(j)
        PROVE  \E s : Become(j, s) /\ Undisturbed(s)
    <2> DEFINE s == [job[j] EXCEPT !.op = "invoice.number", !.attempts = @ + 1]
    <2>1. Become(j, Idle) \/ Become(j, s)
      BY <1>5 DEF NumberTaken, Finish
    <2>2. s.op = "invoice.number" /\ s.doc = job[j].doc /\ s.quote = job[j].quote
      BY <1>2 DEF NumberingJob
    <2> HIDE DEF s
    <2>3. UndisturbedNumbering(s)
      BY <1>2, <2>2 DEF UndisturbedNumbering
    <2>4. Undisturbed(s)
      BY <2>2, <2>3 DEF Undisturbed, LinkAlone, Numberings, Saves
    <2> QED  BY <2>1, <2>4, IdleUndisturbed
  <1>6. PICK s : Become(j, s) /\ Undisturbed(s)
    BY <1>4, <1>5
  <1> QED  BY <1>1, <1>3, <1>6, QuietRead

(* The facts about an insert.                                               *)
LEMMA Inserted ==
  ASSUME Inv, NEW j \in Jobs, InsertInvoice(j)
  PROVE  /\ job[j] \in NumberingJob /\ job[j].op = "invoice.insert"
         /\ Min(Unused) \in Invoices /\ invoices[Min(Unused)] = None
         /\ invoices' \in [Invoices -> InvoiceDoc \cup {None, Gone}]
         /\ invoices'[Min(Unused)] = job[j].doc
         /\ \A i \in Invoices \ {Min(Unused)} : invoices'[i] = invoices[i]
         /\ Stored' = Stored \cup {Min(Unused)}
  <1> DEFINE m == Min(Unused)
  <1>1. job[j] \in NumberingJob /\ job[j].op = "invoice.insert"
    BY DEF InsertInvoice, Inv, Shapes, Relies, Numberings
  <1>2. invoices' = [invoices EXCEPT ![m] = job[j].doc]
    BY DEF InsertInvoice, Put
  <1>3. m \in Unused
    <2>1. j \in NumberingJobs
      BY <1>1 DEF NumberingJobs, Numberings
    <2>2. IsFiniteSet(NumberingJobs)
      BY InvoiceAssumption, FS_Subset DEF NumberingJobs
    <2>3. Cardinality(NumberingJobs) # 0 /\ Cardinality(NumberingJobs) \in Nat
      BY <2>1, <2>2, FS_EmptySet, FS_CardinalityType
    <2>4. Cardinality(Unused) # 0
      BY <2>3, Counts DEF Inv, RoomLeft
    <2>5. Unused # {}
      BY <2>4, FS_EmptySet
    <2>6. Unused \in SUBSET Nat
      BY InvoiceAssumption DEF Unused
    <2> QED  BY <2>5, <2>6, MinInSet
  <1>4. m \in Invoices /\ invoices[m] = None
    BY <1>3 DEF Unused
  <1>5. invoices \in [Invoices -> InvoiceDoc \cup {None, Gone}] /\ job[j].doc \in InvoiceDoc
    BY <1>1 DEF Inv, Shapes, InvoiceTypeOK, NumberingJob
  <1>6. job[j].doc # None /\ job[j].doc # Gone
    BY <1>5, NullIsNoInvoice
  <1> HIDE DEF m
  <1>7. /\ invoices' \in [Invoices -> InvoiceDoc \cup {None, Gone}]
        /\ invoices'[m] = job[j].doc
        /\ \A i \in Invoices \ {m} : invoices'[i] = invoices[i]
    BY <1>2, <1>4, <1>5
  <1>8. Stored' = Stored \cup {m}
    BY <1>4, <1>6, <1>7 DEF Stored
  <1> QED  BY <1>1, <1>4, <1>7, <1>8 DEF m

LEMMA InsertQuiet ==
  ASSUME Inv, Quiet, OneInFlight', NEW j \in Jobs, InsertInvoice(j)
  PROVE  Quiet'
  <1>1. PICK m, q, doc, s : /\ m = Min(Unused) /\ q = job[j].quote /\ doc = job[j].doc
                            /\ s = IF q = None THEN Idle ELSE Link(q, m)
    OBVIOUS
  <1>2. /\ job[j].op = "invoice.insert" /\ m \in Invoices /\ invoices[m] = None
        /\ invoices'[m] = doc /\ \A i \in Invoices \ {m} : invoices'[i] = invoices[i]
        /\ Stored' = Stored \cup {m}
    BY <1>1, Inserted
  <1>3. Become(j, s)
    BY <1>1 DEF InsertInvoice, Finish
  <1>4. UndisturbedNumbering(job[j])
    BY <1>2 DEF Quiet, Undisturbed, Numberings
  <1>5. AllSummed'
    <2>1. \A i \in Stored : invoices'[i] = invoices[i] /\ Summed(invoices[i])
      BY <1>2 DEF Stored, Quiet, AllSummed
    <2>2. Summed(invoices'[m])
      BY <1>1, <1>2, <1>4 DEF UndisturbedNumbering
    <2>3. \A i \in Stored' : Summed(invoices'[i])
      BY <1>2, <2>1, <2>2
    <2> QED  BY <2>3 DEF AllSummed, Summed
  <1>6. Undisturbed(s)'
    <2>1. CASE q = None
      <3>1. s = Idle
        BY <1>1, <2>1
      <3> QED  BY <3>1 DEF Undisturbed, LinkAlone, Idle, Numberings, Saves
    <2>2. CASE q # None
      <3> DEFINE link == [converted |-> m]
      <3>1. s.op = "invoice.link" /\ s.id = q /\ s.sends = link
        BY <1>1, <2>2 DEF Link
      <3>2. DOMAIN link = {"converted"}
        OBVIOUS
      <3>3. q \in Stored /\ invoices'[q] = invoices[q] /\ q \in Stored'
        BY <1>1, <1>2, <1>4, <2>2 DEF UndisturbedNumbering, Stored
      <3>4. invoices[q] \in InvoiceDoc /\ Summed(invoices[q])
        BY <3>3, StoredDoc DEF Quiet, AllSummed
      <3> HIDE DEF link
      <3>5. \A f \in DOMAIN link : f \notin {"lines"} \cup AmountFields
        BY <3>2 DEF AmountFields
      <3>6. Summed(Updated(invoices[q], link))
        BY <3>4, <3>5, SummedStays
      <3>7. Summed(Updated(invoices'[q], link))
        BY <3>3, <3>6
      <3>8. UndisturbedSave(s)'
        BY <3>1, <3>2, <3>3, <3>7 DEF UndisturbedSave
      <3>9. DOMAIN s.sends = {"converted"}
        BY <3>1, <3>2
      <3> QED  BY <3>1, <3>8, <3>9 DEF Undisturbed, LinkAlone, Numberings, Saves
    <2> QED  BY <2>1, <2>2
  <1>7. job[j] # Idle
    BY <1>2 DEF Idle
  <1> QED  BY <1>3, <1>5, <1>6, <1>7, QuietStep DEF Quiet

(* The facts about the save of a document still there.                      *)
LEMMA SavedDoc ==
  ASSUME Inv, NEW j \in Jobs, SaveInvoice(j), job[j].id \in Stored
  PROVE  /\ invoices[job[j].id] \in InvoiceDoc
         /\ SendTyped(job[j].sends)
         /\ invoices'[job[j].id] = Updated(invoices[job[j].id], job[j].sends)
         /\ \A i \in Invoices \ {job[j].id} : invoices'[i] = invoices[i]
         /\ Stored' = Stored
  <1> DEFINE id == job[j].id
             d == Updated(invoices[id], job[j].sends)
  <1>1. invoices[id] \in InvoiceDoc /\ id \in Invoices
    BY StoredDoc
  <1>2. SendTyped(job[j].sends)
    BY DEF SaveInvoice, Inv, Shapes, Relies, SendOK, Saves
  <1>3. d \in InvoiceDoc
    BY <1>1, <1>2, UpdatedOK
  <1>4. invoices' = [invoices EXCEPT ![id] = d]
    BY DEF SaveInvoice, Put
  <1>5. invoices \in [Invoices -> InvoiceDoc \cup {None, Gone}]
    BY DEF Inv, Shapes, InvoiceTypeOK
  <1> HIDE DEF d, id
  <1>6. invoices'[id] = d /\ \A i \in Invoices \ {id} : invoices'[i] = invoices[i]
    BY <1>1, <1>4, <1>5
  <1>7. d # None /\ d # Gone
    BY <1>3, NullIsNoInvoice
  <1>8. id \in Stored
    BY DEF id
  <1>9. Stored' = Stored
    BY <1>6, <1>7, <1>8 DEF Stored
  <1> QED  BY <1>1, <1>2, <1>6, <1>9 DEF d, id

LEMMA SaveQuiet ==
  ASSUME Inv, Quiet, OneInFlight', NEW j \in Jobs, SaveInvoice(j)
  PROVE  Quiet'
  <1>1. job[j].op \in Saves /\ Become(j, Idle)
    BY DEF SaveInvoice, Finish, Saves
  <1>2. UndisturbedSave(job[j])
    BY <1>1 DEF Quiet, Undisturbed
  <1>3. job[j].id \in Stored
    BY <1>2 DEF UndisturbedSave
  <1>4. AllSummed'
    <2>1. \A i \in Stored : Summed(invoices'[i])
      BY <1>2, <1>3, SavedDoc DEF UndisturbedSave, Quiet, AllSummed, Stored
    <2> QED  BY <1>3, <2>1, SavedDoc DEF AllSummed, Summed
  <1>5. Undisturbed(Idle)' /\ job[j] # Idle
    BY <1>1 DEF Undisturbed, LinkAlone, Idle, Numberings, Saves
  <1> QED  BY <1>1, <1>4, <1>5, QuietStep DEF Quiet

LEMMA DeleteQuiet ==
  ASSUME Inv, Quiet, OneInFlight', NEW j \in Jobs, DeleteInvoice(j)
  PROVE  Quiet'
  <1> DEFINE id == job[j].id
  <1>1. job[j].op = "invoice.delete" /\ Become(j, Idle)
        /\ invoices' = [invoices EXCEPT ![id] = Gone]
    BY DEF DeleteInvoice, Put, Finish
  <1>2. invoices \in [Invoices -> InvoiceDoc \cup {None, Gone}]
    BY DEF Inv, Shapes, InvoiceTypeOK
  <1>3. id \in Invoices
    BY <1>1 DEF Inv, Shapes, Relies
  <1> HIDE DEF id
  <1>4. Stored' \subseteq Stored /\ \A i \in Stored' : invoices'[i] = invoices[i]
    BY <1>1, <1>2, <1>3 DEF Stored
  <1>5. AllSummed'
    BY <1>4 DEF Quiet, AllSummed, Summed
  <1>6. Undisturbed(Idle)' /\ job[j] # Idle
    BY <1>1 DEF Undisturbed, LinkAlone, Idle, Numberings, Saves
  <1> QED  BY <1>1, <1>5, <1>6, QuietStep DEF Quiet

(* A failure leaves idle handlers.                                          *)
LEMMA FaultQuiet ==
  ASSUME Inv, Quiet, (Crash /\ UNCHANGED <<invoices, rewritten>>) \/ (\E j \in Jobs : InvoiceAbort(j))
  PROVE  Quiet'
  <1>1. UNCHANGED <<invoices, rewritten>> /\ \A k \in Jobs : job'[k] = job[k] \/ job'[k] = Idle
    BY DEF Crash, InvoiceAbort, Abort, Finish, Become, Inv, Shapes
  <1>2. Stored' = Stored /\ AllSummed' /\ OneInFlight'
    BY <1>1 DEF Stored, Quiet, AllSummed, OneInFlight
  <1>3. \A k \in Jobs : Undisturbed(job[k])'
    <2> SUFFICES ASSUME NEW k \in Jobs
                 PROVE  Undisturbed(job[k])'
      OBVIOUS
    <2>1. CASE job'[k] = Idle
      BY <2>1 DEF Undisturbed, LinkAlone, Idle, Numberings, Saves
    <2>2. CASE job'[k] = job[k]
      BY <1>1, <1>2, <2>2 DEF Quiet, Undisturbed, UndisturbedNumbering, UndisturbedSave,
                          LinkAlone, BilledFor
    <2> QED  BY <1>1, <2>1, <2>2
  <1> QED  BY <1>2, <1>3 DEF Quiet

LEMMA StutterQuiet ==
  ASSUME Quiet, UNCHANGED invoiceVars
  PROVE  Quiet'
  <1>1. Stored' = Stored /\ AllSummed' /\ OneInFlight'
    BY DEF invoiceVars, Stored, Quiet, AllSummed, OneInFlight
  <1> QED  BY <1>1 DEF invoiceVars, Quiet, Undisturbed, UndisturbedNumbering, UndisturbedSave,
                       LinkAlone, BilledFor

(* A step of the instance is one of the service.                            *)
LEMMA InstanceStep ==
  ASSUME [MCNext]_<<invoiceVars, raced, calls>>
  PROVE  [InvoiceNext]_invoiceVars
  BY DEF MCNext, InvoiceNext, invoiceVars

LEMMA NextSerial == SerialInv /\ [MCNext]_<<invoiceVars, raced, calls>> => SerialInv'
  <1> SUFFICES ASSUME SerialInv, [MCNext]_<<invoiceVars, raced, calls>>
               PROVE  SerialInv'
    OBVIOUS
  <1>1. Inv /\ Inv'
    BY InstanceStep, NextInv DEF SerialInv
  <1>2. ASSUME NEW n, Watched(n)
        PROVE  raced' \in BOOLEAN /\ (~raced' => Quiet /\ OneInFlight')
    BY <1>2, RacedStays DEF SerialInv
  <1>3. ASSUME NEW j \in Jobs, NEW user \in Users, InvoiceCall(j, user), Quiet, OneInFlight'
        PROVE  Quiet'
    BY <1>1, <1>3, CreateQuiet, UpdateQuiet, StatusQuiet, RemoveQuiet, ConvertQuiet
       DEF InvoiceCall, Types
  <1>4. ASSUME NEW j \in Jobs, InvoiceStep(j), Quiet, OneInFlight'
        PROVE  Quiet'
    BY <1>1, <1>4, NumberQuiet, InsertQuiet, SaveQuiet, DeleteQuiet DEF InvoiceStep
  <1>5. CASE MCNext
    <2>1. raced' \in BOOLEAN /\ (~raced' => Quiet /\ OneInFlight')
      BY <1>2, <1>5 DEF MCNext
    <2>2. ASSUME ~raced'
          PROVE  Quiet'
      BY <1>1, <1>3, <1>4, <1>5, <2>1, <2>2, FaultQuiet DEF MCNext
    <2> QED  BY <1>1, <2>1, <2>2 DEF SerialInv
  <1>6. CASE UNCHANGED <<invoiceVars, raced, calls>>
    BY <1>1, <1>6, StutterQuiet DEF SerialInv
  <1> QED  BY <1>5, <1>6

(* The accepted quote that the instance may start with.                     *)
LEMMA AcceptedOK ==
  /\ Accepted \in InvoiceDoc /\ Summed(Accepted)
  /\ Accepted.series = "quote" /\ Accepted.type = "quote"
  /\ Accepted.number = 1 /\ Accepted.converted = None
  <1> DEFINE lines == CHOOSE lines \in Drafts : TRUE
             d == Draft("quote", o1, c1, p1, "accepted", lines)
  <1>1. PICK l, status, type : l = lines /\ status = "accepted" /\ type = "quote"
    OBVIOUS
  <1>2. l \in Drafts \cup Edits /\ status \in InvoiceStatus /\ type \in Types
    BY <1>1, InstanceAssumption DEF InvoiceStatus, Types
  <1>3. d = Draft(type, o1, c1, p1, status, l) /\ Accepted = [d EXCEPT !.number = 1]
    BY <1>1 DEF Accepted
  <1> HIDE DEF d
  <1>4. DraftShape(d, type, o1, c1, p1)
    BY <1>2, <1>3, InstanceAssumption, DraftOK DEF Billers
  <1>5. Summed(d)
    BY <1>3, DraftSummed
  <1>6. /\ Accepted \in InvoiceDoc
        /\ Accepted.series = "quote" /\ Accepted.type = "quote"
        /\ Accepted.number = 1 /\ Accepted.converted = None
        /\ Accepted.lines = d.lines /\ \A f \in AmountFields : Accepted[f] = d[f]
    BY <1>1, <1>3, <1>4 DEF DraftShape, InvoiceDoc, AmountFields
  <1> QED  BY <1>5, <1>6 DEF Summed

LEMMA InitSerial == MCInit => SerialInv
  <1> SUFFICES ASSUME MCInit
               PROVE  SerialInv
    OBVIOUS
  <1>1. /\ BackendInit /\ rewritten = {} /\ raced = FALSE
        /\ \A j \in Jobs : job[j] = Idle
    BY DEF MCInit, BackendInit
  <1>2. CASE invoices = [i \in Invoices |-> None]
    <2>1. Inv
      BY <1>1, <1>2, InitInv DEF InvoiceInit
    <2>2. Stored = {}
      BY <1>2 DEF Stored
    <2>3. Quiet
      BY <1>1, <2>2, IdleUndisturbed DEF Quiet, OneInFlight, AllSummed
    <2> QED  BY <1>1, <2>1, <2>3 DEF SerialInv
  <1>3. CASE invoices = [i \in Invoices |-> IF i = 1 THEN Accepted ELSE None]
    <2>1. /\ Accepted \in InvoiceDoc /\ Accepted # None /\ Accepted # Gone
          /\ 1 \in Invoices /\ None # Gone
      BY AcceptedOK, InstanceAssumption, NullIsNoInvoice
    <2>2. Stored = {1} /\ invoices[1] = Accepted
          /\ invoices \in [Invoices -> InvoiceDoc \cup {None, Gone}]
      BY <1>3, <2>1 DEF Stored
    <2>3. Shapes
      BY <1>1, <2>2 DEF Shapes, InvoiceTypeOK, BackendInit, Relies, Idle, Numberings, Saves
    <2>4. Linked
      BY <2>2, AcceptedOK DEF Linked
    <2>5. RoomLeft
      <3>1. NumberingJobs = {}
        BY <1>1 DEF NumberingJobs, Numberings, Idle
      <3> QED  BY <3>1, FS_EmptySet, Counts DEF RoomLeft
    <2>6. Contiguous
      <3>1. Series("quote") = {1} /\ Series("invoice") = {}
        BY <2>2, AcceptedOK DEF Series
      <3>2. Cardinality({1}) = 1 /\ Cardinality({}) = 0
        BY FS_Singleton, FS_EmptySet
      <3>3. {invoices[i].number : i \in Series("quote")} = 1..Cardinality(Series("quote"))
        <4>1. {invoices[i].number : i \in Series("quote")} = {1}
          BY <2>2, <3>1, AcceptedOK
        <4>2. 1..1 = {1}
          OBVIOUS
        <4> QED  BY <3>1, <3>2, <4>1, <4>2
      <3>4. {invoices[i].number : i \in Series("invoice")} = 1..Cardinality(Series("invoice"))
        BY <3>1, <3>2
      <3> QED  BY <3>3, <3>4 DEF Contiguous
    <2>7. NextNumbers
      BY <1>1 DEF NextNumbers, Idle
    <2>8. Quiet
      BY <1>1, <2>2, AcceptedOK, IdleUndisturbed DEF Quiet, OneInFlight, AllSummed
    <2> QED  BY <1>1, <2>3, <2>4, <2>5, <2>6, <2>7, <2>8 DEF SerialInv, Inv
  <1> QED  BY <1>2, <1>3 DEF MCInit

LEMMA SerialSuffices == SerialInv => SerialAmounts
  <1> SUFFICES ASSUME SerialInv, ~raced, NEW i \in Stored
               PROVE  Amounts(i)
    BY DEF SerialAmounts
  <1> DEFINE doc == invoices[i]
             lines == doc.lines
  <1>1. Summed(doc) /\ doc \in InvoiceDoc
    BY StoredDoc DEF SerialInv, Quiet, AllSummed
  <1>2. lines \in Drafts \cup Edits
    BY <1>1, DocFields
  <1>3. DOMAIN Totals(lines) = AmountFields
    BY <1>2, TotalsOK
  <1>4. \A f \in DOMAIN Totals(lines) : doc[f] = Totals(lines)[f]
    BY <1>1, <1>3 DEF Summed
  <1>5. AddUp(Totals(lines)) /\ PrintedAddUp(lines, doc)
    <2> HIDE DEF doc, lines
    <2> QED  BY <1>2, <1>4, TotalsAddUp
  <1> QED  BY <1>4, <1>5 DEF Amounts

(* While no two handlers have overlapped, the amounts of every document are *)
(* those of its lines; they add up to a cent and agree with what the form   *)
(* showed and the PDF prints, whatever the lines (calculateTotals,          *)
(* invoices.service.ts:68-113).                                             *)
THEOREM AmountsAreRight == MCSpec => []SerialAmounts
  <1>1. MCSpec => []SerialInv
    BY InitSerial, NextSerial, PTL DEF MCSpec
  <1> QED  BY <1>1, SerialSuffices, PTL

----------------------------------------------------------------------------
(* From here on: the books.  A handler alone sends at most one link of a    *)
(* conversion, and only that is shown before it is stored.                  *)
Linking(s, q) == s.op = "invoice.link" /\ s.id = q

LinkOf(s, q, d) == IF Linking(s, q) THEN s.sends.converted ELSE d.converted

View(d, link) ==
  [series |-> d.series, number |-> d.number, type |-> d.type, order |-> d.order,
   customer |-> d.customer, provider |-> d.provider, status |-> d.status, converted |-> link]

Viewed(docs, s) ==
  [i \in Invoices |-> IF docs[i] \in {None, Gone} THEN docs[i]
                      ELSE View(docs[i], LinkOf(s, i, docs[i]))]

LinkIn(docs, jobs, q) ==
  LET links == {k \in Jobs : jobs[k].op = "invoice.link" /\ jobs[k].id = q}
  IN IF links = {} THEN docs[q].converted ELSE jobs[CHOOSE k \in links : TRUE].sends.converted

BooksIn(docs, jobs) ==
  [i \in Invoices |-> IF docs[i] \in {None, Gone} THEN docs[i]
                      ELSE View(docs[i], LinkIn(docs, jobs, i))]

(* What the books show with one handler in flight.                          *)
LEMMA BooksOfOne ==
  ASSUME NEW docs, NEW jobs, NEW j \in Jobs, NEW s, jobs[j] = s,
         \A k \in Jobs \ {j} : jobs[k] = Idle
  PROVE  BooksIn(docs, jobs) = Viewed(docs, s)
  <1>1. ASSUME NEW q
        PROVE  LinkIn(docs, jobs, q) = LinkOf(s, q, docs[q])
    <2> DEFINE links == {k \in Jobs : jobs[k].op = "invoice.link" /\ jobs[k].id = q}
    <2>1. links = IF Linking(s, q) THEN {j} ELSE {}
      BY DEF Linking, Idle
    <2>2. LinkIn(docs, jobs, q) = IF links = {} THEN docs[q].converted
                                  ELSE jobs[CHOOSE k \in links : TRUE].sends.converted
      BY DEF LinkIn
    <2> HIDE DEF links
    <2>3. CASE Linking(s, q)
      <3>1. (CHOOSE k \in links : TRUE) = j
        BY <2>1, <2>3
      <3> QED  BY <2>1, <2>2, <2>3, <3>1 DEF LinkOf
    <2>4. CASE ~Linking(s, q)
      BY <2>1, <2>2, <2>4 DEF LinkOf
    <2> QED  BY <2>3, <2>4
  <1> QED  BY <1>1 DEF BooksIn, Viewed

LEMMA BooksNow ==
  ASSUME NEW j \in Jobs, NEW s, job[j] = s, \A k \in Jobs \ {j} : job[k] = Idle
  PROVE  ShownBooks = Viewed(invoices, s)
  <1>1. ShownBooks = BooksIn(invoices, job)
    BY Zenon DEF ShownBooks, Shown, ShownLink, BooksIn, LinkIn, View
  <1> QED  BY <1>1, BooksOfOne

LEMMA BooksNext ==
  ASSUME NEW docs, NEW jobs, invoices' = docs, job' = jobs,
         NEW j \in Jobs, NEW s, jobs[j] = s, \A k \in Jobs \ {j} : jobs[k] = Idle
  PROVE  ShownBooks' = Viewed(docs, s)
  <1>1. ShownBooks' = BooksIn(docs, jobs)
    BY Zenon DEF ShownBooks, Shown, ShownLink, BooksIn, LinkIn, View
  <1> QED  BY <1>1, BooksOfOne

LEMMA ViewOK ==
  ASSUME NEW d \in InvoiceDoc, NEW link \in Invoices \cup {None}
  PROVE  View(d, link) \in BookView /\ View(d, link) # None /\ View(d, link) # Gone
  <1>1. View(d, link) \in BookView
    BY DEF View, InvoiceDoc, BookView
  <1> QED  BY <1>1, NullIsNoInvoice

(* The link shown is a document or null.                                    *)
LEMMA LinkTyped ==
  ASSUME Inv, NEW j \in Jobs, LinkAlone(job[j]), NEW q \in Stored
  PROVE  LinkOf(job[j], q, invoices[q]) \in Invoices \cup {None}
  <1>1. invoices[q] \in InvoiceDoc
    BY StoredDoc
  <1>2. invoices[q].converted \in Invoices \cup {None}
    BY <1>1 DEF InvoiceDoc
  <1>3. Linking(job[j], q) => job[j].sends["converted"] \in Invoices \cup {None}
    BY DEF Linking, LinkAlone, Inv, Shapes, Relies, Saves, SendOK, SendTyped, Typed
  <1> QED  BY <1>2, <1>3 DEF LinkOf

(* The books show the documents that are stored.                            *)
LEMMA StoredShown ==
  ASSUME Inv, NEW j \in Jobs, LinkAlone(job[j]), \A k \in Jobs \ {j} : job[k] = Idle
  PROVE  /\ Books!Stored = Stored
         /\ \A i \in Stored : ShownBooks[i] = View(invoices[i], LinkOf(job[j], i, invoices[i]))
         /\ \A i \in Invoices : invoices[i] = None => ShownBooks[i] = None
         /\ DOMAIN ShownBooks = Invoices
  <1>1. PICK s : s = job[j]
    OBVIOUS
  <1>2. ShownBooks = Viewed(invoices, s)
    BY <1>1, BooksNow
  <1>3. \A i \in Stored : LinkOf(s, i, invoices[i]) \in Invoices \cup {None}
                          /\ invoices[i] \in InvoiceDoc
    BY <1>1, LinkTyped, StoredDoc
  <1>4. \A i \in Invoices :
          ShownBooks[i] = IF invoices[i] \in {None, Gone} THEN invoices[i]
                          ELSE View(invoices[i], LinkOf(s, i, invoices[i]))
    BY <1>2 DEF Viewed
  <1>5. \A i \in Stored : ShownBooks[i] = View(invoices[i], LinkOf(s, i, invoices[i]))
                          /\ ShownBooks[i] \notin {None, Gone}
    BY <1>3, <1>4, ViewOK DEF Stored
  <1>6. Books!Stored = Stored
    BY <1>4, <1>5 DEF Books!Stored, Stored
  <1>7. DOMAIN ShownBooks = Invoices
    BY DEF ShownBooks
  <1> QED  BY <1>1, <1>4, <1>5, <1>6, <1>7
----------------------------------------------------------------------------
(* Handlers that send no link leave the books to the documents.             *)
NoLink(s) == s.op # "invoice.link"

LEMMA NoLinkShows ==
  ASSUME NEW docs, NEW s, NoLink(s)
  PROVE  Viewed(docs, s) = [i \in Invoices |-> IF docs[i] \in {None, Gone} THEN docs[i]
                                               ELSE View(docs[i], docs[i].converted)]
  BY DEF NoLink, Viewed, LinkOf, Linking

LEMMA BooksRead ==
  ASSUME Inv, OneInFlight, OneInFlight', UNCHANGED invoices, NEW j \in Jobs, NEW s, Become(j, s),
         s # Idle \/ job[j] # Idle, NoLink(job[j]), NoLink(s)
  PROVE  UNCHANGED ShownBooks
  <1>1. /\ job'[j] = s
        /\ \A k \in Jobs \ {j} : job'[k] = Idle /\ job[k] = Idle
    BY OthersIdle
  <1>2. PICK docs, jobs, t : docs = invoices /\ jobs = job' /\ t = job[j]
    OBVIOUS
  <1>3. ShownBooks = Viewed(docs, t)
    BY <1>1, <1>2, BooksNow
  <1>4. docs = invoices' /\ jobs[j] = s /\ \A k \in Jobs \ {j} : jobs[k] = Idle
    BY <1>1, <1>2
  <1>5. ShownBooks' = Viewed(docs, s)
    BY <1>2, <1>4, BooksNext
  <1>6. NoLink(t)
    BY <1>2
  <1> QED  BY <1>3, <1>5, <1>6, NoLinkShows

(* A call changes no document and sends no link.                            *)
LEMMA CallShows ==
  ASSUME NEW j \in Jobs, NEW user \in Users, InvoiceCall(j, user)
  PROVE  job[j] = Idle /\ UNCHANGED invoices /\ \E s : Become(j, s) /\ NoLink(s) /\ s # Idle
  <1>1. ASSUME NEW d, NEW q
        PROVE  NoLink(Numbering(d, q)) /\ Numbering(d, q) # Idle
    BY DEF NoLink, Numbering, Idle
  <1>2. ASSUME NEW type, NEW o, NEW c, NEW status, NEW lines,
               CreateLoad(j, user, type, o, c, status, lines)
        PROVE  job[j] = Idle /\ UNCHANGED invoices /\ \E s : Become(j, s) /\ NoLink(s) /\ s # Idle
    <2>1. PICK d : Become(j, Numbering(d, None))
      BY <1>2 DEF CreateLoad
    <2> QED  BY <1>1, <1>2, <2>1 DEF CreateLoad, Free
  <1>3. ASSUME NEW i \in Stored, ConvertLoad(j, user, i)
        PROVE  job[j] = Idle /\ UNCHANGED invoices /\ \E s : Become(j, s) /\ NoLink(s) /\ s # Idle
    <2>1. PICK d : Become(j, Numbering(d, i))
      BY <1>3 DEF ConvertLoad
    <2> QED  BY <1>1, <1>3, <2>1 DEF ConvertLoad, Called, Free
  <1>4. ASSUME NEW i \in Stored, RemoveLoad(j, user, i)
        PROVE  job[j] = Idle /\ UNCHANGED invoices /\ \E s : Become(j, s) /\ NoLink(s) /\ s # Idle
    <2> DEFINE s == [op |-> "invoice.delete", id |-> i]
    <2>1. NoLink(s) /\ s # Idle
      BY DEF NoLink, Idle
    <2> QED  BY <1>4, <2>1 DEF RemoveLoad, Called, Free
  <1>5. ASSUME NEW i, NEW t, Send(j, i, t)
        PROVE  \E s : Become(j, s) /\ NoLink(s) /\ s # Idle
    <2> DEFINE s == [op |-> "invoice.save", id |-> i, sends |-> t]
    <2>1. NoLink(s) /\ s # Idle
      BY DEF NoLink, Idle
    <2> QED  BY <1>5, <2>1 DEF Send
  <1>6. ASSUME NEW i \in Stored, NEW dto \in Dtos, UpdateLoad(j, user, i, dto)
        PROVE  job[j] = Idle /\ UNCHANGED invoices /\ \E s : Become(j, s) /\ NoLink(s) /\ s # Idle
    <2>1. job[j] = Idle /\ UNCHANGED invoices /\ \E t : Send(j, i, t)
      BY <1>6 DEF UpdateLoad, Called, Free
    <2> QED  BY <1>5, <2>1
  <1>7. ASSUME NEW i \in Stored, PayLoad(j, user, i) \/ CancelLoad(j, user, i)
                                 \/ AcceptLoad(j, user, i) \/ RejectLoad(j, user, i)
        PROVE  job[j] = Idle /\ UNCHANGED invoices /\ \E s : Become(j, s) /\ NoLink(s) /\ s # Idle
    <2>1. job[j] = Idle /\ UNCHANGED invoices /\ \E t : Send(j, i, t)
      BY <1>7 DEF PayLoad, CancelLoad, AcceptLoad, RejectLoad, Called, Free, Assign
    <2> QED  BY <1>5, <2>1
  <1> QED  BY <1>2, <1>3, <1>4, <1>6, <1>7 DEF InvoiceCall

LEMMA CallKeeps ==
  ASSUME Inv, Quiet, OneInFlight', NEW j \in Jobs, NEW user \in Users, InvoiceCall(j, user)
  PROVE  UNCHANGED ShownBooks
  <1>1. PICK s : Become(j, s) /\ NoLink(s) /\ s # Idle
    BY CallShows
  <1>2. job[j] = Idle /\ UNCHANGED invoices
    BY CallShows
  <1>3. NoLink(job[j])
    BY <1>2 DEF NoLink, Idle
  <1> QED  BY <1>1, <1>2, <1>3, BooksRead DEF Quiet

(* Nor does the reading of a number, or a number taken.                     *)
LEMMA NumberKeeps ==
  ASSUME Inv, Quiet, OneInFlight', NEW j \in Jobs, ReadNumber(j) \/ NumberTaken(j)
  PROVE  UNCHANGED ShownBooks
  <1>1. job[j].op \in Numberings /\ UNCHANGED invoices
    BY DEF ReadNumber, NumberTaken, Numberings
  <1>2. job[j] \in NumberingJob
    BY <1>1 DEF Inv, Shapes, Relies
  <1>3. NoLink(job[j]) /\ job[j] # Idle
    BY <1>1 DEF NoLink, Idle, Numberings
  <1>4. ASSUME ReadNumber(j)
        PROVE  \E s : Become(j, s) /\ NoLink(s)
    <2> DEFINE n == Highest(job[j].doc.type) + 1
               s == [job[j] EXCEPT !.op = "invoice.insert", !.doc.number = n]
    <2>1. Become(j, s)
      BY <1>4 DEF ReadNumber
    <2> HIDE DEF n
    <2>2. NoLink(s)
      BY <1>2 DEF NoLink, NumberingJob
    <2> QED  BY <2>1, <2>2
  <1>5. ASSUME NumberTaken(j)
        PROVE  \E s : Become(j, s) /\ NoLink(s)
    <2> DEFINE s == [job[j] EXCEPT !.op = "invoice.number", !.attempts = @ + 1]
    <2>1. Become(j, Idle) \/ Become(j, s)
      BY <1>5 DEF NumberTaken, Finish
    <2>2. NoLink(s) /\ NoLink(Idle)
      BY <1>2 DEF NoLink, NumberingJob, Idle
    <2> QED  BY <2>1, <2>2
  <1>6. PICK s : Become(j, s) /\ NoLink(s)
    BY <1>4, <1>5
  <1> QED  BY <1>1, <1>3, <1>6, BooksRead DEF Quiet
----------------------------------------------------------------------------
(* A change of the books' entries is a step of the promise.                 *)
Entries(B) == B = [k \in Invoices |-> B[k]]

LinkedTo(entry, i) == [entry EXCEPT !.converted = i]
Invoiced(entry, n) ==
  [entry EXCEPT !.series = "invoice", !.number = n, !.type = "invoice", !.status = "draft"]
Revised(entry, status, link) == [entry EXCEPT !.status = status, !.converted = link]

LEMMA IssueIsStep ==
  ASSUME NEW B, NEW C, ShownBooks = B, ShownBooks' = C, Entries(B), Entries(C),
         NEW i \in Invoices, \A k \in Invoices \ {i} : C[k] = B[k],
         B[i] = None, C[i] # None, C[i] # Gone, C[i].converted = None,
         C[i].series = C[i].type,
         \A k \in Books!Stored : ~(B[k].series = C[i].series /\ B[k].number = C[i].number),
         C[i].type = "invoice" =>
           C[i].order # None /\ \A k \in Books!Stored : ~(B[k].type = "invoice" /\ B[k].order = C[i].order)
  PROVE  Books!Next
  <1>1. C = [B EXCEPT ![i] = C[i]]
    BY DEF Entries
  <1>2. ~Books!Numbered(C[i].series, C[i].number)
    BY DEF Books!Numbered
  <1>3. C[i].type = "invoice" => C[i].order # None /\ ~Books!Billed(C[i].order)
    BY DEF Books!Billed
  <1>4. Books!Issue(i, C[i])
    BY <1>1, <1>2, <1>3 DEF Books!Issue
  <1> QED  BY <1>4 DEF Books!Next

LEMMA ConvertIsStep ==
  ASSUME NEW B, NEW C, ShownBooks = B, ShownBooks' = C, Entries(B), Entries(C),
         NEW q \in Books!Stored, q \in Invoices, NEW i \in Invoices, q # i,
         \A k \in Invoices \ {i, q} : C[k] = B[k],
         B[q].type = "quote", B[q].status = "accepted", B[q].converted = None,
         B[i] = None, C[i] # None, C[i] # Gone,
         \A k \in Books!Stored : ~(B[k].series = "invoice" /\ B[k].number = C[i].number),
         C[q] = LinkedTo(B[q], i), C[i] = Invoiced(B[q], C[i].number)
  PROVE  Books!Next
  <1>1. PICK x, y, n : x = C[q] /\ y = C[i] /\ n = C[i].number
    OBVIOUS
  <1>2. C = [B EXCEPT ![q] = x, ![i] = y]
    BY <1>1 DEF Entries
  <1>3. C = [B EXCEPT ![q].converted = i,
                      ![i] = [B[q] EXCEPT !.series = "invoice", !.number = n,
                                          !.type = "invoice", !.status = "draft"]]
    BY <1>1, <1>2 DEF LinkedTo, Invoiced
  <1>4. ~Books!Numbered("invoice", n)
    BY <1>1 DEF Books!Numbered
  <1>5. Books!Convert(q, i, n)
    BY <1>3, <1>4 DEF Books!Convert
  <1> QED  BY <1>1, <1>5 DEF Books!Next

LEMMA ReviseIsStep ==
  ASSUME NEW B, NEW C, ShownBooks = B, ShownBooks' = C, Entries(B), Entries(C),
         NEW i \in Books!Stored, i \in Invoices, \A k \in Invoices \ {i} : C[k] = B[k],
         C[i] # Gone, C[i] = Revised(B[i], C[i].status, C[i].converted),
         C[i].converted \in {B[i].converted, None}
  PROVE  Books!Next
  <1>1. PICK x, n, l : x = C[i] /\ n = C[i].status /\ l = C[i].converted
    OBVIOUS
  <1>2. C = [B EXCEPT ![i] = x]
    BY <1>1 DEF Entries
  <1>3. C = [B EXCEPT ![i].status = n, ![i].converted = l]
    BY <1>1, <1>2 DEF Revised
  <1>4. Books!Revise(i, n, l)
    BY <1>1, <1>3 DEF Books!Revise
  <1> QED  BY <1>1, <1>4 DEF Books!Next

LEMMA RewriteIsStep ==
  ASSUME NEW B, NEW C, ShownBooks = B, ShownBooks' = C, Entries(B), Entries(C),
         NEW i \in Books!Stored, i \in Invoices, \A k \in Invoices \ {i} : C[k] = B[k],
         C[i] # None, C[i] # Gone,
         \A f \in {"series", "number", "provider"} : C[i][f] = B[i][f]
  PROVE  Books!Rewrite(i, ShownBooks'[i])
  <1>1. C = [B EXCEPT ![i] = C[i]]
    BY DEF Entries
  <1> QED  BY <1>1 DEF Books!Rewrite, Books!Stored

LEMMA RemoveIsStep ==
  ASSUME NEW B, NEW C, ShownBooks = B, ShownBooks' = C, Entries(B), Entries(C),
         NEW i \in Books!Stored, i \in Invoices, \A k \in Invoices \ {i} : C[k] = B[k],
         B[i].status = "draft", C[i] = Gone
  PROVE  Books!Next
  <1>1. C = [B EXCEPT ![i] = Gone]
    BY DEF Entries
  <1>2. Books!Remove(i)
    BY <1>1 DEF Books!Remove
  <1> QED  BY <1>2 DEF Books!Next
----------------------------------------------------------------------------
(* The entry of a document that got a link, that was converted, or that     *)
(* changed its status.                                                      *)
LEMMA EntryLinked ==
  ASSUME NEW d \in InvoiceDoc, NEW a \in Invoices \cup {None}, NEW b \in Invoices \cup {None}
  PROVE  View(d, b) = LinkedTo(View(d, a), b)
  <1> DEFINE x == View(d, a)
             y == View(d, b)
  <1>1. x \in BookView /\ y \in BookView
    BY ViewOK
  <1>2. /\ y.series = x.series /\ y.number = x.number /\ y.type = x.type /\ y.order = x.order
        /\ y.customer = x.customer /\ y.provider = x.provider /\ y.status = x.status
        /\ y.converted = b
    BY DEF View
  <1> HIDE DEF x, y
  <1>3. y = LinkedTo(x, b)
    BY <1>1, <1>2 DEF BookView, LinkedTo
  <1> QED  BY <1>3 DEF x, y

LEMMA EntryConverted ==
  ASSUME NEW d \in InvoiceDoc, NEW e \in InvoiceDoc, d.type = "invoice", d.series = "invoice", d.status = "draft",
         d.converted = None, e.converted = None, \A f \in PartyFields : d[f] = e[f]
  PROVE  View(d, None) = Invoiced(View(e, None), View(d, None).number)
  <1> DEFINE x == View(e, None)
             y == View(d, None)
  <1>1. x \in BookView /\ y \in BookView
    BY ViewOK
  <1>2. /\ y.type = "invoice" /\ y.series = "invoice" /\ y.order = x.order
        /\ y.customer = x.customer /\ y.provider = x.provider /\ y.status = "draft"
        /\ y.converted = x.converted
    BY DEF View, PartyFields
  <1> HIDE DEF x, y
  <1>3. y = Invoiced(x, y.number)
    BY <1>1, <1>2 DEF BookView, Invoiced
  <1> QED  BY <1>3 DEF x, y

LEMMA EntryRevised ==
  ASSUME NEW d \in InvoiceDoc, NEW e \in InvoiceDoc,
         d.series = e.series, d.number = e.number, d.type = e.type,
         \A f \in PartyFields : d[f] = e[f],
         NEW a \in Invoices \cup {None}, NEW b \in Invoices \cup {None}
  PROVE  View(d, b) = Revised(View(e, a), View(d, b).status, View(d, b).converted)
  <1> DEFINE x == View(e, a)
             y == View(d, b)
  <1>1. x \in BookView /\ y \in BookView
    BY ViewOK
  <1>2. /\ y.series = x.series /\ y.number = x.number /\ y.type = x.type
        /\ y.order = x.order /\ y.customer = x.customer /\ y.provider = x.provider
    BY DEF View, PartyFields
  <1> HIDE DEF x, y
  <1>3. y = Revised(x, y.status, y.converted)
    BY <1>1, <1>2 DEF BookView, Revised
  <1> QED  BY <1>3 DEF x, y

----------------------------------------------------------------------------
(* What the books show before and after the step of the only handler.       *)
LEMMA BooksStep ==
  ASSUME Inv, Quiet, OneInFlight', NEW j \in Jobs, job[j] # Idle, NEW s, Become(j, s),
         NEW docs, docs = invoices', NEW B, NEW C, B = ShownBooks, C = ShownBooks'
  PROVE  /\ Entries(B) /\ Entries(C)
         /\ Books!Stored = Stored
         /\ \A i \in Stored : B[i] = View(invoices[i], LinkOf(job[j], i, invoices[i]))
         /\ \A i \in Invoices : invoices[i] = None => B[i] = None
         /\ \A i \in Invoices : C[i] = IF docs[i] \in {None, Gone} THEN docs[i]
                                       ELSE View(docs[i], LinkOf(s, i, docs[i]))
         /\ \A i \in Invoices : B[i] = IF invoices[i] \in {None, Gone} THEN invoices[i]
                                       ELSE View(invoices[i], LinkOf(job[j], i, invoices[i]))
  <1>1. /\ job'[j] = s
        /\ \A k \in Jobs \ {j} : job'[k] = Idle /\ job[k] = Idle
    BY OthersIdle DEF Quiet
  <1>2. PICK jobs, t : jobs = job' /\ t = job[j]
    OBVIOUS
  <1>3. B = Viewed(invoices, t)
    BY <1>1, <1>2, BooksNow
  <1>4. jobs[j] = s /\ \A k \in Jobs \ {j} : jobs[k] = Idle
    BY <1>1, <1>2
  <1>5. C = Viewed(docs, s)
    BY <1>2, <1>4, BooksNext
  <1>6. Entries(B) /\ Entries(C)
    BY <1>3, <1>5 DEF Entries, Viewed
  <1>7. LinkAlone(job[j])
    BY DEF Quiet, Undisturbed
  <1> QED  BY <1>1, <1>2, <1>3, <1>5, <1>6, <1>7, StoredShown DEF Viewed

LEMMA InsertKeeps ==
  ASSUME Inv, Quiet, OneInFlight', NEW j \in Jobs, InsertInvoice(j)
  PROVE  Books!Next
  <1>1. PICK m, q, doc, s, docs, B, C :
          /\ m = Min(Unused) /\ q = job[j].quote /\ doc = job[j].doc
          /\ s = IF q = None THEN Idle ELSE Link(q, m)
          /\ docs = invoices' /\ B = ShownBooks /\ C = ShownBooks'
    OBVIOUS
  <1>2. /\ job[j].op = "invoice.insert" /\ job[j] \in NumberingJob
        /\ m \in Invoices /\ invoices[m] = None
        /\ docs[m] = doc /\ \A i \in Invoices \ {m} : docs[i] = invoices[i]
    BY <1>1, Inserted
  <1>3. Become(j, s) /\ ~Taken(doc)
    BY <1>1 DEF InsertInvoice, Finish
  <1>4. /\ job[j] # Idle /\ doc \in InvoiceDoc /\ doc.converted = None
        /\ doc.series = doc.type
    BY <1>1, <1>2 DEF Idle, NumberingJob, Inv, Shapes, Relies, Numberings
  <1>5. doc # None /\ doc # Gone
    BY <1>4, NullIsNoInvoice
  <1>6. \A i \in Invoices : LinkOf(job[j], i, invoices[i]) = invoices[i].converted
    BY <1>2 DEF LinkOf, Linking
  <1>7. /\ Entries(B) /\ Entries(C) /\ Books!Stored = Stored
        /\ \A i \in Stored : B[i] = View(invoices[i], invoices[i].converted)
        /\ B[m] = None
        /\ \A i \in Invoices : C[i] = IF docs[i] \in {None, Gone} THEN docs[i]
                                      ELSE View(docs[i], LinkOf(s, i, docs[i]))
        /\ \A i \in Invoices : B[i] = IF invoices[i] \in {None, Gone} THEN invoices[i]
                                      ELSE View(invoices[i], invoices[i].converted)
    <2>1. /\ Entries(B) /\ Entries(C) /\ Books!Stored = Stored
          /\ \A i \in Stored : B[i] = View(invoices[i], LinkOf(job[j], i, invoices[i]))
          /\ \A i \in Invoices : invoices[i] = None => B[i] = None
          /\ \A i \in Invoices : C[i] = IF docs[i] \in {None, Gone} THEN docs[i]
                                        ELSE View(docs[i], LinkOf(s, i, docs[i]))
          /\ \A i \in Invoices : B[i] = IF invoices[i] \in {None, Gone} THEN invoices[i]
                                        ELSE View(invoices[i], LinkOf(job[j], i, invoices[i]))
      BY <1>1, <1>3, <1>4, BooksStep
    <2> QED  BY <1>2, <1>6, <2>1 DEF Stored
  <1>12. \A k \in Stored : B[k].type = invoices[k].type /\ B[k].number = invoices[k].number
                            /\ B[k].series = invoices[k].series /\ B[k].order = invoices[k].order
    <2>1. ASSUME NEW d
          PROVE  View(d, d.converted).type = d.type /\ View(d, d.converted).number = d.number
                 /\ View(d, d.converted).series = d.series
                 /\ View(d, d.converted).order = d.order
      BY DEF View
    <2> QED  BY <1>7, <2>1
  <1>8. \A k \in Stored : ~(B[k].series = doc.series /\ B[k].number = doc.number)
    BY <1>3, <1>12 DEF Taken, Series
  <1>9. UndisturbedNumbering(job[j])
    BY <1>2 DEF Quiet, Undisturbed, Numberings
  <1>10. CASE q = None
    <2>1. \A i \in Invoices : LinkOf(s, i, docs[i]) = docs[i].converted
      BY <1>1, <1>10 DEF LinkOf, Linking, Idle
    <2>2. \A k \in Invoices \ {m} : C[k] = B[k]
      BY <1>2, <1>7, <2>1
    <2>3. C[m] = View(doc, None)
      BY <1>2, <1>4, <1>5, <1>7, <2>1
    <2>4. C[m] # None /\ C[m] # Gone
      BY <1>4, <2>3, ViewOK
    <2>5. C[m].type = doc.type /\ C[m].series = doc.series /\ C[m].number = doc.number /\ C[m].order = doc.order
          /\ C[m].converted = None
      BY <2>3 DEF View
    <2>6. doc.type = "invoice" => doc.order # None
             /\ \A k \in Stored : ~(B[k].type = "invoice" /\ B[k].order = doc.order)
      BY <1>1, <1>9, <1>10, <1>12 DEF UndisturbedNumbering, BilledFor
    <2> QED  BY <1>1, <1>2, <1>4, <1>7, <1>8, <2>2, <2>4, <2>5, <2>6, IssueIsStep
  <1>11. CASE q # None
    <2>1. /\ q \in Stored /\ q \in Invoices /\ q # m
          /\ invoices[q].status = "accepted" /\ invoices[q].converted = None
          /\ doc.status = "draft"
      BY <1>1, <1>2, <1>9, <1>11 DEF UndisturbedNumbering, Stored
    <2>2. /\ doc.type = "invoice" /\ doc.series = "invoice" /\ invoices[q].type = "quote"
          /\ \A f \in PartyFields : doc[f] = invoices[q][f]
      <3>1. doc.type = "invoice"
        BY <1>1, <1>2, <1>11 DEF Inv, Shapes, Relies, Numberings, QuoteOK
      <3> QED  BY <1>1, <1>4, <1>9, <1>11, <3>1 DEF UndisturbedNumbering
    <2>3. \A i \in Invoices : LinkOf(s, i, docs[i]) = IF i = q THEN m ELSE docs[i].converted
      <3> DEFINE link == [converted |-> m]
      <3>1. s.op = "invoice.link" /\ s.id = q /\ s.sends = link
        BY <1>1, <1>11 DEF Link
      <3>2. "converted" \in DOMAIN link /\ link.converted = m
        OBVIOUS
      <3> HIDE DEF link
      <3> QED  BY <3>1, <3>2 DEF LinkOf, Linking
    <2>4. \A k \in Invoices \ {m, q} : C[k] = B[k]
      BY <1>2, <1>7, <2>3
    <2>5. C[m] = View(doc, None) /\ C[q] = View(invoices[q], m) /\ B[q] = View(invoices[q], None)
      BY <1>2, <1>4, <1>5, <1>7, <2>1, <2>3 DEF Stored
    <2>6. C[m] # None /\ C[m] # Gone
      BY <1>4, <2>5, ViewOK
    <2>7. invoices[q] \in InvoiceDoc
      BY <2>1, StoredDoc
    <2>8. C[q] = LinkedTo(B[q], m)
      BY <1>2, <2>5, <2>7, EntryLinked
    <2>9. C[m] = Invoiced(B[q], C[m].number)
      BY <1>4, <2>1, <2>2, <2>5, <2>7, EntryConverted
    <2>10. B[q].type = "quote" /\ B[q].status = "accepted" /\ B[q].converted = None
           /\ C[m].number = doc.number
      BY <2>1, <2>2, <2>5 DEF View
    <2>11. \A k \in Stored : ~(B[k].series = "invoice" /\ B[k].number = C[m].number)
      BY <1>8, <2>2, <2>10
    <2>12. /\ B = ShownBooks /\ C = ShownBooks' /\ Entries(B) /\ Entries(C)
           /\ q \in Books!Stored /\ B[m] = None /\ m \in Invoices
           /\ \A k \in Books!Stored : ~(B[k].series = "invoice" /\ B[k].number = C[m].number)
      BY <1>1, <1>2, <1>7, <2>1, <2>11
    <2> QED  BY <2>1, <2>4, <2>6, <2>8, <2>9, <2>10, <2>12, ConvertIsStep
  <1> QED  BY <1>10, <1>11

LEMMA SaveKeeps ==
  ASSUME Inv, Quiet, OneInFlight', NEW j \in Jobs, SaveInvoice(j)
  PROVE  Books!Next \/ \E i \in rewritten' : Books!Rewrite(i, ShownBooks'[i])
  <1>1. PICK t, i, docs, B, C :
          t = job[j] /\ i = t.id /\ docs = invoices' /\ B = ShownBooks /\ C = ShownBooks'
    OBVIOUS
  <1>2. t.op \in Saves /\ Become(j, Idle) /\ job[j] # Idle /\ rewritten' = rewritten
    BY <1>1 DEF SaveInvoice, Finish, Idle, Saves
  <1>3. UndisturbedSave(t) /\ LinkAlone(t)
    BY <1>1, <1>2 DEF Quiet, Undisturbed
  <1>4. i \in Stored
    BY <1>1, <1>3 DEF UndisturbedSave
  <1>5. i \in Invoices /\ invoices[i] \in InvoiceDoc /\ SendTyped(t.sends)
    BY <1>1, <1>4, SavedDoc, StoredDoc
  <1>6. PICK u : u = Updated(invoices[i], t.sends)
    OBVIOUS
  <1>7. docs[i] = u /\ \A k \in Invoices \ {i} : docs[k] = invoices[k]
    BY <1>1, <1>4, <1>6, SavedDoc
  <1>8. /\ u \in InvoiceDoc
        /\ \A f \in {"number", "series", "provider"} : u[f] = invoices[i][f]
        /\ \A f \in PartyFields \cup {"type"} : f \notin DOMAIN t.sends => u[f] = invoices[i][f]
        /\ u.converted = IF "converted" \in DOMAIN t.sends THEN t.sends["converted"]
                         ELSE invoices[i].converted
    BY <1>5, <1>6, UpdatedOK
  <1>9. u # None /\ u # Gone /\ u.converted \in Invoices \cup {None}
        /\ invoices[i].converted \in Invoices \cup {None}
    BY <1>5, <1>8, NullIsNoInvoice DEF InvoiceDoc
  <1>10. /\ Entries(B) /\ Entries(C) /\ Books!Stored = Stored
         /\ \A k \in Stored : B[k] = View(invoices[k], LinkOf(t, k, invoices[k]))
         /\ \A k \in Invoices : C[k] = IF docs[k] \in {None, Gone} THEN docs[k]
                                       ELSE View(docs[k], LinkOf(Idle, k, docs[k]))
         /\ \A k \in Invoices : B[k] = IF invoices[k] \in {None, Gone} THEN invoices[k]
                                       ELSE View(invoices[k], LinkOf(t, k, invoices[k]))
    <2>1. PICK s : s = Idle
      OBVIOUS
    <2>2. Become(j, s)
      BY <1>2, <2>1
    <2> QED  BY <1>1, <1>2, <2>1, <2>2, BooksStep
  <1>11. \A k, d : LinkOf(Idle, k, d) = d.converted
    BY DEF LinkOf, Linking, Idle
  <1>12. \A k \in Invoices \ {i} : C[k] = B[k]
    <2>1. \A k \in Invoices \ {i} : \A d : LinkOf(t, k, d) = d.converted
      BY <1>1 DEF LinkOf, Linking
    <2> QED  BY <1>7, <1>10, <1>11, <2>1
  <1>13. C[i] = View(u, u.converted) /\ C[i] # None /\ C[i] # Gone
    BY <1>5, <1>7, <1>8, <1>9, <1>10, <1>11, ViewOK
  <1>14. PICK l : l = LinkOf(t, i, invoices[i])
    OBVIOUS
  <1>15. B[i] = View(invoices[i], l)
    BY <1>4, <1>10, <1>14
  <1>16. CASE t.op = "invoice.save" /\ i \in rewritten
    <2>1. \A x, y : /\ View(x, y).series = x.series /\ View(x, y).number = x.number
                    /\ View(x, y).provider = x.provider
      BY DEF View
    <2>2. \A f \in {"series", "number", "provider"} : C[i][f] = B[i][f]
      BY <1>8, <1>13, <1>15, <2>1
    <2>3. Books!Rewrite(i, ShownBooks'[i])
      BY <1>1, <1>4, <1>5, <1>10, <1>12, <1>13, <2>2, RewriteIsStep
    <2> QED  BY <1>2, <1>16, <2>3
  <1>17. CASE ~(t.op = "invoice.save" /\ i \in rewritten)
    <2>1. \A f \in {"type", "order", "customer"} : f \notin DOMAIN t.sends
      BY <1>1, <1>2, <1>3, <1>17 DEF LinkAlone, Rewrites, Saves
    <2>2. u.series = invoices[i].series /\ u.number = invoices[i].number
          /\ u.type = invoices[i].type /\ \A f \in PartyFields : u[f] = invoices[i][f]
      BY <1>8, <2>1 DEF PartyFields
    <2>3. l \in Invoices \cup {None} /\ u.converted \in {l, None}
      <3>1. CASE t.op = "invoice.link"
        <4>1. l = u.converted
          BY <1>1, <1>3, <1>8, <1>14, <3>1 DEF LinkOf, Linking, LinkAlone
        <4> QED  BY <1>9, <4>1
      <3>2. CASE t.op = "invoice.save"
        <4>1. l = invoices[i].converted
          BY <1>14, <3>2 DEF LinkOf, Linking
        <4>2. "converted" \in DOMAIN t.sends => t.sends["converted"] = None
          BY <1>1, <1>3, <1>17, <3>2 DEF LinkAlone, Rewrites
        <4> QED  BY <1>8, <1>9, <4>1, <4>2
      <3> QED  BY <1>2, <3>1, <3>2 DEF Saves
    <2>4. C[i] = Revised(B[i], C[i].status, C[i].converted)
      BY <1>5, <1>8, <1>9, <1>13, <1>15, <2>2, <2>3, EntryRevised
    <2>5. C[i].converted \in {B[i].converted, None}
      <3>1. \A x, y : View(x, y).converted = y
        BY DEF View
      <3> QED  BY <1>13, <1>15, <2>3, <3>1
    <2>6. Books!Next
      BY <1>1, <1>4, <1>5, <1>10, <1>12, <1>13, <2>4, <2>5, ReviseIsStep
    <2> QED  BY <2>6
  <1> QED  BY <1>16, <1>17

LEMMA DeleteKeeps ==
  ASSUME Inv, Quiet, OneInFlight', NEW j \in Jobs, DeleteInvoice(j)
  PROVE  Books!Next
  <1>1. PICK t, i, docs, B, C :
          t = job[j] /\ i = t.id /\ docs = invoices' /\ B = ShownBooks /\ C = ShownBooks'
    OBVIOUS
  <1>2. t.op = "invoice.delete" /\ Become(j, Idle) /\ job[j] # Idle
    BY <1>1 DEF DeleteInvoice, Finish, Idle
  <1>10. docs = [invoices EXCEPT ![i] = Gone]
    BY <1>1 DEF DeleteInvoice, Put
  <1>3. i \in Stored /\ invoices[i].status = "draft"
    BY <1>1, <1>2 DEF Quiet, Undisturbed
  <1>4. i \in Invoices /\ invoices \in [Invoices -> InvoiceDoc \cup {None, Gone}]
    BY <1>3 DEF Stored, Inv, Shapes, InvoiceTypeOK
  <1>5. docs[i] = Gone /\ \A k \in Invoices \ {i} : docs[k] = invoices[k]
    BY <1>4, <1>10
  <1>6. /\ Entries(B) /\ Entries(C) /\ Books!Stored = Stored
        /\ \A k \in Stored : B[k] = View(invoices[k], LinkOf(t, k, invoices[k]))
        /\ \A k \in Invoices : C[k] = IF docs[k] \in {None, Gone} THEN docs[k]
                                      ELSE View(docs[k], LinkOf(Idle, k, docs[k]))
        /\ \A k \in Invoices : B[k] = IF invoices[k] \in {None, Gone} THEN invoices[k]
                                      ELSE View(invoices[k], LinkOf(t, k, invoices[k]))
    <2>1. PICK s : s = Idle
      OBVIOUS
    <2>2. Become(j, s)
      BY <1>2, <2>1
    <2> QED  BY <1>1, <1>2, <2>1, <2>2, BooksStep
  <1>7. \A k, d : LinkOf(t, k, d) = LinkOf(Idle, k, d)
    BY <1>2 DEF LinkOf, Linking, Idle
  <1>8. C[i] = Gone /\ \A k \in Invoices \ {i} : C[k] = B[k]
    BY <1>4, <1>5, <1>6, <1>7
  <1>9. B[i].status = "draft"
    <2>1. \A d, l : View(d, l).status = d.status
      BY DEF View
    <2> QED  BY <1>3, <1>6, <2>1
  <1> QED  BY <1>1, <1>3, <1>4, <1>6, <1>8, <1>9, RemoveIsStep

(* Every step is one of the promise, or nothing the books show.             *)
LEMMA BooksPromised ==
  SerialInv /\ [MCNext]_<<invoiceVars, raced, calls>> =>
    [\/ raced' \/ faults' > 0
     \/ Books!Next
     \/ \E i \in rewritten' : Books!Rewrite(i, ShownBooks'[i])
     \/ UNCHANGED ShownBooks]_<<invoiceVars, raced, calls>>
  <1> SUFFICES ASSUME SerialInv, MCNext, ~raced', ~(faults' > 0)
               PROVE  \/ Books!Next \/ UNCHANGED ShownBooks
                      \/ \E i \in rewritten' : Books!Rewrite(i, ShownBooks'[i])
    OBVIOUS
  <1>1. Inv /\ faults \in Nat
    BY DEF SerialInv, Inv, Shapes, InvoiceTypeOK
  <1>2. ASSUME NEW n, Watched(n)
        PROVE  Quiet /\ OneInFlight'
    BY <1>2, RacedStays DEF SerialInv
  <1>3. Quiet /\ OneInFlight'
    BY <1>2 DEF MCNext
  <1>4. ~Faulty
    BY <1>1 DEF Faulty
  <1>5. CASE \E j \in Jobs, user \in Users : InvoiceCall(j, user)
    BY <1>1, <1>3, <1>5, CallKeeps
  <1>6. ASSUME NEW j \in Jobs, InvoiceStep(j)
        PROVE  \/ Books!Next \/ UNCHANGED ShownBooks
               \/ \E i \in rewritten' : Books!Rewrite(i, ShownBooks'[i])
    BY <1>1, <1>3, <1>6, NumberKeeps, InsertKeeps, SaveKeeps, DeleteKeeps DEF InvoiceStep
  <1> QED  BY <1>4, <1>5, <1>6 DEF MCNext, InvoiceAbort, Abort, Crash

(* While handlers neither overlap nor fail, what the parties see of the     *)
(* books changes only by the promise's steps: documents are issued with a   *)
(* number and an order of their own, accepted quotes become one invoice     *)
(* each, the status changes or the link is forgotten, drafts disappear; and *)
(* an update rewrites what it set out to rewrite, never number, series or   *)
(* provider (invoices.service.ts:115-246, 441-1014).                        *)
THEOREM BooksKept == MCSpec => KeepsBooks
  <1>1. MCSpec => []SerialInv
    BY InitSerial, NextSerial, PTL DEF MCSpec
  <1> QED  BY <1>1, BooksPromised, PTL DEF MCSpec, KeepsBooks
================================================================================
