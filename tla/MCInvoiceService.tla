--------------------------- MODULE MCInvoiceService ---------------------------
(* Small instances of InvoiceService.  raced remembers whether two handlers *)
(* were ever in flight at once.                                              *)
EXTENDS InvoiceService, TLC

CONSTANTS c1, p1, o1, MaxCalls

VARIABLES raced, calls

MCParties == [o \in Orders |-> [customer |-> c1, provider |-> p1]]

(* In halves (Fraction = 2): 1.5 pieces of 35.5 cents with 10.5 % of tax;    *)
(* a percentage and a fixed discount, with halves of cents in every amount.  *)
MCDrafts ==
  { << [quantity |-> 3, unitPrice |-> 71, taxRate |-> 21, discount |-> 0, discountType |-> "amount"] >> }
MCEdits ==
  { << [quantity |-> 1, unitPrice |-> 401, taxRate |-> 21, discount |-> 51, discountType |-> "percentage"],
       [quantity |-> 5, unitPrice |-> 5, taxRate |-> 40, discount |-> 1, discountType |-> "amount"] >> }

(* A quote becomes a bill of its order, takes a link of the caller's choice, *)
(* gets new lines, as a draft or with a payment.                             *)
MCDtos ==
  { [status |-> "draft", type |-> "invoice", order |-> o1],
    [status |-> "accepted", converted |-> 1] } \cup
  { [payment |-> "given", lines |-> lines] : lines \in Edits }

Watched(n) ==
  /\ raced' = (raced \/ \E j, k \in Jobs : j # k /\ job'[j] # Idle /\ job'[k] # Idle)
  /\ calls' = calls + n /\ calls' <= MaxCalls

ASSUME InstanceAssumption ==
  1 \in Invoices /\ o1 \in Orders /\ c1 \in Customers /\ p1 \in Providers /\ Drafts # {}

(* The books are empty, or hold an accepted quote, so that the run reaches   *)
(* two conversions of one quote.                                             *)
Accepted ==
  [Draft("quote", o1, c1, p1, "accepted", CHOOSE lines \in Drafts : TRUE) EXCEPT !.number = 1]

MCInit ==
  /\ BackendInit /\ rewritten = {} /\ raced = FALSE
  /\ \/ calls = 0 /\ invoices = [i \in Invoices |-> None]
     \/ MaxCalls > 1 /\ calls = 1 /\ invoices = [i \in Invoices |-> IF i = 1 THEN Accepted ELSE None]

MCNext ==
  \/ \E j \in Jobs, user \in Users : InvoiceCall(j, user) /\ Watched(1)
  \/ \E j \in Jobs : InvoiceStep(j) /\ Watched(0)
  \/ \E j \in Jobs : InvoiceAbort(j) /\ Watched(0)
  \/ Crash /\ UNCHANGED <<invoices, rewritten>> /\ Watched(0)

MCSpec == MCInit /\ [][MCNext]_<<invoiceVars, raced, calls>> /\ InvoiceFairness

Symmetry == Permutations(Jobs)

(* The amounts of a document changed by one handler at a time are those of  *)
(* its lines; overlapping updates each send the fields they changed.        *)
SerialAmounts == ~raced => \A i \in Stored : Amounts(i)

(* Handlers that do not overlap and do not fail keep the books' promise,    *)
(* and only what an update set out to rewrite is rewritten.                 *)
KeepsBooks ==
  [][ \/ raced' \/ faults' > 0
      \/ Books!Next
      \/ \E i \in rewritten' : Books!Rewrite(i, ShownBooks'[i])
      \/ UNCHANGED ShownBooks ]_<<invoiceVars, raced, calls>>
==============================================================================
