------------------------------- MODULE Library -------------------------------
(***************************************************************************)
(* The library desk: books with a count of available copies, and loans.     *)
(*                                                                         *)
(* checkoutBook and returnBook each read a row, check it, and then write    *)
(* the loan and the count in one array-form $transaction.  The count moves  *)
(* by decrement and increment, so writes are never lost; but the check was  *)
(* made on an earlier read.  contended remembers the books two requests     *)
(* were between check and write of at once: nothing is promised of their    *)
(* stock.                                                                  *)
(***************************************************************************)
EXTENDS Integers, FiniteSets

CONSTANTS
  Books,
  Checkouts,  \* POST /library/checkout calls; a loan has the name of its call
  Returns,    \* PATCH /library/transactions/:id/return calls
  Schools,
  MaxCopies,  \* bound: copies a book is created with
  Nothing

ASSUME LibraryAssumption ==
  /\ MaxCopies \in Nat
  /\ IsFiniteSet(Checkouts) /\ IsFiniteSet(Returns)
  /\ Nothing \notin Books /\ Nothing \notin Checkouts /\ Nothing \notin Schools

VARIABLES
  book,      \* Book: total and available copies; total 0 before it is created
  loan,      \* LibraryTransaction: book, school, status
  checkout,  \* a checkout call: where it stands and what it asked for
  return,    \* a return call: where it stands and which loan it closes
  contended  \* books that two requests handled at the same time (history)

desk == <<book, loan, checkout, return, contended>>

LibraryInit ==
  /\ book = [b \in Books |-> [total |-> 0, available |-> 0]]
  /\ loan = [c \in Checkouts |->
               [book |-> Nothing, school |-> Nothing, status |-> "absent"]]
  /\ checkout = [c \in Checkouts |->
                   [pc |-> "new", book |-> Nothing, school |-> Nothing]]
  /\ return = [t \in Returns |-> [pc |-> "new", loan |-> Nothing]]
  /\ contended = {}

-----------------------------------------------------------------------------
CreateBook(b, n) ==
  /\ book[b].total = 0
  /\ book' = [book EXCEPT ![b] = [total |-> n, available |-> n]]
  /\ UNCHANGED <<loan, checkout, return, contended>>

\* Is a request about book b between its check and its write?
Busy(b) ==
  \/ \E c \in Checkouts : checkout[c].pc = "checked" /\ checkout[c].book = b
  \/ \E t \in Returns : return[t].pc = "checked"
                        /\ loan[return[t].loan].book = b

Enter(b) == contended' = IF Busy(b) THEN contended \cup {b} ELSE contended

\* Defect: one copy too many is lent.
Lendable_OffByOne(b) == book[b].total > 0 /\ book[b].available >= 0

\* The borrower is a student of the caller's school s.  The book is found by
\* its id alone, and must exist and have a copy left.
Lendable(b) == book[b].total > 0 /\ book[b].available > 0

CheckCheckout(c, s, b) ==
  /\ checkout[c].pc = "new"
  /\ \/ /\ Lendable(b)
        /\ checkout' = [checkout EXCEPT ![c] =
                          [pc |-> "checked", book |-> b, school |-> s]]
        /\ Enter(b)
     \/ /\ ~Lendable(b)
        /\ checkout' = [checkout EXCEPT ![c].pc = "denied"]
        /\ UNCHANGED contended
  /\ UNCHANGED <<book, loan, return>>

CommitCheckout(c) ==
  /\ checkout[c].pc = "checked"
  /\ loan' = [loan EXCEPT ![c] = [book |-> checkout[c].book,
                                  school |-> checkout[c].school,
                                  status |-> "BORROWED"]]
  /\ book' = [book EXCEPT ![checkout[c].book].available = @ - 1]
  /\ checkout' = [checkout EXCEPT ![c].pc = "done"]
  /\ UNCHANGED <<return, contended>>

\* Defect: the loan and the count are not written in one transaction.
AbandonCheckout_HalfDone(c) ==
  /\ checkout[c].pc = "checked"
  /\ loan' = [loan EXCEPT ![c] = [book |-> checkout[c].book,
                                  school |-> checkout[c].school,
                                  status |-> "BORROWED"]]
  /\ checkout' = [checkout EXCEPT ![c].pc = "failed"]
  /\ UNCHANGED <<book, return, contended>>

\* The due date does not parse, or the process dies before the transaction.
AbandonCheckout(c) ==
  /\ checkout[c].pc = "checked"
  /\ checkout' = [checkout EXCEPT ![c].pc = "failed"]
  /\ UNCHANGED <<book, loan, return, contended>>

Returnable(l, s) == loan[l].status = "BORROWED" /\ loan[l].school = s

CheckReturn(t, s, l) ==
  /\ return[t].pc = "new"
  /\ \/ /\ Returnable(l, s)
        /\ return' = [return EXCEPT ![t] = [pc |-> "checked", loan |-> l]]
        /\ Enter(loan[l].book)
     \/ /\ ~Returnable(l, s)
        /\ return' = [return EXCEPT ![t].pc = "denied"]
        /\ UNCHANGED contended
  /\ UNCHANGED <<book, loan, checkout>>

CommitReturn(t) ==
  LET l == return[t].loan IN
  /\ return[t].pc = "checked"
  /\ loan' = [loan EXCEPT ![l].status = "RETURNED"]
  /\ book' = [book EXCEPT ![loan[l].book].available = @ + 1]
  /\ return' = [return EXCEPT ![t].pc = "done"]
  /\ UNCHANGED <<checkout, contended>>

AbandonReturn(t) ==
  /\ return[t].pc = "checked"
  /\ return' = [return EXCEPT ![t].pc = "failed"]
  /\ UNCHANGED <<book, loan, checkout, contended>>

LibraryNext ==
  \/ \E b \in Books, n \in 1..MaxCopies : CreateBook(b, n)
  \/ \E c \in Checkouts :
       \/ \E s \in Schools, b \in Books : CheckCheckout(c, s, b)
       \/ CommitCheckout(c)
       \/ AbandonCheckout(c)
  \/ \E t \in Returns :
       \/ \E s \in Schools, l \in Checkouts : CheckReturn(t, s, l)
       \/ CommitReturn(t)
       \/ AbandonReturn(t)

LibrarySpec == LibraryInit /\ [][LibraryNext]_desk

-----------------------------------------------------------------------------
(* What holds of the desk                                                  *)

\* Every variable holds what the code's columns and enums allow.
LibraryTypeOK ==
  /\ book \in [Books -> [total : Nat, available : Int]]
  /\ loan \in [Checkouts -> [book : Books \cup {Nothing},
                             school : Schools \cup {Nothing},
                             status : {"absent", "BORROWED", "RETURNED"}]]
  /\ checkout \in [Checkouts ->
                     [pc : {"new", "checked", "denied", "done", "failed"},
                      book : Books \cup {Nothing}, school : Schools \cup {Nothing}]]
  /\ return \in [Returns ->
                   [pc : {"new", "checked", "denied", "done", "failed"},
                    loan : Checkouts \cup {Nothing}]]
  /\ contended \in SUBSET Books

LoansOf(b) == {c \in Checkouts : loan[c].book = b}
Outstanding(b) == {c \in LoansOf(b) : loan[c].status = "BORROWED"}
ReturnsOf(b) ==
  {t \in Returns : return[t].pc = "done" /\ loan[return[t].loan].book = b}

\* The count is exactly what the completed calls make it, in every interleaving
\* and wherever a call dies: no checkout or return is lost or half done.
CountIsLedger ==
  \A b \in Books :
    book[b].available + Cardinality(LoansOf(b))
      = book[b].total + Cardinality(ReturnsOf(b))

\* Copies on the shelf and copies out add up to the copies owned, and neither
\* side is negative, for every book that was always handled by one request at
\* a time, whatever happened to the others.
Stocked ==
  \A b \in Books \ contended :
    /\ book[b].available >= 0
    /\ book[b].available + Cardinality(Outstanding(b)) = book[b].total
=============================================================================
