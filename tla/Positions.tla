------------------------------ MODULE Positions ------------------------------
(***************************************************************************)
(* PositionTracker (broker/position_tracker.py): how one fill changes the  *)
(* positions of one scope, that is of one user, broker, account, mode and  *)
(* symbol.  Pure operators over a book: at most one open position per      *)
(* direction (the partial unique index uq_broker_positions_active_scope)   *)
(* and the round trips already closed.  An absent row is a position with   *)
(* nothing opened, which the CHECK on total_opened_qty forbids a row to be.*)
(***************************************************************************)
EXTENDS Integers, Sequences

CONSTANTS
  Commission,   \* commission per lot of a product, or NoFee
  Multiplier,   \* contract multiplier of a product
  FlatFee,      \* fee per lot of a simulated fill of any other product
  NoFee         \* a fee, or a setting, that is missing

Directions == {"long", "short"}

Opposite(d) == IF d = "long" THEN "short" ELSE "long"

NoPosition == [opened |-> 0, entry |-> 0, openFee |-> 0,
               closed |-> 0, exit |-> 0, closeFee |-> 0]

Position == [opened: Nat, entry: Nat, openFee: Nat,
             closed: Nat, exit: Nat, closeFee: Nat]

EmptyBook == [open |-> [d \in Directions |-> NoPosition], trips |-> <<>>]

IsOpen(book, d) == book.open[d].opened > 0

Remaining(pos) == pos.opened - pos.closed

(* The direction a fill opens, and the direction it covers.                *)
Opens(action) == IF action = "Buy" THEN "long" ELSE "short"

Covers(action) == Opposite(Opens(action))

(* _estimate_sim_fee: per lot the commission and the tax, which is the     *)
(* value of the contract times 2/100000, rounded half up; a flat fee, the  *)
(* adapter's or the tracker's, when the product has no commission.         *)
EstimatedFee(product, price, qty) ==
  IF Commission[product] = NoFee THEN FlatFee * qty
  ELSE (Commission[product]
        + (2 * price * Multiplier[product] + 50000) \div 100000) * qty

(* _open_qty: a new row, or more of the row that is there.                 *)
OpenQty(book, d, qty, price, fee) ==
  [book EXCEPT !.open[d].opened = @ + qty,
               !.open[d].entry = @ + price * qty,
               !.open[d].openFee = @ + fee]

(* The position after part of a fill has covered it.                       *)
Covered(pos, qty, price, fee) ==
  [pos EXCEPT !.closed = @ + qty, !.exit = @ + price * qty,
              !.closeFee = @ + fee]

(* Mutant: the row stays open when all of it is covered.                   *)
CloseLate(book, d, qty, price, fee) ==
  [book EXCEPT !.open[d] = Covered(@, qty, price, fee)]

(* _close and _finalize: the row is closed, and a journal trade written,   *)
(* once all that was opened is covered.                                    *)
CloseQty(book, d, qty, price, fee) ==
  LET pos == Covered(book.open[d], qty, price, fee)
  IN IF pos.closed >= pos.opened
     THEN [open |-> [book.open EXCEPT ![d] = NoPosition],
           trips |-> Append(book.trips, [dir |-> d, pos |-> pos])]
     ELSE [book EXCEPT !.open[d] = pos]

(* Mutant: what a cover leaves over is dropped, its fee with it.           *)
CoverWithoutReversal(book, d, qty, price, fee) ==
  LET left == Remaining(book.open[d])
  IN CloseQty(book, d, IF qty <= left THEN qty ELSE left, price, fee)

(* _close: what exceeds the position opens one the other way, and takes    *)
(* its share of the fee; \div stands for the rounding of the division.     *)
Cover(book, d, qty, price, fee) ==
  LET left     == Remaining(book.open[d])
      consumed == IF qty <= left THEN qty ELSE left
      excess   == qty - consumed
      feeOver  == (fee * excess) \div qty
      after    == CloseQty(book, d, consumed, price, fee - feeOver)
  IN IF excess > 0
     THEN OpenQty(after, Opposite(d), excess, price, feeOver)
     ELSE after

(* PositionMismatchError: a cover without a position, and an automatic     *)
(* fill with positions both ways.                                          *)
Mismatch(book, f) ==
  \/ f.octype = "Cover" /\ ~IsOpen(book, Covers(f.action))
  \/ f.octype = "Auto" /\ \A d \in Directions : IsOpen(book, d)

(* apply_fill, for a fill that is no mismatch.                             *)
ApplyFill(book, f) ==
  IF f.octype = "Cover" \/ (f.octype = "Auto" /\ IsOpen(book, Covers(f.action)))
  THEN Cover(book, Covers(f.action), f.qty, f.price, f.fee)
  ELSE OpenQty(book, Opens(f.action), f.qty, f.price, f.fee)
=============================================================================
