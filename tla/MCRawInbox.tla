----------------------------- MODULE MCRawInbox -----------------------------
EXTENDS RawInbox
CONSTANTS o1, o2, o3, u1, u2, a1, a2

Order(u, a, action, octype, qty) ==
  [user |-> u, account |-> a, product |-> "TXF", action |-> action,
   octype |-> octype, qty |-> qty]

(* Two lots bought, then covered with three; an order of another user.     *)
OrdersOf == {o1, o2, o3}
InfoOf == [o \in OrdersOf |->
  CASE o = o1 -> Order(u1, a1, "Buy", "New", 2)
    [] o = o2 -> Order(u1, a1, "Sell", "Cover", 3)
    [] o = o3 -> Order(u2, a2, "Buy", "Auto", 1)]

DealEv(user, account, o, fill, qty, fee) ==
  [kind |-> "deal", user |-> user, account |-> account, paper |-> account, ordno |-> o,
   bid |-> o, fill |-> fill, qty |-> qty, price |-> 3, fee |-> fee, status |-> "filled"]

ReportEv(o, status) ==
  [kind |-> "report", user |-> u1, account |-> a1, paper |-> a1, ordno |-> o, bid |-> None,
   fill |-> 0, qty |-> 0, price |-> 0, fee |-> NoFee, status |-> status]

(* Two fills of o1, one of o2 that reverses, a cancellation, u1's agent    *)
(* reporting for u2's order from an account nobody is bound to, u2's agent *)
(* reporting for u1's account, and a fill whose two ids may disagree.      *)
EventsOf ==
  {DealEv(u1, a1, o1, 1, 1, NoFee), DealEv(u1, a1, o1, 2, 1, 2),
   DealEv(u1, a1, o2, 3, 3, 5), ReportEv(o1, "cancelled"),
   DealEv(u1, a2, o3, 4, 1, NoFee), DealEv(u2, a1, o1, 1, 1, NoFee),
   [DealEv(u1, a1, o1, 5, 1, NoFee) EXCEPT !.bid = o2]}

OneOrder == {o1}
TwoEvents == {DealEv(u1, a1, o1, 1, 1, NoFee), ReportEv(o1, "cancelled")}
Silent == {FALSE}
Both == {TRUE, FALSE}

Unbound == [a \in {a1, a2} |-> IF a = a1 THEN u1 ELSE None]
Five == [p \in {"TXF"} |-> 1]
Fifty == [p \in {"TXF"} |-> 50000]
=============================================================================
