-------------------------------- MODULE Shop --------------------------------
(***************************************************************************)
(* What order-service promises a customer who waits for each answer,       *)
(* without sessions, rows, or several statements to a request: every       *)
(* request acts at once, on the one cart that is not sold yet, and a sale  *)
(* takes the basket as it is.                                              *)
(***************************************************************************)
EXTENDS Naturals

CONSTANTS
    Users, Carts, Orders, Variants,
    None    \* no owner, no sale

VARIABLES
    owner,      \* owner[c]: the customer whose cart c is, or None
    basket,     \* basket[c][v]: how many of variant v are in cart c
    sale        \* sale[n]: whose cart was sold as order n and what for, or None

vars == <<owner, basket, sale>>

Empty == [v \in Variants |-> 0]

Init ==
    /\ owner = [c \in Carts |-> None]
    /\ basket = [c \in Carts |-> Empty]
    /\ sale = [n \in Orders |-> None]

Sold(c) == \E n \in Orders : sale[n] # None /\ sale[n].cart = c
Active(c, u) == owner[c] = u /\ ~Sold(c)

\* A customer gets a cart when there is none to go on with.
Open(c, u) ==
    /\ owner[c] = None
    /\ \A d \in Carts : ~Active(d, u)
    /\ owner' = [owner EXCEPT ![c] = u]
    /\ UNCHANGED <<basket, sale>>

\* Adding, removing and selling: in the active cart of a customer (Next).
Add(c, v) ==
    /\ basket' = [basket EXCEPT ![c][v] = @ + 1]
    /\ UNCHANGED <<owner, sale>>

Remove(c, v) ==
    /\ basket[c][v] > 0
    /\ basket' = [basket EXCEPT ![c][v] = 0]
    /\ UNCHANGED <<owner, sale>>

\* The bill is the basket, and it is the customer's.
Sell(n, c) ==
    /\ basket[c] # Empty
    /\ sale[n] = None
    /\ sale' = [sale EXCEPT ![n] = [user |-> owner[c], cart |-> c, bill |-> basket[c]]]
    /\ UNCHANGED <<owner, basket>>

Next ==
    \/ \E c \in Carts, u \in Users : Open(c, u)
    \/ \E c \in Carts, u \in Users :
         /\ Active(c, u)
         /\ \/ \E v \in Variants : Add(c, v) \/ Remove(c, v)
            \/ \E n \in Orders : Sell(n, c)

Spec == Init /\ [][Next]_vars
==============================================================================
