------------------------------- MODULE Account -------------------------------
(***************************************************************************)
(* What billing promises a user (docs/06 4 and 5): every settled request   *)
(* takes its cost from the balance once, as far as the balance reaches,    *)
(* every refund adds its amount once, and the balance is nothing but the   *)
(* result of these bookings.                                               *)
(***************************************************************************)
EXTENDS Integers

CONSTANTS
    Users,
    Bookings,   \* the settlements and refunds there can be, and for one user
                \* taken alone recharges and adjustments, too
    UserOfB,    \* whose balance a booking changes
    AmountOf,   \* its amount, at least 0
    Debits,     \* the bookings that take, the others add
    Start       \* balances before the first booking

VARIABLES money, booked

After(b, m) ==
    IF b \notin Debits THEN m + AmountOf[b]
    ELSE IF m >= AmountOf[b] THEN m - AmountOf[b]
    ELSE 0

AccountInit == money = Start /\ booked = {}

Do(b) ==
    /\ b \notin booked
    /\ booked' = booked \cup {b}
    /\ money' = [money EXCEPT ![UserOfB[b]] = After(b, @)]

AccountNext == \E b \in Bookings : Do(b)

AccountSpec == AccountInit /\ [][AccountNext]_<<money, booked>>
=============================================================================
