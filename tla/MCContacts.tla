----------------------------- MODULE MCContacts -----------------------------
(* Both balls and two static bodies, with the identifiers of the proxies in *)
(* either order.                                                            *)
EXTENDS Contacts

TwoBalls == {1, 4}
TwoStatics == {2, 3}
Points == [b \in TwoBalls \cup TwoStatics |-> 0]

=============================================================================
