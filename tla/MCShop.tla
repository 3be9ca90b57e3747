------------------------------- MODULE MCShop -------------------------------
(* A finite instance of ShopFlow: two shops, of which clients may name the *)
(* second or nobody, and a duration that fits no int64 of nanoseconds,     *)
(* which stands for none at all or for the longest.                        *)
EXTENDS ShopFlow

CONSTANTS acme, globex

MCShopOrder == <<acme, globex>>

MCAsked == {TooLong}
=============================================================================
