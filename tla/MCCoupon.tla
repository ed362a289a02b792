------------------------------ MODULE MCCoupon ------------------------------
(* Instances of Coupon for TLC.                                               *)
EXTENDS Coupon
=============================================================================
