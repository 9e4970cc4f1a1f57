------------------------------- MODULE MCPool -------------------------------
(* Unlimited, one-item and two-item pools, lazy and eager; three item      *)
(* addresses (one more than the limit), three users and two ids.         *)
EXTENDS Pool
=============================================================================
