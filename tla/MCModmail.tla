------------------------------- MODULE MCModmail -------------------------------
(* A small instance of Modmail for TLC. *)
EXTENDS Modmail

CONSTANT t1

OneTask == {t1}
================================================================================
