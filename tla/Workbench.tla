------------------------------- MODULE Workbench -------------------------------
(* The pages of the staff and the citizens: accounts, the golden set with its *)
(* benchmark, and the review centre, side by side.  They share no variable.   *)
EXTENDS Accounts, Evaluation, ReviewDesk

\* The tables of the modules hold what their columns and foreign keys allow.
TypesOK == AccountTypeOK /\ EvalTypeOK /\ DeskTypeOK
=============================================================================
