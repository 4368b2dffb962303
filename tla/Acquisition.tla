----------------------------- MODULE Acquisition -----------------------------
(* Crawls and downloads (Discovery) and the network diagnostics               *)
(* (Diagnostics) beside each other: they share the fetcher and no table, so   *)
(* the system is their conjunction, steps of the two in any order.            *)
EXTENDS Discovery, Diagnostics

AcquisitionSpec == DiscSpec /\ DiagSpec

\* The tables of both hold what their columns allow.
TypesOK == TypeOK /\ DiagTypeOK
==============================================================================
