------------------------------- MODULE MCReport -------------------------------
(* A small instance of Report.                                                 *)
EXTENDS Report, TLC

CONSTANTS a
===============================================================================
