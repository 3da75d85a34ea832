--------------------------- MODULE MCSectorsManager ---------------------------
(***************************************************************************)
(* An instance of SectorsManager for TLC.                                  *)
(***************************************************************************)
EXTENDS SectorsManager

CONSTANTS a, b

\* Three versions, of which the last is the newest by its timestamp and not by its
\* rank, and two copies of the first.
MCCopy == {[ts |-> 1, wr |-> 1, val |-> a], [ts |-> 1, wr |-> 1, val |-> b],
           [ts |-> 1, wr |-> 2, val |-> a], [ts |-> 2, wr |-> 1, val |-> b]}
=============================================================================
