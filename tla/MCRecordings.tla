---------------------------- MODULE MCRecordings ----------------------------
(***************************************************************************)
(* Recordings of a few events, around the depth sequence 9, where the      *)
(* number of digits changes.                                               *)
(***************************************************************************)
EXTENDS Recordings

MCLeads == {-1, 1}

\* reports that pass, that only just do not, and one too few of them
MCThresholds == [reports |-> 2, duration |-> 1, fills |-> 3, fill_rate |-> 2,
                 alpha |-> 0, orders |-> 5, cancels |-> 5]
Report == [fills |-> 3, fill_rate |-> 2, alpha |-> 1, orders |-> 5, cancels |-> 5]
MCReportSets == {<<Report, Report>>, <<Report, [Report EXCEPT !.alpha = 0]>>, <<Report>>}
==============================================================================
