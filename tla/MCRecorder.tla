------------------------------ MODULE MCRecorder ------------------------------
(***************************************************************************)
(* A small instance of Recorder for TLC: a raw event is as long as two     *)
(* others, so that files rotate by number and by length.                   *)
(***************************************************************************)
EXTENDS Recorder, TLC

MCBytes == [k \in Kinds |-> IF k = "raw" THEN 2 ELSE 1]
===============================================================================
