---------------------------- MODULE MCIndicatorGap ----------------------------
(* IndicatorWorker with one feed of three bars and no faults. *)
EXTENDS IndicatorWorker, TLC

CONSTANT a

MCLength == a :> 3
================================================================================
