------------------------------ MODULE BootTime ------------------------------
(* CLOCK_BOOTTIME, by which automation measures how long a source has been *)
(* observed and when a retry is due.                                       *)
CONSTANT MaxTime  \* its largest value; deadlines saturate there
VARIABLE now
=============================================================================
