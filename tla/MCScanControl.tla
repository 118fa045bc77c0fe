---------------------------- MODULE MCScanControl ----------------------------
(* ScanControl with room for four tasks: the start, and the radio going off  *)
(* and on and off before the queue runs any of them.                         *)
EXTENDS ScanControl

MCMaxTasks == 4
=============================================================================
