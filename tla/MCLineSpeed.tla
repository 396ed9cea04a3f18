------------------------------- MODULE MCLineSpeed -----------------------------
(* The speed test CLI: one directory, all its faults.                       *)
EXTENDS LineSpeed
================================================================================
