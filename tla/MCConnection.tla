----------------------------- MODULE MCConnection -----------------------------
(* Two sessions; two failures, refusals or errors in a row are too many.    *)
EXTENDS Connection

MCFallingBack == {"auto", "websocket"}
MCReporting == {"http"}

================================================================================
