------------------------------ MODULE MCKioskSystem ------------------------------
(***************************************************************************)
(* Values for the constants of KioskSystem: those of MCCheckinSystem and   *)
(* the clients that poll.                                                  *)
(***************************************************************************)
EXTENDS MCCheckinSystem, KioskSystem

CONSTANT p1      \* a client of the status endpoints
==================================================================================
