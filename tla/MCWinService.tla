---- MODULE MCWinService ----
(***************************************************************************)
(* Constants of the run of WinService.                                     *)
(***************************************************************************)
EXTENDS WinService

TwoBytes == <<1, 2>>
====
