----------------------- MODULE MCDesktopController -----------------------
(* DesktopController on a small instance, and the properties checked on it. *)
EXTENDS DesktopController, TLC
CONSTANTS small, large, huge
============================================================================
