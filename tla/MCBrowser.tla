------------------------------ MODULE MCBrowser ------------------------------
(***************************************************************************)
(* Small instances of Browser for TLC.                                     *)
(***************************************************************************)
EXTENDS Browser, TLC

CONSTANTS consultant, manager, biller, s1, s2

RoleOfEach ==
    [ persona \in Personas |->
        CASE persona = consultant -> "consultant"
          [] persona = manager    -> "manager"
          [] OTHER                -> "billing" ]

=============================================================================
