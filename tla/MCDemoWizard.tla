------------------------------ MODULE MCDemoWizard ------------------------------
(***************************************************************************)
(* Instance of DemoWizard: two accounts, so that the user can switch, and  *)
(* two running handlers, so that one can end after the page has moved on.  *)
(***************************************************************************)
EXTENDS DemoWizard

CONSTANTS alice, bob, s1, s2

MCAccount == {alice, bob}
MCSlot == {s1, s2}
================================================================================
