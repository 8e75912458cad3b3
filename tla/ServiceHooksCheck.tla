-------------------------- MODULE ServiceHooksCheck --------------------------
(***************************************************************************)
(* ServiceHooks with the service that printing calls, the one that is      *)
(* filtered and one whose wrapper prints without the guard.                *)
(***************************************************************************)
EXTENDS ServiceHooks

MCHooked == <<"AllocatePages", "LoadImage", "ExitBootServices">>
=============================================================================
