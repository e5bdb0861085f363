------------------------------- MODULE PureCall -------------------------------
(***************************************************************************)
(* One call of a function without state: its name and its arguments.  The  *)
(* modules of pure algorithms state their properties about it, and a       *)
(* behaviour is one call, made once.                                       *)
(***************************************************************************)
VARIABLE call

Called(f) == call.f = f

Answered == UNCHANGED call
===============================================================================
