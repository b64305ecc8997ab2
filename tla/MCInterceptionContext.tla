----------------------- MODULE MCInterceptionContext ------------------------
(* Model-checking instances of InterceptionContext.                        *)
EXTENDS InterceptionContext
=============================================================================
