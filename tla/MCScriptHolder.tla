--------------------------- MODULE MCScriptHolder ---------------------------
(* Model-checking instances of ScriptHolder.                               *)
EXTENDS ScriptHolder

OneKeyboard  == {1}
TwoKeyboards == {1, 2}
SpaceBar     == {57}
AltKeys      == {LAlt}
=============================================================================
