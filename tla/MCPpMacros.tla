------------------------------ MODULE MCPpMacros ------------------------------
(* Two macros, f and g, each defined in every way from a list of bodies: they *)
(* call themselves and each other, pass their parameters on, twice or not at  *)
(* all, and lack a parenthesis or have one too many.                          *)
EXTENDS PpMacros

Macro(functionLike, args, body) ==
  [defined |-> TRUE, functionLike |-> functionLike, args |-> args, body |-> body]

Bodies ==
  {<<>>, <<"f">>, <<"g">>, <<"x">>, <<"x", "x">>, <<"x", "g">>, <<"g", "x">>, <<"f", "(">>, <<")", "g">>,
   <<"g", "(", "x", ")">>, <<"f", "(", "x", ")">>, <<"x", "(", "f", ")">>, <<"g", "(", "f", ",", "x", ")">>}
MCInitMacros ==
  {[m \in Names |-> IF m = "f" THEN f ELSE g] :
     f \in {Macro(FALSE, <<>>, b) : b \in Bodies} \cup {Macro(TRUE, <<"x">>, b) : b \in Bodies},
     g \in {Macro(FALSE, <<>>, b) : b \in Bodies} \cup {Macro(TRUE, <<>>, b) : b \in Bodies}
             \cup {Macro(TRUE, <<"x">>, b) : b \in Bodies} \cup {Macro(TRUE, <<"y", "x">>, b) : b \in Bodies}}

MCMeaning ==
  [d \in Directives |->
     IF d = "#undef g" THEN [name |-> "g", macro |-> [Macro(FALSE, <<>>, <<>>) EXCEPT !.defined = FALSE]]
     ELSE [name |-> "g", macro |-> Macro(TRUE, <<"x">>, <<"f", "x">>)]]

MCTexts ==
  {<<"f", "(", "a", ")">>, <<"f", "(", "f", "(", "a", ")", ")">>, <<"f", "(", "g", ")", "(", "a", ")">>,
   <<"g", "(", "a", ",", "f", "(", "g", ")", ")">>, <<"f", "g", "(", ")">>, <<"g", "(", "f", ")">>,
   <<"f", "(", "g", "(", "f", ")">>, <<"f", "(", "a", ",", "(", "g", ")", ")">>,
   <<"f", "#undef g", "g">>, <<"g", "(", "#undef g", ")">>,
   <<"f", "(", "a", ")", "#define g(x) f x", "g", "(", "g", ")">>}
===============================================================================
