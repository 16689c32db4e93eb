------------------------------ MODULE MCPanels ------------------------------
(***************************************************************************)
(* One artifact opened twice, or two artifacts, of two or three values; the *)
(* graph has a stored weight among its outputs.                            *)
(***************************************************************************)
EXTENDS ActivationPanels

x == ValueId("x")
y == ValueId("y")
w == ValueId("w")
u == ValueId("u")      \* has no name in the file

Graph(large) ==
  [inputs |-> {x}, outputs |-> {y, w, u}, initializers |-> {TensorId("w")},
   nodes |-> ("n" :> {y, u}), named |-> {x, y, w},
   bytes |-> (x :> 1) @@ (y :> IF large THEN 3 ELSE 1) @@ (w :> 1) @@ (u :> 1)]

CONSTANTS cpu, gpu

Day(opens, variants, runs, pinnable, requests) ==
  [opens |-> opens, variants |-> variants, runs |-> runs, pins |-> pinnable, asks |-> requests]

MCDays ==
  {Day(<<"a", "b">>, {cpu}, 2, {}, 0), Day(<<"a", "b">>, {cpu}, 1, {}, 1),
   Day(<<"a", "a">>, {cpu}, 1, {x}, 1), Day(<<"a">>, {cpu}, 1, {x, y}, 2),
   Day(<<"a">>, {cpu}, 1, {}, 2), Day(<<"a">>, {cpu, gpu}, 2, {}, 1)}

MCGraphOf == ("a" :> Graph(TRUE)) @@ ("b" :> Graph(FALSE))
MCForms == {[choice |-> "boundaries", selectedOnly |-> FALSE, selection |-> {}]}
=============================================================================
