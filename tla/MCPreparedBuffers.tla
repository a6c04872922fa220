-------------------------- MODULE MCPreparedBuffers --------------------------
(* Instances of PreparedBuffers for TLC: small images, and outputs alone,   *)
(* beside and above each other, apart and without a place in the layout.    *)
EXTENDS PreparedBuffers

Box(x, y, w, h) == [x |-> x, y |-> y, w |-> w, h |-> h]
Output(box, width, height, fit) ==
  [box |-> box, width |-> width, height |-> height, fit |-> fit, selected |-> TRUE]
Unselected(output) == [output EXCEPT !.selected = FALSE]

SmallImages ==
  [width : 1..6, height : 1..6, jpeg : {FALSE}]
  \cup [width : {7, 8, 11, 13}, height : {7, 10, 13}, jpeg : {FALSE}]
  \cup [width : {0, 1, 9, 16, 17}, height : {1, 5, 16}, jpeg : BOOLEAN]

Alone == {<<Output(Box(0, 0, 3, 2), w, h, fit)>> : w \in 0..5, h \in 1..5, fit \in Fits}

Left == Output(Box(-2, 0, 3, 2), 3, 2, "span")
Rights == {Output(Box(1, y, w, h), w, h, fit) :
             y \in {0, 2}, w \in {1, 3}, h \in {2, 3}, fit \in {"span", "cover"}}
Far == Output(Box(30, 0, 3, 2), 3, 2, "span")
Placeless == Output(Box(0, 0, 0, 0), 3, 2, "span")
Same == Output(Box(1, 0, 3, 2), 3, 2, "cover")
Below == Output(Box(-2, 2, 5, 3), 5, 3, "span")

Together ==
  {<<Left, right>> : right \in Rights}
  \cup {<<Left, right, Below>> : right \in Rights}
  \cup {<<Left, Unselected(right), Below>> : right \in Rights}
  \cup {<<Left, Far>>, <<Left, Placeless, Same>>, <<Same, Left, Same>>, <<Placeless, Left>>,
        <<Unselected(Left), Same, Same>>, <<Unselected(Same), Same>>}

SmallOutputs == Alone \cup Together
=============================================================================
