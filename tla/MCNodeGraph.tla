---------------------------- MODULE MCNodeGraph ----------------------------
(* Model checking of NodeGraph: every sequence of factory and method calls *)
(* on up to MaxNode nodes whose operand vectors hold at most two elements, *)
(* two different ones or the same one twice; and of DagText on each graph  *)
(* that these calls reach, with attributes set in every kind of order.     *)
EXTENDS GraphText

MCVector == {b \in [Node -> 0 .. 2] :
               \A x, y, z \in Node :
                  /\ x # y => b[x] + b[y] <= 2
                  /\ x # y /\ y # z /\ x # z => b[x] + b[y] + b[z] <= 2}

MCSlots == 4
Sets(key, value) == [key |-> key, value |-> value]
MCAssigned ==
  [n \in Node |->
     CASE n = 0 -> <<Sets(6, Type("cipher")), Sets(3, Constant(Dense(MCSlots, <<7>>)))>>
       [] n = 1 -> <<Sets(2, Number(3)), Sets(10, Number(1)), Sets(6, Type("plain")),
                     Sets(2, Number(5)), Sets(7, Number(20))>>
       [] n = 2 -> <<>>
       [] OTHER -> <<Sets(4, Int64Constant(Dense(MCSlots, <<1, 2>>))), Sets(6, Type("raw")),
                     Sets(9, Number(4)), Sets(6, Type("cipher")), Sets(10, Number(2))>>]
=============================================================================
