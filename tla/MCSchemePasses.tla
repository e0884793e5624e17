--------------------------- MODULE MCSchemePasses ---------------------------
(* Model checking of SchemePasses: an encrypted input 0, a second leaf 1,  *)
(* encrypted or constant, at the same scale or at a larger one (a child of *)
(* a group that was built with another scale), and three operations, each  *)
(* of them used.                                                           *)
EXTENDS SchemePasses
LOCAL INSTANCE TLC

Unary(name, x) == [op |-> name, args |-> <<x>>]
Binary(name, x, y) == [op |-> name, args |-> <<x, y>>]

First == {Binary("Mul", 0, 0), Binary("Mul", 0, 1), Binary("Sub", 1, 0)}
Second == {Binary("Mul", 2, 2), Binary("Mul", 2, 1), Binary("Sub", 1, 2),
           Binary("Add", 2, 0), Unary("RotateLeftConst", 2)}
Third == {Binary("Mul", 3, 3), Binary("Mul", 3, 2), Binary("Add", 3, 2),
          Binary("Sub", 0, 3), Binary("Add", 3, 1)}

Program(scheme, leaf, scale, ops) ==
  LET nodes == [n \in 0 .. (Len(ops) + 1) |->
        CASE n = 0 -> [op |-> "Input", args |-> <<>>]
          [] n = 1 -> [op |-> leaf, args |-> <<>>]
          [] OTHER -> ops[n - 1]]
  IN  [scheme |-> scheme,
       op     |-> [n \in Node |-> IF n \in DOMAIN nodes THEN nodes[n].op ELSE "None"],
       args   |-> [n \in Node |-> IF n \in DOMAIN nodes THEN nodes[n].args ELSE <<>>],
       scale  |-> [n \in Node |-> CASE n = 0 -> 30 [] n = 1 -> scale [] OTHER -> 0],
       fixed  |-> 30,
       next   |-> Len(ops) + 2]

MCPrograms ==
  {Program("seal_ckks", "Input", 40, <<x, y, z, Unary("Output", 4)>>) :
     x \in First, y \in Second, z \in Third}
  \cup
  {Program("seal_ckks", "Constant", 40, <<x, y, z, Unary("Output", 4), Unary("Output", 3)>>) :
     x \in First, y \in Second, z \in {Binary("Mul", 3, 3), Binary("Add", 3, 1)}}
  \cup
  {Program(scheme, "Constant", 30, <<x, y, Binary("Mul", 3, 3), Unary("Output", 4)>>) :
     scheme \in {"seal_bfv", "openfhe_ckks", "openfhe_bfv"}, x \in First,
     y \in Second \cup {Unary("RotateRightConst", 2)}}

\* The default and the strictest configuration, a vector that fits and one that does not.
MCConfigs == {[security |-> 128, quantum |-> FALSE, vec_size |-> 2048],
              [security |-> 256, quantum |-> TRUE, vec_size |-> 16384]}
MCStdParms == <<128, FALSE>> :> <<27, 54, 109, 218, 438, 881>>
           @@ <<256, TRUE>>  :> <<13, 27, 54, 109, 220, 443>>
=============================================================================
