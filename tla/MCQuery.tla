------------------------------ MODULE MCQuery ------------------------------
(* Model checking of Query: full and short tables, equal numbers, numbers  *)
(* that differ in their first or in their last digit only, and zeros like  *)
(* those that pad a table.                                                 *)
EXTENDS Query
LOCAL INSTANCE TLC

MCTables ==
  {[x |-> <<5, 0, 1073741824, 7, 5, 4, 6, 2>>, y |-> <<5, 3, 12, 40, 1, 1, 6, 8>>],
   [x |-> <<260, 261>>, y |-> <<261, 260>>],
   [x |-> <<9>>, y |-> <<0>>],
   [x |-> <<4, 4, 65536>>, y |-> <<20, 4, 65535>>]}

MCSecond == {[relation |-> "<", with |-> <<6>>], [relation |-> "!=", with |-> <<>>]}

MCDivisions == {[modulus |-> 97, dividend |-> 61, divisor |-> 50],
                [modulus |-> 53, dividend |-> 7, divisor |-> 48]}
MCRoots == 9 :> <<108, 280>>
=============================================================================
