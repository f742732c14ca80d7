------------------------------ MODULE CharLines ------------------------------
(***************************************************************************)
(* What uart.cpp and swuart.cpp promise: each line carries the characters     *)
(* that were put to it, each once, in order.                                 *)
(***************************************************************************)
EXTENDS Sequences, Integers

CONSTANTS Lines, Chars
VARIABLES
  owed,      \* put to each line and not yet carried
  last       \* the characters that the last step carried, each with its line

Init == owed = [l \in Lines |-> <<>>] /\ last = {}
Put(l, c) == owed' = [owed EXCEPT ![l] = Append(@, c)] /\ last' = {}
(* Lines carry a character at the same time when they share a clock.           *)
Carry(S) ==
  /\ \A l \in S : owed[l] # <<>>
  /\ owed' = [l \in Lines |-> IF l \in S THEN Tail(owed[l]) ELSE owed[l]]
  /\ last' = {<<l, Head(owed[l])>> : l \in S}
Next == (\E S \in SUBSET Lines : Carry(S)) \/ \E l \in Lines, c \in Chars : Put(l, c)
Spec == Init /\ [][Next]_<<owed, last>>
=============================================================================
