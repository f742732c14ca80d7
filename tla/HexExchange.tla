---------------------------- MODULE HexExchange ----------------------------
(***************************************************************************)
(* What the HEX-BUS promises, without wires: a transaction is a command the *)
(* host says half a byte at a time to every unit that listens, in lock step *)
(* with the slowest of them, and then a reply that the unit it named says   *)
(* to the host in the same way.  HexBus implements it.                     *)
(***************************************************************************)
EXTENDS Naturals

CONSTANTS Device, ReplyLen

VARIABLES
  phase,   \* nothing, the command or the reply is under way
  to,      \* whom the command names
  left,    \* nibbles of the command not yet said
  said,    \* nibbles said in this phase
  ears,    \* the units that listen to the command
  heard,   \* heard[d]: nibbles of the command that d has
  got      \* nibbles of the reply the host has

vars == <<phase, to, left, said, ears, heard, got>>

(* Whoever still listens has everything that has been said.                 *)
AllHeard == \A d \in ears : heard[d] = said

Begin == /\ phase = "free" /\ phase' = "command"
         /\ said' = 0 /\ got' = 0 /\ left' \in Nat
         /\ ears' = Device /\ heard' = [d \in Device |-> 0]

Say == /\ phase = "command" /\ AllHeard /\ left > 0
       /\ said' = said + 1 /\ left' = left - 1
       /\ UNCHANGED <<phase, to, ears, heard, got>>

Hear(d) == /\ phase = "command" /\ d \in ears /\ heard[d] + 1 = said
           /\ heard' = [heard EXCEPT ![d] = said]
           /\ UNCHANGED <<phase, to, left, said, ears, got>>

Leave(d) == /\ phase = "command"
            /\ ears' = ears \ {d} /\ heard' = [heard EXCEPT ![d] = 0]
            /\ UNCHANGED <<phase, to, left, said, got>>

Turn == /\ phase = "command" /\ AllHeard /\ left = 0
        /\ phase' = "reply" /\ said' = 0
        /\ ears' = {} /\ heard' = [d \in Device |-> 0]
        /\ UNCHANGED <<to, left, got>>

SayReply == /\ phase = "reply" /\ to \in Device
            /\ got = said /\ said < 2 * ReplyLen
            /\ said' = said + 1
            /\ UNCHANGED <<phase, to, left, ears, heard, got>>

HearReply == /\ phase = "reply" /\ got + 1 = said /\ got' = said
             /\ UNCHANGED <<phase, to, left, said, ears, heard>>

End == /\ phase # "free" /\ phase' = "free"
       /\ said' = 0 /\ got' = 0 /\ left' = 0
       /\ ears' = {} /\ heard' = [d \in Device |-> 0]
       /\ UNCHANGED to

Init == /\ phase = "free" /\ said = 0 /\ got = 0 /\ left = 0
        /\ ears = {} /\ heard = [d \in Device |-> 0]

Next == \/ Begin \/ Say \/ Turn \/ SayReply \/ HearReply \/ End
        \/ \E d \in Device : Hear(d) \/ Leave(d)

Spec == Init /\ [][Next]_vars
=============================================================================
