------------------------------ MODULE MCHexBus ------------------------------
(* Small instances of HexBus: which messages the host sends and when it may  *)
(* give up.                                                                *)
EXTENDS HexBusLockStep

Msg(to, data, eat, how, lost) ==
  [to |-> to, data |-> data, eat |-> eat, how |-> how, lost |-> lost]

(* A bare command and one with a data byte for each unit, a reset, a        *)
(* message for a device code nobody has.                                   *)
Commands == {Msg(d, b, b, "checked", "returns") : d \in Device, b \in {0, 1}}
Others   == {Msg(Everyone, 0, 0, "checked", "returns"), Msg(Nobody, 1, 1, "checked", "returns")}
            \cup {Msg(d, 0, 0, "reset", "returns") : d \in Device}
Careless(kinds) == {Msg(d, 0, 0, how, "returns") : d \in Device, how \in kinds}

AllMessages == Commands \cup Others \cup Careless({"leaky", "bare", "mute"})

(* Writes of two pieces, whose handlers go on when the bus is lost.         *)
Writes(kinds) == {Msg(d, 2, 2, "checked", lost) : d \in Device, lost \in kinds}

(* What a host may give up: every kind of handler that looks at BAV.         *)
LeakyMessages   == Commands \cup Others \cup Careless({"leaky", "mute"}) \cup Writes({"rest", "any"})
(* What goes wrong: a handler that goes on without the bus, one that keeps   *)
(* HSK, one that does not read its data, one that does not look at BAV.      *)
WriteMessages == Writes({"rest"})
ClockReads    == Careless({"leaky"})
ClockWrites   == {Msg(d, 1, 0, "checked", "returns") : d \in Device}
DriveReads    == Careless({"bare"})

(* What a unit does in a few instructions right after an edge of the host's, *)
(* a host's timeout being milliseconds.                                     *)
MCBlink == {"capPull", "loop", "pull", "latch", "grab"}
=============================================================================
