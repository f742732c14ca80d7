--------------------------- MODULE HexBusLockStep ---------------------------
(***************************************************************************)
(* Where every unit is in its code, for each place of the host: the          *)
(* inductive invariants behind the safety of HexBus, LockStep when the host  *)
(* never gives up and BusOk when it may.                                   *)
(***************************************************************************)
EXTENDS HexBus

(* No handler turns the bus around early.                                   *)
ReadsAll == \A m \in Messages : m.eat = m.data

(* The host waits for ever...                                               *)
Patient == ~MayAbort /\ ReadsAll

(* ... or it may give up, but not in the few instructions that follow an edge *)
(* of its own, and every handler looks at BAV before it replies.  If it does   *)
(* not wait, then, for a handler that has lost the bus, handlers must return.  *)
Attentive ==
  /\ ReadsAll
  /\ MayAbort => /\ {"loop", "pull", "latch", "grab"} \subseteq Blink
                 /\ \A m \in Messages : m.how # "bare"
                 /\ Hurry => \A m \in Messages : m.lost = "returns"

Command == hpc \in {"put", "pull", "hold", "high"}

(* The unit that was spoken to, when it has an answer.                      *)
Answers(d) == d = msg.to /\ Answerable(msg)

(* What the host pulls and puts on the wires, and how far it can be.         *)
HostOk ==
  /\ Host \in hsk <=> hpc \in {"hold", "rLatch", "rFloat"}
  /\ Host \in bav <=> hpc # "idle"
  /\ drv[Host] = IF Command THEN hn ELSE 0
  /\ hpc \in {"put", "pull"} => hsk = {}
  /\ hpc = "put" => hn < Length(msg)
  /\ hpc \in {"pull", "hold", "high"} => hn > 0 /\ hn <= Length(msg)
  /\ hpc \in {"rPull", "rLatch", "rFloat", "rRise", "done"} => Answerable(msg)
  /\ hpc = "done" => hn = 2 * ReplyLen

(* What a unit pulls and puts on the wires.                                 *)
HoldsHsk(d) ==
  \/ pc[d] \in {"latch", "next", "float", "exec", "chk", "grab", "tFloat", "nullFloat"}
  \/ pc[d] \in {"loop", "igFloat", "rtn"} /\ Command
  \/ pc[d] = "pull" /\ n[d] = 0
UnitWires(d) ==
  /\ d \in hsk <=> HoldsHsk(d)
  /\ d \in bav <=> pc[d] \in Sending \cup {"fBav"}
  /\ drv[d] = IF pc[d] \in Sending THEN n[d] ELSE 0

(* How far a unit that listens, or sends, can have counted.                  *)
UnitCount(d) ==
  /\ pc[d] \in {"capBav", "capHsk", "capPull", "loop"} => n[d] = 0
  /\ pc[d] \in {"next", "float", "rise", "lowBav", "lowHsk"} => n[d] > 0
  /\ pc[d] \in {"float", "rise", "lowBav", "lowHsk", "pull", "latch"} => n[d] < Needs(d)
  /\ pc[d] \in {"tRise", "tPut"} => n[d] < 2 * ReplyLen
  /\ pc[d] \in {"tPull", "tFloat"} => n[d] <= 2 * ReplyLen
  /\ pc[d] \in {"fRise", "fData"} => n[d] = 2 * ReplyLen

(* A unit in the command phase has the nibble the host is at, or the one      *)
(* before it; or it handles the command, all of which has been sent; or it   *)
(* has turned away.                                                        *)
ListensPut(d) ==
  /\ hpc = "put"
  /\ \/ hn = 0 /\ pc[d] \in {"sleep", "capBav", "capHsk"}
     \/ n[d] = hn /\ pc[d] \in {"rise", "lowBav", "lowHsk"}
ListensPull(d) ==
  /\ hpc = "pull"
  /\ \/ hn = 1 /\ pc[d] \in {"sleep", "capBav", "capHsk"}
     \/ n[d] + 1 = hn /\ pc[d] \in {"lowBav", "lowHsk"}
ListensHold(d) ==
  /\ hpc = "hold"
  /\ \/ hn = 1 /\ pc[d] \in {"sleep", "capBav", "capHsk", "capPull", "loop"}
     \/ n[d] + 1 = hn /\ pc[d] \in {"lowBav", "lowHsk", "pull", "latch"}
     \/ n[d] = hn /\ pc[d] \in {"next", "float", "rise"}
ListensHigh(d) ==
  /\ hpc = "high"
  /\ \/ hn = 1 /\ pc[d] = "loop"
     \/ hn = 1 /\ n[d] = 0 /\ pc[d] = "pull"
     \/ n[d] + 1 = hn /\ pc[d] = "latch"
     \/ n[d] = hn /\ pc[d] \in {"next", "float", "rise"}
     \/ n[d] = hn /\ hsk = {} /\ pc[d] \in {"lowBav", "lowHsk"}
Listens(d) == ListensPut(d) \/ ListensPull(d) \/ ListensHold(d) \/ ListensHigh(d)
Handles(d) ==
  /\ Answers(d) /\ hpc \in {"hold", "high"} /\ hn = Length(msg)
  /\ \/ pc[d] \in {"exec", "chk", "grab"}
     \/ n[d] = 0 /\ pc[d] \in {"tFloat", "tRise"}
     \/ n[d] = 0 /\ pc[d] = "tPut" /\ hpc = "high"
Ignores(d) == ~Answers(d) /\ pc[d] \in {"igFloat", "nullFloat", "rtn", "igWait", "nullWait"}

(* In the reply phase the unit that was named is at the host's nibble or one  *)
(* ahead, and every other unit waits for BAV.                              *)
Finishing == {"fRise", "fData", "fBav", "rtn", "igFloat", "igWait"}
Replies(d) ==
  \/ hpc = "rLow" /\ n[d] = hn /\ pc[d] \in {"tRise", "tPut"}
  \/ hpc \in {"rLow", "rPull", "rLatch"} /\ n[d] = hn + 1 /\ pc[d] = "tFloat"
  \/ hpc = "rLow" /\ n[d] = hn + 1 /\ pc[d] = "tPull"
  \/ hpc = "rLatch" /\ n[d] = hn + 1 /\ pc[d] \in {"tRise", "fRise"}
  \/ hpc \in {"rFloat", "rRise"} /\ n[d] = hn /\ pc[d] \in {"tFloat", "tRise", "fRise"}
  \/ hpc = "rRise" /\ n[d] = hn /\ pc[d] = "tPut"
  \/ hpc = "rRise" /\ hn = 2 * ReplyLen /\ pc[d] \in Finishing
  \/ hpc = "done" /\ pc[d] \in Finishing
Waits(d) == ~Answers(d) /\ pc[d] \in {"igWait", "nullWait"}

(* Between transactions the units finish and go to sleep, on a free bus.     *)
GoesToSleep(d) ==
  \/ Answers(d) /\ pc[d] \in {"fRise", "fData", "fBav"}
  \/ pc[d] \in {"rtn", "igFloat", "igWait", "nullWait"}
  \/ bav = {} /\ pc[d] \in {"loop", "sleep"}

UnitPlace(d) ==
  \/ Command /\ (Listens(d) \/ Handles(d) \/ Ignores(d))
  \/ ~Command /\ hpc # "idle" /\ ((Answers(d) /\ Replies(d)) \/ Waits(d))
  \/ hpc = "idle" /\ GoesToSleep(d)

(* Every unit is where the host's place allows it to be.                     *)
UnitOk(d) == UnitWires(d) /\ UnitCount(d) /\ UnitPlace(d) /\ over[d] = Nobody
LockStep == HostOk /\ \A d \in Device : UnitOk(d)

(* What a unit left alone by the host can be at.  While nobody holds BAV it    *)
(* may be anywhere in the command or its work, with no half byte under way;   *)
(* only the unit that was named holds BAV, until its reply is out, and by     *)
(* then every other unit has the whole command, or ignores it.              *)
HearsNothing(d) ==
  \/ pc[d] \in {"next", "float", "rise", "lowBav"}
  \/ pc[d] = "lowHsk" /\ hsk = {}
LeftAlone(d) ==
  \/ bav = {} /\ (HearsNothing(d) \/ pc[d] \in {"loop", "sleep"})
  \/ pc[d] = "next" /\ msg.to # d /\ n[d] >= Needs(d)
  \/ Answers(d) /\ bav = {} /\ pc[d] \in {"lost", "exec", "chk", "fFloat"}
  \/ Answers(d) /\ (d \in bav \/ pc[d] \in {"fRise", "fData", "fBav"})
  \/ pc[d] \in {"rtn", "igFloat", "igWait", "nullFloat", "nullWait"}
(* A handler that goes on has lost the bus for good, or returns.             *)
GoesOn(d) ==
  /\ ~Hurry /\ Answers(d)
  /\ over[d].to = d /\ over[d].how = "checked" /\ over[d].lost = "returns"
  /\ \/ n[d] >= 2 * PabLen /\ pc[d] \in {"lost", "float", "rise", "lowBav"}
     \/ pc[d] \in {"chk", "fFloat", "fRise", "fData", "fBav", "rtn"}
OverOk(d) == IF over[d] = Nobody THEN pc[d] # "lost" ELSE GoesOn(d)
AloneCount(d) == pc[d] \in {"float", "rise", "lowBav", "lowHsk"} => n[d] < Needs(d)
AloneWires(d) ==
  /\ d \in bav => Answers(d) /\ pc[d] \in Sending \cup {"fBav"}
  /\ pc[d] \in {"tFloat", "tRise", "tPut", "tPull"} => d \in bav
  /\ drv[d] # 0 => Answers(d) /\ pc[d] \in Sending
  /\ pc[d] \in {"next", "exec"} => d \in hsk
AloneOk(d) == LeftAlone(d) /\ OverOk(d) /\ AloneCount(d) /\ AloneWires(d)

(* In lock step during a transaction; between two, ended or abandoned, every  *)
(* unit on its way back to sleep.                                          *)
BusOk == \/ hpc # "idle" /\ LockStep
         \/ hpc = "idle" /\ HostOk /\ \A d \in Device : AloneOk(d)
=============================================================================
