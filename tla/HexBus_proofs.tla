--------------------------- MODULE HexBus_proofs ---------------------------
(***************************************************************************)
(* What holds on a bus with any number of units and any length of message:   *)
(* the types; LockStep is inductive; and what follows from it, who talks,     *)
(* what is read, and that HexBus implements HexExchange.                     *)
(***************************************************************************)
EXTENDS HexBusLockStep, TLAPS

UnitTypes == /\ pc \in [Device -> DeviceStates] /\ n \in [Device -> Nat]
             /\ lv \in [Device -> SUBSET (Party \X Nat)]
             /\ over \in [Device -> MessageType \cup {Nobody}]
WireTypes == hsk \subseteq Party /\ bav \subseteq Party /\ drv \in [Party -> Nat]
HostTypes == /\ hpc \in HostStates /\ hn \in Nat /\ hlv \in SUBSET (Party \X Nat)
             /\ msg \in Messages

LEMMA TypeParts == TypeOk <=> UnitTypes /\ WireTypes /\ HostTypes
BY DEF TypeOk, UnitTypes, WireTypes, HostTypes

(* The command of a unit is a message.                                      *)
LEMMA CmdType ==
  ASSUME UnitTypes, HostTypes, NEW d \in Device
  PROVE  Cmd(d) \in MessageType
BY ConstantsOk DEF UnitTypes, HostTypes, Cmd

(* A read of the data lines finds nibbles of parties on the bus.            *)
LEMMA LinesType == WireTypes => Lines \in SUBSET (Party \X Nat)
BY DEF WireTypes, Lines

LEMMA GoType ==
  ASSUME UnitTypes, NEW d \in Device, NEW from, NEW to \in DeviceStates, Go(d, from, to)
  PROVE  pc' \in [Device -> DeviceStates]
BY DEF UnitTypes, Go

(* Where a handler that has lost the bus goes on counting.                  *)
LEMMA LostCounts ==
  ASSUME UnitTypes, HostTypes, NEW d \in Device, n[d] >= 2 * PabLen
  PROVE  Skips(d) \subseteq Nat
<1> DEFINE c == Cmd(d).eat
           a == n[d] - 2 * PabLen
           b == 2 * Chunk
           k == a \div b
<1>1. c \in Nat
  BY CmdType DEF MessageType
<1>2. a \in Nat /\ b \in Nat /\ b > 0 /\ Chunk \in Nat
  BY ConstantsOk DEF UnitTypes
<1>3. k \in Nat
  <2> HIDE DEF a, b
  <2> QED
    BY <1>2
<1>4. PieceEnd(d) = (IF (k + 1) * Chunk < c THEN (k + 1) * Chunk ELSE c)
  BY DEF PieceEnd
<1>5. (k + 1) * Chunk \in Nat
  <2> HIDE DEF k
  <2> QED
    BY <1>2, <1>3
<1>6. PieceEnd(d) \in Nat
  <2> HIDE DEF k, c
  <2> QED
    BY <1>1, <1>4, <1>5
<1> QED
  <2> HIDE DEF c
  <2> QED
    BY <1>1, <1>6 DEF Skips

LEMMA TypesOfUnchanged ==
  ASSUME UnitTypes, WireTypes, HostTypes, UNCHANGED <<hsk, bav, drv, lv, hpc, hn, hlv, msg>>,
         n' \in [Device -> Nat], over' \in [Device -> MessageType \cup {Nobody}],
         pc' \in [Device -> DeviceStates]
  PROVE  UnitTypes' /\ WireTypes' /\ HostTypes'
BY DEF UnitTypes, WireTypes, HostTypes

LEMMA LostDataType ==
  ASSUME UnitTypes, WireTypes, HostTypes, NEW d \in Device, LostData(d)
  PROVE  UnitTypes' /\ WireTypes' /\ HostTypes'
<1>1. [Cmd(d) EXCEPT !.lost = "returns"] \in MessageType
  BY CmdType DEF MessageType
<1>2. n[d] >= 2 * PabLen
  BY DEF LostData
<1>3. Skips(d) \subseteq Nat
  BY <1>2, LostCounts
<1>4. PICK k \in Skips(d) : n' = [n EXCEPT ![d] = 2 * (PabLen + k)]
  BY DEF LostData
<1>5. 2 * (PabLen + k) \in Nat
  BY <1>3, ConstantsOk
<1>6. n' \in [Device -> Nat]
  BY <1>4, <1>5 DEF UnitTypes
<1>7. over' \in [Device -> MessageType \cup {Nobody}]
  BY <1>1 DEF LostData, UnitTypes
<1>8. "lost" \in DeviceStates /\ Go(d, "lowBav", "lost")
  BY DEF LostData, DeviceStates
<1>9. pc' \in [Device -> DeviceStates] /\ UNCHANGED <<hsk, bav, drv, lv, hpc, hn, hlv, msg>>
  BY <1>8, GoType DEF LostData, hostVars
<1> QED
  BY <1>6, <1>7, <1>9, TypesOfUnchanged

LEMMA ReceiveType ==
  ASSUME UnitTypes, WireTypes, HostTypes, NEW d \in Device, Receive(d)
  PROVE  UnitTypes' /\ WireTypes' /\ HostTypes'
<1> d \in Party
  BY DEF Party
<1> USE DEF UnitTypes, WireTypes, HostTypes, hostVars, Go, DeviceStates
<1>1. CASE Wake(d) \/ CaptureBav(d) \/ CaptureHsk(d) \/ CapturePull(d) \/ Loop(d)
  BY <1>1 DEF Wake, CaptureBav, CaptureHsk, CapturePull, Loop, Restart, Pull
<1>2. CASE Release(d) \/ Risen(d) \/ WaitBav(d) \/ WaitHsk(d) \/ Hold(d)
  BY <1>2 DEF Release, Risen, WaitBav, WaitHsk, Hold, Pull, Float
<1>3. CASE Latch(d)
  BY <1>3, LinesType DEF Latch
<1>4. CASE LostBus(d) \/ GoOn(d) \/ More(d)
  BY <1>4 DEF LostBus, GoOn, More
<1>5. CASE Dispatch(d)
  BY <1>5 DEF Dispatch
<1>6. CASE LostData(d)
  BY ONLY <1>6, UnitTypes, WireTypes, HostTypes, LostDataType
<1> QED
  BY <1>1, <1>2, <1>3, <1>4, <1>5, <1>6 DEF Receive

LEMMA ReplyType ==
  ASSUME UnitTypes, WireTypes, HostTypes, NEW d \in Device, Reply(d)
  PROVE  UnitTypes' /\ WireTypes' /\ HostTypes'
<1> d \in Party
  BY DEF Party
<1> USE DEF UnitTypes, WireTypes, HostTypes, hostVars, Go, DeviceStates
<1>1. CASE Execute(d) \/ CheckBav(d) \/ Grab(d)
  BY <1>1 DEF Execute, CheckBav, Grab, Restart
<1>2. CASE SendFloat(d) \/ SendRisen(d) \/ SendPull(d)
  BY <1>2 DEF SendFloat, SendRisen, SendPull, Float, Pull
<1>3. CASE SendPut(d)
  BY <1>3 DEF SendPut
<1>4. CASE FinishFloat(d) \/ FinishRisen(d) \/ FinishData(d) \/ FinishBav(d)
  BY <1>4 DEF FinishFloat, FinishRisen, FinishData, FinishBav, Float
<1> QED
  BY <1>1, <1>2, <1>3, <1>4 DEF Reply

LEMMA IgnoreType ==
  ASSUME UnitTypes, WireTypes, HostTypes, NEW d \in Device, Ignore(d)
  PROVE  UnitTypes' /\ WireTypes' /\ HostTypes'
<1> USE DEF UnitTypes, WireTypes, HostTypes, hostVars, Go, DeviceStates
<1> QED
  BY DEF Ignore, Return, IgnoreFloat, IgnoreWait, NullFloat, NullWait, Restart, Float

LEMMA HostType ==
  ASSUME UnitTypes, WireTypes, HostTypes,
         (\E m \in Messages : HostStart(m)) \/ HostStep \/ HostAbort
  PROVE  UnitTypes' /\ WireTypes' /\ HostTypes'
<1> Host \in Party
  BY DEF Party
<1>0. \A d \in Device : Cmd(d) \in MessageType
  BY ONLY UnitTypes, HostTypes, ConstantsOk DEF UnitTypes, HostTypes, Cmd
<1> USE DEF UnitTypes, WireTypes, HostTypes, devVars, HostGo, HostStates
<1>1. CASE \E m \in Messages : HostStart(m)
  <2>2. over' \in [Device -> MessageType \cup {Nobody}]
    BY <1>1, <1>0 DEF HostStart
  <2>3. /\ UNCHANGED <<hsk, drv, hlv, pc, n, lv>> /\ bav' = bav \cup {Host}
        /\ hpc' = "put" /\ hn' = 0 /\ msg' \in Messages
    BY <1>1 DEF HostStart
  <2> QED
    BY <2>2, <2>3
<1>2. CASE HostSend
  BY <1>2 DEF HostSend, HostPut, HostPull, HostFloat, HostNext, HostTurn, Pull, Float
<1>3. CASE HostSeesLow \/ HostHold \/ HostRelease \/ HostRisen
  BY <1>3 DEF HostSeesLow, HostHold, HostRelease, HostRisen, Pull, Float
<1>4. CASE HostLatch
  BY <1>4, LinesType DEF HostLatch
<1>5. CASE HostEnd \/ HostAbort
  BY <1>5 DEF HostEnd, HostAbort
<1> QED
  BY <1>1, <1>2, <1>3, <1>4, <1>5 DEF HostStep, HostListen

LEMMA TypeStep == TypeOk /\ [Next]_vars => TypeOk'
<1> SUFFICES ASSUME UnitTypes, WireTypes, HostTypes, [Next]_vars
             PROVE  UnitTypes' /\ WireTypes' /\ HostTypes'
  BY TypeParts DEF TypeOk, UnitTypes, WireTypes, HostTypes
<1>1. CASE \E d \in Device : DeviceStep(d)
  BY <1>1, ReceiveType, ReplyType, IgnoreType DEF DeviceStep
<1>2. CASE (\E m \in Messages : HostStart(m)) \/ HostStep \/ HostAbort
  BY <1>2, HostType
<1>3. CASE UNCHANGED vars
  BY <1>3 DEF vars, UnitTypes, WireTypes, HostTypes
<1> QED
  BY <1>1, <1>2, <1>3 DEF Next

(* Every variable keeps its type.                                           *)
THEOREM TypeInvariant == Spec => []TypeOk
<1>1. Init => TypeOk
  BY DEF Init, TypeOk, DeviceStates, HostStates
<1> QED
  BY <1>1, TypeStep, PTL DEF Spec

-----------------------------------------------------------------------------
(* The lengths of a message, as far as the proof needs them.                 *)
LEMMA LengthType ==
  ASSUME NEW m \in Messages
  PROVE  Length(m) \in Nat /\ Length(m) >= 2
<1>1. m \in MessageType /\ PabLen \in Nat \ {0}
  BY ConstantsOk
<1> QED
  BY <1>1 DEF MessageType, Length

(* No unit waits for more than the host sends; the one spoken to, for all.   *)
LEMMA Lengths ==
  ASSUME TypeOk, ReadsAll, NEW d \in Device, over[d] = Nobody
  PROVE  /\ Length(msg) \in Nat /\ Length(msg) >= 2
         /\ Needs(d) \in Nat /\ Needs(d) >= 2 /\ Needs(d) <= Length(msg)
         /\ msg.to = d => Needs(d) = Length(msg)
         /\ ReplyLen \in Nat /\ ReplyLen > 0
<1>1. msg \in MessageType /\ msg.eat = msg.data
  BY ConstantsOk DEF TypeOk, ReadsAll
<1>2. msg.data \in Nat
  BY <1>1 DEF MessageType
<1>3. PabLen \in Nat \ {0} /\ ReplyLen \in Nat \ {0}
  BY ConstantsOk
<1> QED
  BY <1>1, <1>2, <1>3 DEF Length, Needs, Cmd

(* A unit in a transaction is at the command of that transaction.            *)
LEMMA AtTheMessage ==
  ASSUME NEW d \in Device, over[d] = Nobody
  PROVE  Cmd(d) = msg
BY DEF Cmd

(* Lengths depend on the commands alone.                                    *)
LEMMA SameLengths ==
  ASSUME UNCHANGED msg, NEW d \in Device
  PROVE  /\ Length(msg)' = Length(msg)
         /\ over'[d] = over[d] => Cmd(d)' = Cmd(d) /\ Needs(d)' = Needs(d)
BY DEF Length, Needs, Cmd

(* What a step of unit d leaves alone.                                      *)
Leaves(d) ==
  /\ UNCHANGED hostVars
  /\ \A p \in Party \ {d} : /\ p \in hsk' <=> p \in hsk
                            /\ p \in bav' <=> p \in bav
                            /\ drv'[p] = drv[p]
  /\ \A e \in Device \ {d} : pc'[e] = pc[e] /\ n'[e] = n[e] /\ over'[e] = over[e]
  /\ hpc \in {"put", "pull"} => hsk' = hsk
  /\ hpc = "high" /\ hsk = {} => hsk' = {}
  /\ hpc = "idle" /\ bav = {} => bav' = {}

(* A step of d keeps every other unit where it may be, and the host.         *)
LEMMA OthersKeep ==
  ASSUME LockStep, NEW d \in Device, Leaves(d), NEW e \in Device, e # d
  PROVE  UnitOk(e)'
<1> e \in Party \ {d}
  BY DEF Party
<1>1. /\ UNCHANGED <<hpc, hn, msg>> /\ pc'[e] = pc[e] /\ n'[e] = n[e] /\ drv'[e] = drv[e]
      /\ over'[e] = over[e]
      /\ e \in hsk' <=> e \in hsk
      /\ e \in bav' <=> e \in bav
  BY DEF Leaves, hostVars
<1>2. UnitWires(e)'
  BY <1>1 DEF LockStep, UnitOk, UnitWires, HoldsHsk, Command
<1>3. UnitCount(e)'
  BY <1>1, SameLengths DEF LockStep, UnitOk, UnitCount
<1>4. UnitPlace(e)'
  <2>1. Listens(e) => Listens(e)'
    BY <1>1 DEF Leaves, Listens, ListensPut, ListensPull, ListensHold, ListensHigh
  <2>2. (Handles(e) => Handles(e)') /\ (Ignores(e) => Ignores(e)')
    BY <1>1 DEF Handles, Ignores, Answers, Answerable, Length
  <2>3. (Answers(e) /\ Replies(e) => Answers(e)' /\ Replies(e)') /\ (Waits(e) => Waits(e)')
    BY <1>1 DEF Replies, Waits, Answers, Answerable
  <2>4. hpc = "idle" /\ GoesToSleep(e) => GoesToSleep(e)'
    BY <1>1 DEF Leaves, GoesToSleep, Answers, Answerable
  <2> QED
    BY <1>1, <2>1, <2>2, <2>3, <2>4 DEF LockStep, UnitOk, UnitPlace, Command
<1> QED
  BY <1>1, <1>2, <1>3, <1>4 DEF LockStep, UnitOk

LEMMA HostKeeps ==
  ASSUME LockStep, NEW d \in Device, Leaves(d)
  PROVE  HostOk'
<1> Host \in Party \ {d}
  BY ConstantsOk DEF Party
<1>1. /\ UNCHANGED <<hpc, hn, msg>> /\ drv'[Host] = drv[Host]
      /\ Host \in hsk' <=> Host \in hsk
      /\ Host \in bav' <=> Host \in bav
  BY DEF Leaves, hostVars
<1> QED
  BY <1>1 DEF Leaves, LockStep, HostOk, Command, Length, Answerable

(* Each step of a unit leaves it where the host's place allows it to be.     *)
LEMMA UnitKeeps ==
  ASSUME TypeOk, ReadsAll, LockStep, NEW d \in Device, DeviceStep(d)
  PROVE  UnitOk(d)' /\ Leaves(d)
<1> d \in Party \ {Host} /\ UnitOk(d) /\ HostOk
  BY ConstantsOk DEF Party, LockStep
<1> Cmd(d) = msg
  BY AtTheMessage DEF UnitOk
<1> USE Lengths, SameLengths
    DEF TypeOk, Go, hostVars, UnitOk, UnitWires, HoldsHsk, UnitCount, HostOk,
        Leaves, Command, Answers, Answerable, UnitPlace, Listens, ListensPut, ListensPull,
        ListensHold, ListensHigh, Handles, Ignores, Replies, Waits, GoesToSleep, Finishing,
        Sending, BavHigh, HskHigh, DeviceStates, HostStates
<1>1. CASE Wake(d)
  BY <1>1 DEF Wake, Restart
<1>2. CASE CaptureBav(d)
  BY <1>2 DEF CaptureBav
<1>3. CASE CaptureHsk(d)
  BY <1>3 DEF CaptureHsk
<1>4. CASE CapturePull(d)
  BY <1>4 DEF CapturePull, Pull
<1>5. CASE Loop(d)
  BY <1>5 DEF Loop
<1>6. CASE Release(d)
  BY <1>6 DEF Release, Float
<1>7. CASE Risen(d)
  BY <1>7 DEF Risen
<1>8. CASE WaitBav(d)
  BY <1>8 DEF WaitBav
<1>9. CASE WaitHsk(d)
  BY <1>9 DEF WaitHsk
<1>10. CASE Hold(d)
  BY <1>10 DEF Hold, Pull
<1>11. CASE Latch(d)
  BY <1>11 DEF Latch
<1>12. CASE LostBus(d) \/ LostData(d) \/ GoOn(d)
  BY <1>12 DEF LostBus, LostData, GoOn
<1>13. CASE More(d)
  BY <1>13 DEF More
<1>14. CASE Dispatch(d)
  BY <1>14, ConstantsOk DEF Dispatch
<1>15. CASE Execute(d)
  BY <1>15 DEF Execute
<1>16. CASE CheckBav(d)
  BY <1>16 DEF CheckBav
<1>17. CASE Grab(d)
  BY <1>17 DEF Grab, Restart
<1>18. CASE SendFloat(d)
  BY <1>18 DEF SendFloat, SeenLow, Float
<1>19. CASE SendRisen(d)
  BY <1>19 DEF SendRisen
<1>20. CASE SendPut(d)
  BY <1>20 DEF SendPut, SeenHigh
<1>21. CASE SendPull(d)
  BY <1>21 DEF SendPull, Pull
<1>22. CASE FinishFloat(d)
  BY <1>22 DEF FinishFloat, Float
<1>23. CASE FinishRisen(d)
  BY <1>23 DEF FinishRisen
<1>24. CASE FinishData(d)
  BY <1>24 DEF FinishData
<1>25. CASE FinishBav(d)
  BY <1>25 DEF FinishBav
<1>26. CASE Return(d)
  BY <1>26 DEF Return
<1>27. CASE IgnoreFloat(d)
  BY <1>27 DEF IgnoreFloat, Float
<1>28. CASE IgnoreWait(d)
  BY <1>28 DEF IgnoreWait, Restart
<1>29. CASE NullFloat(d)
  BY <1>29 DEF NullFloat, Float
<1>30. CASE NullWait(d)
  BY <1>30 DEF NullWait
<1> QED
  BY ONLY DeviceStep(d), <1>1, <1>2, <1>3, <1>4, <1>5, <1>6, <1>7, <1>8, <1>9, <1>10,
     <1>11, <1>12, <1>13, <1>14, <1>15, <1>16, <1>17, <1>18, <1>19, <1>20,
     <1>21, <1>22, <1>23, <1>24, <1>25, <1>26, <1>27, <1>28, <1>29, <1>30
     DEF DeviceStep, Receive, Reply, Ignore

(* Each step of the host, likewise.                                         *)
LEMMA StartKeeps ==
  ASSUME TypeOk, ReadsAll, LockStep, NEW m \in Messages, HostStart(m)
  PROVE  LockStep'
<1>1. Length(m) \in Nat /\ Length(m) >= 2
  BY LengthType
<1>2. /\ hpc = "idle" /\ hpc' = "put" /\ hn' = 0 /\ msg' = m /\ hsk = {} /\ hsk' = {}
      /\ bav = {} /\ bav' = {Host} /\ UNCHANGED <<drv, pc, n>>
      /\ \A d \in Device : pc[d] # "exec" => over'[d] = over[d]
  BY DEF HostStart, HostGo, BavHigh, HskHigh, devVars
<1>3. HostOk'
  BY <1>1, <1>2, ConstantsOk DEF LockStep, HostOk, Command, TypeOk, Party
<1>4. ASSUME NEW d \in Device  PROVE UnitOk(d)'
  <2>1. pc[d] = "sleep" /\ d # Host
    BY ConstantsOk DEF HostStart, HostGo, LockStep, UnitOk, UnitPlace, GoesToSleep, Command
  <2> QED
    BY <1>2, <2>1 DEF LockStep, UnitOk, UnitWires, HoldsHsk, UnitCount, UnitPlace, Command,
                      Listens, ListensPut, Sending
<1> QED
  BY <1>3, <1>4 DEF LockStep

(* The types the steps of the host need.                                    *)
LEMMA HostVarTypes ==
  ASSUME TypeOk
  PROVE  hsk \subseteq Party /\ hn \in Nat /\ drv[Host] \in Nat
BY DEF TypeOk, Party

(* In the reply phase only the unit that answers can hold HSK.               *)
LEMMA SomebodyHolds ==
  ASSUME TypeOk, LockStep, hpc = "rLow", ~HskHigh, NEW d \in Device, ~Waits(d)
  PROVE  pc[d] = "tFloat" /\ n[d] = hn + 1 /\ Answerable(msg)
<1>1. PICK p \in Device : p \in hsk
  BY DEF TypeOk, Party, LockStep, HostOk, HskHigh
<1>2. Answers(p) /\ pc[p] = "tFloat" /\ n[p] = hn + 1
  BY <1>1 DEF LockStep, UnitOk, UnitWires, HoldsHsk, UnitPlace, Waits, Replies, Command
<1>3. Answers(d)
  BY DEF LockStep, UnitOk, UnitPlace, Waits, Command
<1> QED
  BY <1>2, <1>3 DEF Answers

(* The host keeps its own part of the invariant...                          *)
LEMMA HostMoves ==
  ASSUME TypeOk, ReadsAll, LockStep, HostStep
  PROVE  HostOk'
<1> HostOk /\ Host \in Party
  BY DEF LockStep, Party
<1> USE HostVarTypes DEF HostGo, devVars, HostOk, Command, Answerable, HskHigh
<1>1. CASE HostPut
  BY <1>1, LengthType DEF HostPut, TypeOk
<1>2. CASE HostPull \/ HostFloat \/ HostNext
  BY <1>2 DEF HostPull, HostFloat, HostNext, Pull, Float, Length
<1>3. CASE HostTurn
  BY <1>3 DEF HostTurn, TypeOk
<1>4. CASE HostSeesLow
  <2>1. PICK p \in Device : ~Waits(p)
    BY <1>4 DEF HostSeesLow, TypeOk, Party, LockStep, UnitOk, UnitWires, HoldsHsk, Waits
  <2> QED
    BY <1>4, <2>1, SomebodyHolds DEF HostSeesLow
<1>5. CASE HostHold \/ HostLatch \/ HostRelease \/ HostRisen
  BY <1>5 DEF HostHold, HostLatch, HostRelease, HostRisen, Pull, Float
<1>6. CASE HostEnd
  BY <1>6 DEF HostEnd
<1> QED
  BY <1>1, <1>2, <1>3, <1>4, <1>5, <1>6 DEF HostStep, HostSend, HostListen

(* ... and each unit is where the host's new place allows it to be.          *)
LEMMA HostLeaves ==
  ASSUME TypeOk, ReadsAll, LockStep, HostStep, NEW d \in Device
  PROVE  UnitOk(d)'
<1> d # Host /\ UnitOk(d) /\ HostOk /\ Host \in Party /\ pc[d] \in DeviceStates /\ n[d] \in Nat
  BY ConstantsOk DEF LockStep, Party, TypeOk
<1>1. d \in hsk' <=> d \in hsk
  BY DEF HostStep, HostSend, HostListen, HostPut, HostPull, HostFloat, HostNext, HostTurn,
         HostSeesLow, HostHold, HostLatch, HostRelease, HostRisen, HostEnd, Pull, Float
<1>2. d \in bav' <=> d \in bav
  BY DEF HostStep, HostSend, HostListen, HostPut, HostPull, HostFloat, HostNext, HostTurn,
         HostSeesLow, HostHold, HostLatch, HostRelease, HostRisen, HostEnd
<1>3. drv'[d] = drv[d] /\ UNCHANGED <<pc, n, over, msg>>
  BY DEF HostStep, HostSend, HostListen, HostPut, HostPull, HostFloat, HostNext, HostTurn,
         HostSeesLow, HostHold, HostLatch, HostRelease, HostRisen, HostEnd, TypeOk, Party,
         devVars
<1>4. UnitCount(d)' /\ (over[d] = Nobody)'
  BY <1>3, SameLengths DEF UnitOk, UnitCount
<1>5. UnitWires(d)' /\ UnitPlace(d)'
  <2> USE <1>1, <1>2, <1>3, HostVarTypes, Lengths, SameLengths
      DEF HostGo, HostOk, UnitOk, UnitWires, HoldsHsk, UnitCount, UnitPlace, Command, Answers,
          Answerable, Listens, ListensPut, ListensPull, ListensHold, ListensHigh, Handles,
          Ignores, Replies, Waits, GoesToSleep, Finishing, Sending, HskHigh
  <2>1. CASE HostPut
    BY <2>1 DEF HostPut, SeenHigh
  <2>2. CASE HostPull
    BY <2>2 DEF HostPull
  <2>3. CASE HostFloat
    BY <2>3 DEF HostFloat, SeenLow, Deaf
  <2>4. CASE HostNext
    BY <2>4 DEF HostNext
  <2>5. CASE HostTurn
    BY <2>5 DEF HostTurn
  <2>6. CASE HostSeesLow
    BY <2>6, SomebodyHolds DEF HostSeesLow
  <2>7. CASE HostHold
    BY <2>7 DEF HostHold
  <2>8. CASE HostLatch
    BY <2>8 DEF HostLatch
  <2>9. CASE HostRelease
    BY <2>9 DEF HostRelease
  <2>10. CASE HostRisen
    BY <2>10 DEF HostRisen
  <2>11. CASE HostEnd
    BY <2>11 DEF HostEnd
  <2> QED
    BY ONLY HostStep, <2>1, <2>2, <2>3, <2>4, <2>5, <2>6, <2>7, <2>8, <2>9, <2>10, <2>11
       DEF HostStep, HostSend, HostListen
<1> QED
  BY <1>4, <1>5 DEF UnitOk

(* Every step but the host's giving up keeps the lock step.                  *)
LEMMA StepKeeps ==
  ASSUME TypeOk, ReadsAll, LockStep, [Next]_vars, ~HostAbort
  PROVE  LockStep'
<1>1. CASE \E d \in Device : DeviceStep(d)
  <2>1. PICK d \in Device : DeviceStep(d)
    BY <1>1
  <2>2. UnitOk(d)' /\ Leaves(d)
    BY <2>1, UnitKeeps
  <2>3. \A e \in Device : UnitOk(e)'
    BY <2>2, OthersKeep
  <2> QED
    BY <2>2, <2>3, HostKeeps DEF LockStep
<1>2. CASE \E m \in Messages : HostStart(m)
  BY <1>2, StartKeeps
<1>3. CASE HostStep
  BY <1>3, HostMoves, HostLeaves DEF LockStep
<1>4. CASE UNCHANGED vars
  BY <1>4 DEF vars, LockStep, HostOk, UnitOk, Cmd, UnitWires, HoldsHsk, UnitCount, UnitPlace,
              Command, Answers, Answerable, Length, Needs, Listens, ListensPut, ListensPull,
              ListensHold, ListensHigh, Handles, Ignores, Replies, Waits, GoesToSleep
<1> QED
  BY <1>1, <1>2, <1>3, <1>4 DEF Next

(* The free bus, with every unit asleep, is in lock step.                    *)
LEMMA InitInStep == Init => LockStep
BY ConstantsOk DEF Init, LockStep, HostOk, UnitOk, UnitWires, HoldsHsk, UnitCount, UnitPlace,
                   GoesToSleep, Command, Sending, Party

(* Every unit is where the host's place allows it to be, if the host never   *)
(* gives up and the handlers read the data of their commands.                *)
THEOREM LockStepInvariant ==
  ASSUME Patient
  PROVE  Spec => []LockStep
<1>1. TypeOk /\ LockStep /\ [Next]_vars => LockStep'
  BY StepKeeps DEF Patient, HostAbort
<1> QED
  BY <1>1, InitInStep, TypeInvariant, PTL DEF Spec

-----------------------------------------------------------------------------
(* A host that gives up.  Lock step still holds while a transaction runs.     *)

(* A transaction that ends or is abandoned leaves each unit on its way back.  *)
LEMMA EndsAlone ==
  ASSUME TypeOk, LockStep, hpc = "idle", NEW d \in Device
  PROVE  AloneOk(d)
BY DEF TypeOk, LockStep, HostOk, UnitOk, UnitWires, HoldsHsk, UnitPlace, GoesToSleep, Command,
       UnitCount, Needs, AloneOk, LeftAlone, OverOk, AloneCount, AloneWires, HearsNothing, Sending

LEMMA EndsAloneNext ==
  ASSUME TypeOk', LockStep', hpc' = "idle", NEW d \in Device
  PROVE  AloneOk(d)'
BY DEF TypeOk, LockStep, HostOk, UnitOk, UnitWires, HoldsHsk, UnitPlace, GoesToSleep, Command,
       UnitCount, Needs, AloneOk, LeftAlone, OverOk, AloneCount, AloneWires, HearsNothing, Sending

LEMMA AbortLeavesAlone ==
  ASSUME TypeOk, Attentive, LockStep, HostAbort, NEW d \in Device
  PROVE  AloneOk(d)'
<1>1. /\ hpc' = "idle" /\ UNCHANGED <<pc, n, msg>> /\ hpc \in {"high", "rLow", "rRise"}
      /\ hsk' = hsk \ {Host} /\ bav' = bav \ {Host} /\ d # Host
      /\ drv'[d] = drv[d] /\ pc[d] \notin {"loop", "pull", "latch", "grab"}
  BY ConstantsOk DEF HostAbort, Attentive, devVars, TypeOk, Party
<1>2. UnitOk(d) /\ HostOk /\ over[d] = Nobody /\ over'[d] = over[d]
  BY DEF LockStep, UnitOk, HostAbort, devVars
<1>3. ASSUME NEW e \in bav'
      PROVE  /\ e = msg.to /\ Answerable(msg)
             /\ hpc = "high" => hn = Length(msg) /\ (d # e => pc[d] \notin {"exec", "chk"})
  <2>1. e \in Device /\ e \in bav /\ UnitOk(e)
    BY <1>1 DEF LockStep, TypeOk, Party
  <2> QED
    BY <1>1, <1>2, <2>1
       DEF UnitOk, UnitWires, UnitPlace, Sending, Command, Listens, ListensPut, ListensPull,
           ListensHold, ListensHigh, Handles, Ignores, Answers, Waits
<1>4. AloneWires(d)'
  <2>1. d \in bav' => Answers(d)'
    BY <1>1, <1>3 DEF Answers, Answerable
  <2>2. drv[d] # 0 => d \in bav' /\ pc[d] \in Sending
    BY <1>1, <1>2 DEF UnitOk, UnitWires
  <2>3. pc[d] \in {"next", "exec"} => d \in hsk
    BY <1>2 DEF UnitOk, UnitWires, HoldsHsk
  <2> QED
    BY <1>1, <1>2, <2>1, <2>2, <2>3 DEF UnitOk, UnitWires, Sending, AloneWires
<1>5. LeftAlone(d)'
  <2>1. CASE hpc = "high" /\ Listens(d)
    <3>1. n[d] = hn /\ pc[d] \in {"next", "float", "rise", "lowBav", "lowHsk"}
      BY <1>1, <2>1 DEF Listens, ListensPut, ListensPull, ListensHold, ListensHigh
    <3>2. pc[d] = "lowHsk" => hsk = {}
      BY <1>1, <2>1 DEF Listens, ListensPut, ListensPull, ListensHold, ListensHigh
    <3>3. CASE bav' = {}
      BY <1>1, <3>1, <3>2, <3>3 DEF LeftAlone, HearsNothing
    <3>4. CASE bav' # {}
      <4>1. hn = Length(msg) /\ d \notin bav'
        BY <1>2, <1>3, <2>1, <3>1, <3>4, <1>1 DEF UnitOk, UnitWires, Sending
      <4>2. msg.to # d
        BY <1>3, <3>4, <4>1
      <4>3. n[d] >= Needs(d) /\ pc[d] = "next"
        BY <1>2, <3>1, <4>1, Lengths DEF UnitOk, UnitCount, Attentive
      <4> QED
        BY <1>1, <1>2, <4>2, <4>3, SameLengths DEF LeftAlone
    <3> QED
      BY <3>3, <3>4
  <2>2. CASE hpc = "high" /\ Handles(d)
    <3>1. CASE pc[d] \in {"exec", "chk"}
      <4>1. d \notin bav'
        BY <1>1, <1>2, <3>1 DEF UnitOk, UnitWires, Sending
      <4>2. bav' = {}
        BY <1>3, <2>2, <4>1 DEF Handles, Answers
      <4> QED
        BY <1>1, <2>2, <3>1, <4>2 DEF LeftAlone, Handles, Answers, Answerable
    <3>2. CASE pc[d] \in {"tFloat", "tRise", "tPut"}
      BY <1>1, <1>4, <2>2, <3>2 DEF LeftAlone, AloneWires, Handles, Answers, Answerable
    <3> QED
      BY <1>1, <2>2, <3>1, <3>2 DEF Handles
  <2>3. CASE Ignores(d) \/ Waits(d)
    BY <1>1, <2>3 DEF Ignores, Waits, LeftAlone
  <2>4. CASE Answers(d) /\ Replies(d)
    BY <1>1, <1>4, <2>4 DEF Replies, Finishing, LeftAlone, AloneWires, Answers, Answerable
  <2> QED
    BY <1>1, <1>2, <2>1, <2>2, <2>3, <2>4 DEF UnitOk, UnitPlace, Command
<1>6. OverOk(d)' /\ AloneCount(d)'
  <2>1. pc[d] # "lost"
    BY <1>2 DEF UnitOk, UnitPlace, Command, Listens, ListensPut, ListensPull, ListensHold,
                ListensHigh, Handles, Ignores, Replies, Waits, GoesToSleep, Finishing
  <2> QED
    BY <1>1, <1>2, <2>1, SameLengths DEF OverOk, AloneCount, UnitOk, UnitCount
<1> QED
  BY <1>4, <1>5, <1>6 DEF AloneOk

(* What a step of unit d leaves alone when there is no host.                 *)
AloneLeaves(d) ==
  /\ UNCHANGED hostVars
  /\ \A p \in Party \ {d} : /\ p \in hsk' <=> p \in hsk
                            /\ p \in bav' <=> p \in bav
                            /\ drv'[p] = drv[p]
  /\ \A e \in Device \ {d} : pc'[e] = pc[e] /\ n'[e] = n[e] /\ over'[e] = over[e]
  /\ bav' \subseteq bav
  /\ bav = {} /\ hsk = {} => hsk' = {}

(* What a unit left alone is at: the command of the transaction that was given *)
(* up, or one for it, of a handler that goes on.                            *)
LEMMA CmdAlone ==
  ASSUME TypeOk, Attentive, MayAbort, NEW d \in Device, AloneOk(d)
  PROVE  /\ Cmd(d) \in MessageType /\ Cmd(d).how # "bare"
         /\ Cmd(d).to = msg.to
         /\ Answerable(Cmd(d)) <=> Answerable(msg)
         /\ Cmd(d).lost # "returns" => Cmd(d) = msg /\ msg.how = "checked" /\ ~Hurry
         /\ Needs(d) \in Nat /\ n[d] \in Nat
         /\ msg.to # d => Needs(d) = 2 * PabLen
<1>1. Cmd(d) \in MessageType
  BY CmdType, TypeParts
<1>2. Needs(d) \in Nat /\ n[d] \in Nat
  BY <1>1, ConstantsOk DEF MessageType, Needs, TypeOk
<1>3. CASE over[d] = Nobody
  <2>1. Cmd(d) = msg /\ msg \in Messages
    BY <1>3, AtTheMessage DEF TypeOk
  <2> QED
    BY <1>1, <1>2, <2>1, ConstantsOk DEF Attentive, Needs
<1>4. CASE over[d] # Nobody
  <2>1. Cmd(d) = over[d] /\ GoesOn(d)
    BY <1>4 DEF Cmd, AloneOk, OverOk
  <2>2. Cmd(d).to = d /\ Cmd(d).how = "checked" /\ Cmd(d).lost = "returns" /\ Answers(d)
    BY <2>1 DEF GoesOn
  <2> QED
    BY <1>1, <1>2, <2>2 DEF Answers, Answerable
<1> QED
  BY <1>3, <1>4

(* Each step of a unit brings it nearer to sleep and reads nothing.          *)
LEMMA UnitAloneWires ==
  ASSUME TypeOk, Attentive, MayAbort, hpc = "idle", NEW d \in Device, AloneOk(d), DeviceStep(d)
  PROVE  LeftAlone(d)' /\ AloneWires(d)' /\ AloneLeaves(d)
<1> d \in Party
  BY DEF Party
<1> Cmd(d).how # "bare" /\ Cmd(d).to = msg.to /\ (Answerable(Cmd(d)) <=> Answerable(msg))
  BY CmdAlone
<1> Answers(d) <=> msg.to = d /\ Answerable(msg)
  BY DEF Answers
<1> LeftAlone(d) /\ AloneWires(d)
  BY DEF AloneOk
<1> USE DEF TypeOk, Go, hostVars, LeftAlone, AloneWires, HearsNothing, AloneLeaves, Answers,
        Answerable, Sending, BavHigh, HskHigh
<1>1. CASE Wake(d) \/ CaptureBav(d) \/ CaptureHsk(d) \/ CapturePull(d) \/ Hold(d) \/ Latch(d)
  BY <1>1 DEF Wake, CaptureBav, CaptureHsk, CapturePull, Hold, Latch
<1>2. CASE Loop(d)
  BY <1>2 DEF Loop
<1>3. CASE Release(d)
  BY <1>3 DEF Release, Float
<1>4. CASE Risen(d)
  BY <1>4 DEF Risen
<1>5. CASE WaitBav(d) \/ LostBus(d)
  BY <1>5 DEF WaitBav, LostBus
<1>6. CASE WaitHsk(d)
  BY <1>6 DEF WaitHsk
<1>7. CASE More(d)
  <2>1. ~(n[d] >= Needs(d))
    BY <1>7, CmdAlone DEF More
  <2> QED
    BY <1>7, <2>1 DEF More
<1>8. CASE Dispatch(d)
  BY <1>8, ConstantsOk DEF Dispatch
<1>9. CASE Execute(d)
  BY <1>9 DEF Execute
<1>10. CASE CheckBav(d)
  BY <1>10 DEF CheckBav
<1>11. CASE Grab(d)
  BY <1>11 DEF Grab
<1>12. CASE SendFloat(d)
  BY <1>12 DEF SendFloat, Float
<1>13. CASE SendRisen(d)
  BY <1>13 DEF SendRisen
<1>14. CASE SendPut(d)
  BY <1>14 DEF SendPut
<1>15. CASE SendPull(d)
  BY <1>15 DEF SendPull, Pull
<1>16. CASE FinishFloat(d)
  BY <1>16 DEF FinishFloat, Float
<1>17. CASE FinishRisen(d)
  BY <1>17 DEF FinishRisen
<1>18. CASE FinishData(d)
  BY <1>18 DEF FinishData
<1>19. CASE FinishBav(d)
  BY <1>19 DEF FinishBav
<1>20. CASE Return(d)
  BY <1>20 DEF Return
<1>21. CASE IgnoreFloat(d)
  BY <1>21 DEF IgnoreFloat, Float
<1>22. CASE IgnoreWait(d)
  BY <1>22 DEF IgnoreWait, Restart
<1>23. CASE NullFloat(d)
  BY <1>23 DEF NullFloat, Float
<1>24. CASE NullWait(d)
  BY <1>24 DEF NullWait
<1>25. CASE LostData(d)
  <2>1. /\ UNCHANGED <<hsk, bav, drv, hpc, hn, hlv, msg>> /\ bav = {} /\ pc[d] = "lowBav"
        /\ pc'[d] = "lost"
        /\ \A e \in Device \ {d} : pc'[e] = pc[e] /\ n'[e] = n[e] /\ over'[e] = over[e]
    BY <1>25 DEF LostData
  <2>2. n[d] < Needs(d) /\ n[d] >= 2 * PabLen /\ Cmd(d).lost # "returns"
    BY <1>25, <2>1 DEF LostData, AloneOk, AloneCount
  <2>3. Answers(d)
    BY <2>2, CmdAlone, ConstantsOk
  <2> QED
    BY <2>1, <2>3
<1>26. CASE GoOn(d)
  BY <1>26 DEF GoOn
<1> QED
  BY ONLY DeviceStep(d), <1>1, <1>2, <1>3, <1>4, <1>5, <1>6, <1>7, <1>8, <1>9, <1>10,
     <1>11, <1>12, <1>13, <1>14, <1>15, <1>16, <1>17, <1>18, <1>19, <1>20,
     <1>21, <1>22, <1>23, <1>24, <1>25, <1>26
     DEF DeviceStep, Receive, Reply, Ignore

(* A handler that has lost the bus counts on, and waits for no more than it   *)
(* reads.                                                                  *)
LEMMA UnitAloneOver ==
  ASSUME TypeOk, Attentive, MayAbort, hpc = "idle", NEW d \in Device, AloneOk(d), DeviceStep(d)
  PROVE  OverOk(d)' /\ AloneCount(d)'
<1>0. CASE ~LostData(d)
  <2>1. msg' = msg /\ pc'[d] # "lost"
        /\ (over'[d] = over[d] \/ (Return(d) /\ over'[d] = Nobody))
    <3> USE DEF TypeOk, Go, hostVars
    <3>1. CASE Receive(d)
      BY <1>0, <3>1 DEF Receive, Wake, CaptureBav, CaptureHsk, CapturePull, Loop, Release, Risen,
                  WaitBav, WaitHsk, Hold, Latch, LostBus, GoOn, More, Dispatch
    <3>2. CASE Reply(d)
      BY <3>2 DEF Reply, Execute, CheckBav, Grab, SendFloat, SendRisen, SendPut, SendPull,
                  FinishFloat, FinishRisen, FinishData, FinishBav
    <3>3. CASE Ignore(d)
      BY <3>3 DEF Ignore, Return, IgnoreFloat, IgnoreWait, NullFloat, NullWait
    <3> QED
      BY <3>1, <3>2, <3>3 DEF DeviceStep
  <2>2. ASSUME pc'[d] \in {"float", "rise", "lowBav", "lowHsk"}
        PROVE  /\ n'[d] = n[d] /\ over'[d] = over[d]
               /\ \/ pc[d] \in {"next", "lost"} /\ n[d] < Needs(d)
                  \/ pc[d] \in {"float", "rise", "lowBav", "lowHsk"}
    <3> USE DEF TypeOk, Go, hostVars
    <3>1. CASE Receive(d)
      BY <1>0, <2>2, <3>1
         DEF Receive, Wake, CaptureBav, CaptureHsk, CapturePull, Loop, Release, Risen,
             WaitBav, WaitHsk, Hold, Latch, LostBus, GoOn, More, Dispatch
    <3>2. CASE Reply(d)
      BY <2>2, <3>2 DEF Reply, Execute, CheckBav, Grab, SendFloat, SendRisen, SendPut,
                  SendPull, FinishFloat, FinishRisen, FinishData, FinishBav
    <3>3. CASE Ignore(d)
      BY <2>2, <3>3 DEF Ignore, Return, IgnoreFloat, IgnoreWait, NullFloat, NullWait
    <3> QED
      BY <3>1, <3>2, <3>3 DEF DeviceStep
  <2>3. AloneCount(d)'
    BY <2>1, <2>2, SameLengths DEF AloneOk, AloneCount
  <2>4. CASE over[d] = Nobody
    BY <2>1, <2>3, <2>4 DEF OverOk
  <2>5. CASE over[d] # Nobody
    <3>1. GoesOn(d) /\ Cmd(d) = over[d] /\ LeftAlone(d) /\ AloneWires(d)
      BY <2>5 DEF AloneOk, OverOk, Cmd
    <3>2. CASE Return(d)
      BY <2>1, <2>3, <3>2 DEF OverOk, Return, TypeOk
    <3>3. CASE ~Return(d)
      <4>1. over'[d] = over[d] /\ Answers(d)' /\ ~Hurry
        BY <2>1, <3>1, <3>3 DEF GoesOn, Answers, Answerable
      <4>2. pc'[d] \in {"chk", "fFloat", "fRise", "fData", "fBav", "rtn"}
            \/ (n'[d] = n[d] /\ n[d] >= 2 * PabLen /\ pc'[d] \in {"float", "rise", "lowBav"})
        <5> USE DEF TypeOk, Go, GoesOn, BavHigh, LeftAlone, HearsNothing, AloneWires, Sending
        <5>1. CASE Receive(d)
          <6>1. CASE LostBus(d)
            <7>1. pc[d] = "lowBav" /\ n[d] >= 2 * PabLen /\ n[d] \in Nat /\ PabLen \in Nat
              BY <3>1, <6>1, ConstantsOk DEF LostBus
            <7> QED
              BY <6>1, <7>1 DEF LostBus
          <6>2. CASE ~LostBus(d)
            BY <1>0, <3>1, <5>1, <6>2
               DEF Receive, Wake, CaptureBav, CaptureHsk, CapturePull, Loop, Release, Risen,
                   WaitBav, WaitHsk, Hold, Latch, GoOn, More, Dispatch
          <6> QED
            BY <6>1, <6>2
        <5>2. CASE Reply(d)
          BY <3>1, <5>2
             DEF Reply, Execute, CheckBav, Grab, SendFloat, SendRisen, SendPut, SendPull,
                 FinishFloat, FinishRisen, FinishData, FinishBav
        <5>3. CASE Ignore(d)
          BY <3>1, <3>3, <5>3 DEF Ignore, IgnoreFloat, IgnoreWait, NullFloat, NullWait
        <5> QED
          BY <5>1, <5>2, <5>3 DEF DeviceStep
      <4> QED
        BY <2>3, <3>1, <4>1, <4>2 DEF OverOk, GoesOn
    <3> QED
      BY <3>2, <3>3
  <2> QED
    BY <2>3, <2>4, <2>5
<1>1. CASE LostData(d)
  <2>1. Cmd(d) = msg /\ msg.how = "checked" /\ ~Hurry /\ Needs(d) \in Nat /\ n[d] \in Nat
    BY <1>1, CmdAlone DEF LostData
  <2>2. pc[d] = "lowBav" /\ n[d] < Needs(d) /\ n[d] >= 2 * PabLen
    BY <1>1 DEF LostData, Go, AloneOk, AloneCount
  <2>3. msg.to = d
    BY <2>1, <2>2, CmdAlone, ConstantsOk
  <2>4. Answers(d)'
    BY <1>1, <2>1, <2>3 DEF LostData, hostVars, Answers, Answerable
  <2>5. pc'[d] = "lost" /\ over'[d] = [msg EXCEPT !.lost = "returns"]
    BY <1>1, <2>1 DEF LostData, Go, TypeOk
  <2>6. over'[d].to = d /\ over'[d].how = "checked" /\ over'[d].lost = "returns"
        /\ over'[d] # Nobody
    BY <2>1, <2>3, <2>5, CmdAlone, ConstantsOk DEF MessageType
  <2>7. n'[d] >= 2 * PabLen
    <3>1. Skips(d) \subseteq Nat
      BY <2>2, LostCounts, TypeParts
    <3>2. PICK k \in Skips(d) : n' = [n EXCEPT ![d] = 2 * (PabLen + k)]
      BY <1>1 DEF LostData
    <3> QED
      BY <3>1, <3>2, ConstantsOk DEF TypeOk
  <2> QED
    BY <2>1, <2>4, <2>5, <2>6, <2>7 DEF OverOk, GoesOn, AloneCount
<1> QED
  BY <1>0, <1>1

(* It keeps the others, and the host, where they were.                       *)
LEMMA OthersAlone ==
  ASSUME hpc = "idle", HostOk, NEW d \in Device, AloneLeaves(d)
  PROVE  /\ HostOk' /\ hpc' = "idle"
         /\ \A e \in Device \ {d} : AloneOk(e) => AloneOk(e)'
<1>1. HostOk' /\ hpc' = "idle"
  <2> Host \in Party \ {d}
    BY ConstantsOk DEF Party
  <2> QED
    BY DEF AloneLeaves, hostVars, HostOk, Command
<1>2. ASSUME NEW e \in Device \ {d}, AloneOk(e)  PROVE AloneOk(e)'
  <2> e \in Party \ {d} /\ msg' = msg
    BY DEF Party, AloneLeaves, hostVars
  <2> QED
    <3>1. /\ pc'[e] = pc[e] /\ n'[e] = n[e] /\ over'[e] = over[e] /\ drv'[e] = drv[e]
          /\ e \in hsk' <=> e \in hsk
          /\ e \in bav' <=> e \in bav
          /\ Answers(e)' <=> Answers(e)
          /\ Needs(e)' = Needs(e)
          /\ bav = {} => bav' = {}
          /\ bav = {} /\ hsk = {} => hsk' = {}
      BY SameLengths DEF AloneLeaves, Answers, Answerable
    <3>2. LeftAlone(e)'
      BY <1>2, <3>1 DEF AloneOk, LeftAlone, HearsNothing
    <3>3. OverOk(e)' /\ AloneCount(e)' /\ AloneWires(e)'
      BY <1>2, <3>1 DEF AloneOk, OverOk, GoesOn, AloneCount, AloneWires
    <3> QED
      BY <3>2, <3>3 DEF AloneOk
<1> QED
  BY <1>1, <1>2

(* A transaction begins in lock step, whatever became of the one before it:   *)
(* on a free bus every unit is asleep.                                     *)
LEMMA StartsInStep ==
  ASSUME TypeOk, hpc = "idle", HostOk, \A d \in Device : AloneOk(d),
         NEW m \in Messages, HostStart(m)
  PROVE  LockStep
<1>1. hsk = {} /\ bav = {}
  BY DEF HostStart, BavHigh, HskHigh
<1>2. ASSUME NEW d \in Device  PROVE UnitOk(d)
  <2>1. pc[d] = "sleep" /\ drv[d] = 0 /\ over[d] = Nobody
    BY <1>1 DEF HostStart, AloneOk, AloneWires, OverOk, GoesOn, Sending
  <2> QED
    BY <1>1, <2>1 DEF UnitOk, UnitWires, HoldsHsk, UnitCount, UnitPlace, GoesToSleep, Sending,
                      Command
<1> QED
  BY <1>2 DEF LockStep

(* The bus is in lock step during a transaction and recovers between two.     *)
LEMMA BusStep ==
  ASSUME TypeOk, Attentive, MayAbort, BusOk, [Next]_vars
  PROVE  BusOk'
<1>1. CASE hpc # "idle" /\ LockStep
  <2>1. CASE HostAbort
    <3>1. HostOk' /\ hpc' = "idle"
      BY <2>1 DEF HostAbort, HostOk, Command, TypeOk, Party
    <3> QED
      BY <1>1, <2>1, <3>1, AbortLeavesAlone DEF BusOk
  <2>2. CASE ~HostAbort
    <3>1. LockStep' /\ TypeOk'
      BY <1>1, <2>2, StepKeeps, TypeStep DEF Attentive
    <3>2. hpc' = "idle" => \A d \in Device : AloneOk(d)'
      BY <3>1, EndsAloneNext
    <3> QED
      BY <3>1, <3>2 DEF BusOk, LockStep
  <2> QED
    BY <2>1, <2>2
<1>2. CASE hpc = "idle" /\ HostOk /\ \A d \in Device : AloneOk(d)
  <2>1. CASE \E d \in Device : DeviceStep(d)
    <3>1. PICK d \in Device : DeviceStep(d)
      BY <2>1
    <3>2. AloneLeaves(d) /\ AloneOk(d)'
      BY <1>2, <3>1, UnitAloneWires, UnitAloneOver DEF AloneOk
    <3> QED
      BY <1>2, <3>2, OthersAlone DEF BusOk
  <2>2. CASE \E m \in Messages : HostStart(m)
    BY <1>2, <2>2, StartsInStep, StartKeeps DEF BusOk, HostStart, HostGo, Attentive
  <2>3. CASE UNCHANGED vars
    BY <1>2, <2>3 DEF vars, BusOk, HostOk, AloneOk, LeftAlone, OverOk, GoesOn, AloneCount,
                      AloneWires, Cmd, HearsNothing, Answers,
                      Answerable, Needs, Command, Length
  <2> QED
    BY <1>2, <2>1, <2>2, <2>3
       DEF Next, HostAbort, HostStep, HostSend, HostListen, HostPut, HostPull, HostFloat,
           HostNext, HostTurn, HostSeesLow, HostHold, HostLatch, HostRelease, HostRisen,
           HostEnd, HostGo, HostOk, Answerable
<1> QED
  BY <1>1, <1>2 DEF BusOk

(* The bus stays in lock step during every transaction, and between two, one  *)
(* of them abandoned or not, each unit is on its way back to sleep.          *)
THEOREM BusOkInvariant ==
  ASSUME Attentive
  PROVE  Spec => []BusOk
<1>1. CASE MayAbort
  <2>1. Init => BusOk
    BY ConstantsOk DEF Init, BusOk, HostOk, AloneOk, LeftAlone, OverOk, AloneCount, AloneWires,
                       HearsNothing, Command, Party, Sending
  <2>2. TypeOk /\ BusOk /\ [Next]_vars => BusOk'
    BY <1>1, BusStep
  <2> QED
    BY <2>1, <2>2, TypeInvariant, PTL DEF Spec
<1>2. CASE ~MayAbort
  <2>1. Patient
    BY <1>2 DEF Attentive, Patient
  <2>2. TypeOk /\ LockStep => BusOk
    BY EndsAlone DEF BusOk, LockStep
  <2> QED
    BY <2>1, <2>2, TypeInvariant, LockStepInvariant, PTL
<1> QED
  BY <1>1, <1>2

-----------------------------------------------------------------------------
(* Who can be talking.                                                      *)
LEMMA Talkers ==
  ASSUME TypeOk, BusOk
  PROVE  /\ \A p \in Party : drv[p] # 0 =>
               (p = Host /\ Command) \/ (p \in Device /\ p = msg.to /\ ~Command)
         /\ \A d \in Device : d \in bav \/ drv[d] # 0 => msg.to = d
<1>1. ASSUME NEW d \in Device
      PROVE  /\ d \in bav \/ drv[d] # 0 => msg.to = d
             /\ drv[d] # 0 => ~Command
  <2>1. CASE LockStep
    BY <2>1 DEF LockStep, UnitOk, UnitWires, UnitPlace, Sending, Listens, ListensPut,
                ListensPull, ListensHold, ListensHigh, Handles, Ignores, Replies, Waits,
                Finishing, GoesToSleep, Answers, Command
  <2>2. CASE hpc = "idle" /\ AloneOk(d)
    BY <2>2 DEF AloneOk, AloneWires, Answers, Command
  <2> QED
    BY <2>1, <2>2 DEF BusOk
<1>2. drv[Host] # 0 => Command
  BY DEF BusOk, LockStep, HostOk
<1> QED
  BY <1>1, <1>2 DEF Party

(* A unit that is about to read, or to take BAV, is in a transaction.         *)
LEMMA NotAlone ==
  ASSUME BusOk, NEW d \in Device, pc[d] \in {"pull", "latch", "grab"}
  PROVE  LockStep /\ hpc # "idle"
BY DEF BusOk, AloneOk, LeftAlone, AloneWires, HearsNothing, Sending

(* A unit that reads the lines finds the host's nibble, which is the next.   *)
LEMMA WhatUnitsRead ==
  ASSUME TypeOk, BusOk, NEW d \in Device, pc[d] = "latch"
  PROVE  Lines = {<<Host, n[d] + 1>>}
<1>1. Command /\ hn = n[d] + 1
  BY NotAlone
     DEF LockStep, UnitOk, UnitPlace, Listens, ListensPut, ListensPull, ListensHold,
         ListensHigh, Handles, Ignores, Replies, Waits, Finishing, GoesToSleep, Command
<1>2. drv[Host] = n[d] + 1 /\ n[d] \in Nat
  BY <1>1, NotAlone DEF LockStep, HostOk, TypeOk
<1>3. \A p \in Party : drv[p] # 0 <=> p = Host
  BY <1>1, <1>2, Talkers DEF Party
<1> QED
  BY <1>2, <1>3 DEF Lines, Party

(* The host finds the nibble of the unit it spoke to.                       *)
LEMMA WhatTheHostReads ==
  ASSUME TypeOk, BusOk, hpc = "rLatch"
  PROVE  Lines = {<<msg.to, hn + 1>>}
<1>1. ~Command /\ Answerable(msg) /\ msg.to \in Device /\ LockStep
  BY DEF Command, BusOk, LockStep, HostOk, Answerable
<1>2. Replies(msg.to) /\ UnitWires(msg.to)
  BY <1>1 DEF LockStep, UnitOk, UnitPlace, Waits, Answers
<1>3. drv[msg.to] = hn + 1 /\ hn \in Nat
  BY <1>2 DEF Replies, UnitWires, Sending, Finishing, TypeOk
<1>4. \A p \in Party : drv[p] # 0 <=> p = msg.to
  BY <1>1, <1>3, Talkers DEF Party
<1> QED
  BY <1>1, <1>3, <1>4 DEF Lines, Party

(* A unit's step is its own.                                                *)
LEMMA StepIsOwn ==
  ASSUME TypeOk, NEW d \in Device, DeviceStep(d)
  PROVE  /\ UNCHANGED hostVars
         /\ \A e \in Device \ {d} : pc'[e] = pc[e] /\ n'[e] = n[e]
<1> USE DEF Go, TypeOk, Restart
<1>1. CASE Receive(d)
  BY <1>1 DEF Receive, Wake, CaptureBav, CaptureHsk, CapturePull, Loop, Release, Risen,
              WaitBav, WaitHsk, Hold, Latch, LostBus, LostData, GoOn, More, Dispatch
<1>2. CASE Reply(d)
  BY <1>2 DEF Reply, Execute, CheckBav, Grab, SendFloat, SendRisen, SendPut, SendPull,
              FinishFloat, FinishRisen, FinishData, FinishBav
<1>3. CASE Ignore(d)
  BY <1>3 DEF Ignore, Return, IgnoreFloat, IgnoreWait, NullFloat, NullWait
<1> QED
  BY <1>1, <1>2, <1>3 DEF DeviceStep

(* Nobody talks out of turn, and what is said arrives.                       *)
THEOREM OneTalkerHolds ==
  ASSUME Attentive
  PROVE  Spec => []OneTalker
<1>1. TypeOk /\ BusOk => OneTalker
  BY Talkers DEF OneTalker, Party
<1> QED
  BY <1>1, TypeInvariant, BusOkInvariant, PTL

(* Only the unit that was spoken to answers.                                *)
THEOREM OnlyAddresseeHolds ==
  ASSUME Attentive
  PROVE  Spec => []OnlyAddressee
<1>1. TypeOk /\ BusOk => OnlyAddressee
  BY Talkers DEF OnlyAddressee
<1> QED
  BY <1>1, TypeInvariant, BusOkInvariant, PTL

(* A unit takes BAV to reply only in the transaction its command came in: a    *)
(* handler whose transaction was given up, and whatever it still does with its *)
(* files, never answers in the next one.                                    *)
THEOREM ReplyInTimeHolds ==
  ASSUME Attentive
  PROVE  Spec => ReplyInTime
<1> DEFINE Invited == \A d \in Device : d \in bav' \ bav => Host \in bav /\ over[d] = Nobody
<1>1. TypeOk /\ BusOk /\ [Next]_vars => [Invited]_vars
  <2> SUFFICES ASSUME TypeOk, BusOk, Next, NEW d \in Device, d \in bav', d \notin bav
               PROVE  Host \in bav /\ over[d] = Nobody
    OBVIOUS
  <2>1. d # Host
    BY ConstantsOk
  <2>2. PICK e \in Device : Grab(e)
    BY <2>1
       DEF Next, HostStart, HostAbort, HostStep, HostSend, HostListen, HostPut, HostPull,
           HostFloat, HostNext, HostTurn, HostSeesLow, HostHold, HostLatch, HostRelease,
           HostRisen, HostEnd, DeviceStep, Receive, Reply, Ignore, Wake, CaptureBav,
           CaptureHsk, CapturePull, Loop, Release, Risen, WaitBav, WaitHsk, Hold, Latch,
           LostBus, LostData, GoOn, More, Dispatch, Execute, CheckBav, SendFloat, SendRisen,
           SendPut, SendPull, FinishFloat, FinishRisen, FinishData, FinishBav, Return, IgnoreFloat,
           IgnoreWait, NullFloat, NullWait
  <2>3. LockStep /\ hpc # "idle"
    BY <2>2, NotAlone DEF Grab, Go
  <2> QED
    BY <2>3 DEF LockStep, HostOk, UnitOk
<1> QED
  BY <1>1, TypeInvariant, BusOkInvariant, PTL DEF Spec, ReplyInTime

(* Every unit that listens gets each half byte of the command, in order.     *)
THEOREM NibblesInOrderHolds ==
  ASSUME Attentive
  PROVE  Spec => []NibblesInOrder
<1>1. Init => NibblesInOrder
  BY DEF Init, NibblesInOrder
<1>2. TypeOk /\ BusOk /\ NibblesInOrder /\ [Next]_vars => NibblesInOrder'
  <2> SUFFICES ASSUME TypeOk, BusOk, NibblesInOrder, [Next]_vars,
                      NEW e \in Device, pc'[e] = "next"
               PROVE  lv'[e] = {<<Host, n'[e]>>}
    BY DEF NibblesInOrder
  <2>1. CASE \E d \in Device : DeviceStep(d)
    <3>1. PICK d \in Device : DeviceStep(d)
      BY <2>1
    <3>2. CASE Latch(d)
      <4>1. CASE e = d
        BY <3>2, <4>1, WhatUnitsRead DEF Latch, Go, TypeOk
      <4>2. CASE e # d
        BY <3>2, <4>2 DEF Latch, Go, TypeOk, NibblesInOrder
      <4> QED
        BY <4>1, <4>2
    <3>3. CASE ~Latch(d)
      <4>1. e # d /\ lv' = lv
        BY <3>1, <3>3
           DEF DeviceStep, Receive, Reply, Ignore, Wake, CaptureBav, CaptureHsk, CapturePull,
               Loop, Release, Risen, WaitBav, WaitHsk, Hold, LostBus, LostData, GoOn, More,
               Dispatch, Execute, CheckBav, Grab, SendFloat, SendRisen, SendPut, SendPull, FinishFloat,
               FinishRisen, FinishData, FinishBav, Return, IgnoreFloat, IgnoreWait, NullFloat,
               NullWait, Go, TypeOk
      <4>2. pc'[e] = pc[e] /\ n'[e] = n[e]
        BY <3>1, <4>1, StepIsOwn
      <4> QED
        BY <4>1, <4>2 DEF NibblesInOrder
    <3> QED
      BY <3>2, <3>3
  <2>2. CASE (\E m \in Messages : HostStart(m)) \/ HostStep \/ HostAbort
    <3>1. UNCHANGED <<pc, n, lv>>
      BY <2>2 DEF devVars, HostStart, HostAbort, HostStep, HostSend, HostListen, HostPut, HostPull,
                  HostFloat, HostNext, HostTurn, HostSeesLow, HostHold, HostLatch,
                  HostRelease, HostRisen, HostEnd
    <3> QED
      BY <3>1 DEF NibblesInOrder
  <2>3. CASE UNCHANGED vars
    BY <2>3 DEF vars, NibblesInOrder
  <2> QED
    BY <2>1, <2>2, <2>3 DEF Next
<1> QED
  BY <1>1, <1>2, TypeInvariant, BusOkInvariant, PTL DEF Spec

(* The host gets each half byte of the reply, in order.                      *)
THEOREM ReplyInOrderHolds ==
  ASSUME Attentive
  PROVE  Spec => []ReplyInOrder
<1>1. Init => ReplyInOrder
  BY DEF Init, ReplyInOrder
<1>2. TypeOk /\ BusOk /\ ReplyInOrder /\ [Next]_vars => ReplyInOrder'
  <2> SUFFICES ASSUME TypeOk, BusOk, ReplyInOrder, [Next]_vars, hpc' = "rFloat"
               PROVE  hlv' = {<<msg'.to, hn'>>}
    BY DEF ReplyInOrder
  <2>1. CASE \E d \in Device : DeviceStep(d)
    BY <2>1, StepIsOwn DEF hostVars, ReplyInOrder
  <2>2. CASE HostLatch
    BY <2>2, WhatTheHostReads DEF HostLatch, HostGo
  <2>3. CASE (\E m \in Messages : HostStart(m)) \/ (HostStep /\ ~HostLatch) \/ HostAbort
    BY <2>3 DEF HostStart, HostAbort, HostStep, HostSend, HostListen, HostPut, HostPull,
                HostFloat, HostNext, HostTurn, HostSeesLow, HostHold, HostRelease, HostRisen,
                HostEnd, HostGo
  <2>4. CASE UNCHANGED vars
    BY <2>4 DEF vars, ReplyInOrder
  <2> QED
    BY <2>1, <2>2, <2>3, <2>4 DEF Next
<1> QED
  BY <1>1, <1>2, TypeInvariant, BusOkInvariant, PTL DEF Spec

(* One party talks at a time, the host or the unit it has named: no unit turns  *)
(* the bus around early, and the units that ignore a message stay silent.     *)
THEOREM OnlyTheNamedTalksHolds ==
  ASSUME Attentive
  PROVE  Spec => []OnlyTheNamedTalks
BY OneTalkerHolds, OnlyAddresseeHolds, PTL DEF OnlyTheNamedTalks

(* In both directions what is sent is what is read, each half byte once.        *)
THEOREM AllInOrderHolds ==
  ASSUME Attentive
  PROVE  Spec => []AllInOrder
BY NibblesInOrderHolds, ReplyInOrderHolds, PTL DEF AllInOrder

(* The data lines stand still while anybody is about to read them.           *)
LEMMA NobodyReads ==
  ASSUME BusOk, NEW d \in Device, pc[d] \in {"tPut", "fData"}, pc[d] = "tPut" => SeenHigh(d)
  PROVE  /\ \A e \in Device : pc[e] \notin {"pull", "latch"}
         /\ hpc \notin {"rPull", "rLatch"}
<1>1. CASE hpc = "idle"
  BY <1>1, NotAlone
<1>2. CASE LockStep
  <2>1. ~Command /\ hpc \notin {"rPull", "rLatch"}
    BY <1>2, ConstantsOk
       DEF LockStep, UnitOk, UnitPlace, Command, Listens, ListensPut, ListensPull,
           ListensHold, ListensHigh, Handles, Ignores, Replies, Waits, Finishing,
           GoesToSleep, SeenHigh
  <2> QED
    BY <1>2, <2>1 DEF LockStep, UnitOk, UnitPlace, Replies, Waits, Finishing, GoesToSleep
<1> QED
  BY <1>1, <1>2 DEF BusOk

(* They do not change between a fall of HSK and the read that follows it.     *)
THEOREM StableLinesHolds ==
  ASSUME Attentive
  PROVE  Spec => StableLines
<1> DEFINE Still == /\ \A d \in Device : pc[d] \notin {"pull", "latch"}
                    /\ hpc \notin {"rPull", "rLatch"}
<1>1. TypeOk /\ BusOk /\ [Next]_vars => [drv' # drv => Still]_vars
  <2> SUFFICES ASSUME TypeOk, BusOk, Next, drv' # drv  PROVE Still
    OBVIOUS
  <2> USE DEF Command
  <2>1. CASE \E d \in Device : DeviceStep(d)
    <3>1. PICK d \in Device : SendPut(d) \/ FinishData(d)
      BY <2>1
         DEF DeviceStep, Receive, Reply, Ignore, Wake, CaptureBav, CaptureHsk, CapturePull,
             Loop, Release, Risen, WaitBav, WaitHsk, Hold, Latch, LostBus, LostData, GoOn,
             More, Dispatch, Execute, CheckBav, Grab, SendFloat, SendRisen, SendPull, FinishFloat,
             FinishRisen, FinishBav, Return, IgnoreFloat, IgnoreWait, NullFloat, NullWait
    <3> QED
      BY <3>1, NobodyReads DEF SendPut, FinishData, Go
  <2>2. CASE HostPut \/ HostTurn
    BY <2>2 DEF HostPut, HostTurn, HostGo, HskHigh, BusOk, LockStep, UnitOk, UnitWires, HoldsHsk,
                UnitPlace, Listens, ListensPut, ListensPull, ListensHold, ListensHigh,
                Handles, Ignores, HostOk
  <2>3. CASE HostAbort
    BY <2>3 DEF HostAbort, Attentive
  <2> QED
    BY <2>1, <2>2, <2>3
       DEF Next, HostStart, HostStep, HostSend, HostListen, HostPull, HostFloat, HostNext,
           HostSeesLow, HostHold, HostLatch, HostRelease, HostRisen, HostEnd
<1> QED
  BY <1>1, TypeInvariant, BusOkInvariant, PTL DEF Spec, StableLines

-----------------------------------------------------------------------------
(* HexBus implements HexExchange: the abstract variables, phase by phase.     *)
LEMMA Phases ==
  /\ Phase = "free" <=> hpc = "idle"
  /\ Phase = "command" <=> Command
  /\ Phase = "reply" <=> ~Command /\ hpc # "idle"
BY DEF Phase, Command

(* What a unit does while the command is said: hear a nibble, leave, or       *)
(* nothing that can be heard.                                              *)
Ear(d) == pc[d] \in Listening
Hears(d) == IF Ear(d) /\ pc[d] # "sleep" THEN n[d] ELSE 0

(* What the abstract variables are in each phase.                            *)
SeenInCommand ==
  /\ Phase = "command" /\ Left = Length(msg) - hn /\ Said = hn /\ Got = 0
  /\ Ears = {d \in Device : Ear(d)} /\ Heard = [d \in Device |-> Hears(d)]
SeenInReply ==
  /\ Phase = "reply" /\ Got = hn /\ Left = 0 /\ Ears = {} /\ Heard = [d \in Device |-> 0]
  /\ Said = IF msg.to \in Device /\ pc[msg.to] \in Sending THEN n[msg.to] ELSE hn
SeenIdle ==
  /\ Phase = "free" /\ Got = 0 /\ Left = 0 /\ Ears = {} /\ Heard = [d \in Device |-> 0]
  /\ Said = 0

SeenOk ==
  /\ Command => SeenInCommand
  /\ ~Command /\ hpc # "idle" => SeenInReply
  /\ hpc = "idle" => SeenIdle

LEMMA Seen == SeenOk
<1>1. Command => SeenInCommand
  BY Phases DEF SeenInCommand, Left, Said, Got, Ears, Heard, Ear, Hears
<1>2. ~Command /\ hpc # "idle" => SeenInReply
  BY Phases DEF SeenInReply, Left, Said, Got, Ears, Heard
<1>3. hpc = "idle" => SeenIdle
  BY Phases DEF SeenIdle, Left, Said, Got, Ears, Heard, Command
<1> QED
  BY <1>1, <1>2, <1>3 DEF SeenOk

(* The same, after a step.                                                  *)
LEMMA SeenNext == SeenOk'
BY Seen, PTL

(* No handler goes on after a lost bus in lock step.                         *)
LEMMA NotLost ==
  ASSUME LockStep, NEW d \in Device
  PROVE  pc[d] # "lost"
BY DEF LockStep, UnitOk, UnitPlace, Command, Listens, ListensPut, ListensPull, ListensHold,
       ListensHigh, Handles, Ignores, Replies, Waits, GoesToSleep, Finishing

(* A unit's step in the command phase, seen from outside.                    *)
LEMMA UnitSounds ==
  ASSUME TypeOk, LockStep, Command, NEW d \in Device, DeviceStep(d)
  PROVE  \/ Ear(d)' = Ear(d) /\ Hears(d)' = Hears(d)
         \/ Ear(d)' /\ Ear(d) /\ Hears(d) + 1 = hn /\ Hears(d)' = hn
         \/ ~Ear(d)' /\ Hears(d)' = 0
<1> UnitOk(d) /\ ~BavHigh /\ n[d] \in Nat /\ pc[d] \in DeviceStates
  BY DEF LockStep, HostOk, BavHigh, TypeOk, Command
<1> USE DEF Ear, Hears, Go, TypeOk, Listening
<1>1. CASE Wake(d)
  BY <1>1 DEF Wake, Restart
<1>2. CASE CaptureBav(d) \/ CaptureHsk(d) \/ CapturePull(d) \/ Loop(d)
  BY <1>2 DEF CaptureBav, CaptureHsk, CapturePull, Loop
<1>3. CASE Release(d) \/ Risen(d) \/ WaitBav(d) \/ WaitHsk(d) \/ Hold(d)
  BY <1>3 DEF Release, Risen, WaitBav, WaitHsk, Hold
<1>4. CASE Latch(d)
  BY <1>4 DEF Latch, UnitOk, UnitPlace, Command, Listens, ListensPut, ListensPull, ListensHold,
              ListensHigh, Handles, Ignores
<1>5. CASE LostBus(d) \/ LostData(d) \/ GoOn(d)
  BY <1>5, NotLost DEF LostBus, LostData, GoOn
<1>10. CASE More(d) \/ Dispatch(d) \/ Execute(d) \/ CheckBav(d)
  BY <1>10 DEF More, Dispatch, Execute, CheckBav
<1>6. CASE Grab(d)
  BY <1>6 DEF Grab, Restart
<1>7. CASE SendFloat(d) \/ SendRisen(d) \/ SendPut(d) \/ SendPull(d)
  BY <1>7 DEF SendFloat, SendRisen, SendPut, SendPull
<1>8. CASE FinishFloat(d) \/ FinishRisen(d) \/ FinishData(d) \/ FinishBav(d)
  BY <1>8 DEF FinishFloat, FinishRisen, FinishData, FinishBav
<1>9. CASE Return(d) \/ IgnoreFloat(d) \/ IgnoreWait(d) \/ NullFloat(d) \/ NullWait(d)
  BY <1>9 DEF Return, IgnoreFloat, IgnoreWait, NullFloat, NullWait
<1> QED
  BY ONLY DeviceStep(d), <1>1, <1>2, <1>3, <1>4, <1>5, <1>6, <1>7, <1>8, <1>9, <1>10
     DEF DeviceStep, Receive, Reply, Ignore

(* A step of a unit is a step of the exchange, or nothing, in each phase.    *)
LEMMA CommandStep ==
  ASSUME TypeOk, ReadsAll, LockStep, Command, NEW d \in Device, DeviceStep(d)
  PROVE  [Exchange!Next]_(Exchange!vars)
<1>1. UNCHANGED <<hpc, hn, msg>> /\ \A e \in Device \ {d} : pc'[e] = pc[e] /\ n'[e] = n[e]
  BY UnitKeeps DEF Leaves, hostVars
<1>2. Command' /\ Length(msg)' = Length(msg)
  BY <1>1 DEF Command, Length
<1>3. UNCHANGED <<Phase, msg.to, Left, Said, Got>> /\ Said = hn /\ Phase = "command"
  BY <1>1, <1>2, Seen, SeenNext DEF SeenOk, SeenInCommand
<1>4. /\ Ears = {e \in Device : Ear(e)} /\ Heard = [e \in Device |-> Hears(e)]
      /\ Ears' = {e \in Device : Ear(e)'} /\ Heard' = [e \in Device |-> Hears(e)']
  BY <1>2, Seen, SeenNext DEF SeenOk, SeenInCommand
<1>5. \A e \in Device \ {d} : Ear(e)' = Ear(e) /\ Hears(e)' = Hears(e)
  BY <1>1 DEF Ear, Hears
<1>6. CASE Ear(d)' = Ear(d) /\ Hears(d)' = Hears(d)
  <2>1. Ears' = Ears
    BY <1>4, <1>5, <1>6
  <2>2. Heard' = Heard
    BY <1>4, <1>5, <1>6
  <2> QED
    BY <1>3, <2>1, <2>2 DEF Exchange!vars
<1>7. CASE Ear(d)' /\ Ear(d) /\ Hears(d) + 1 = hn /\ Hears(d)' = hn
  <2>1. Ears' = Ears /\ d \in Ears
    BY <1>4, <1>5, <1>7
  <2>2. Heard' = [Heard EXCEPT ![d] = Said]
    BY <1>3, <1>4, <1>5, <1>7
  <2>3. Heard[d] + 1 = Said
    BY <1>3, <1>4, <1>7
  <2> QED
    BY <1>3, <2>1, <2>2, <2>3 DEF Exchange!Next, Exchange!Hear
<1>8. CASE ~Ear(d)' /\ Hears(d)' = 0
  <2>1. Ears' = Ears \ {d}
    BY <1>4, <1>5, <1>8
  <2>2. Heard' = [Heard EXCEPT ![d] = 0]
    BY <1>4, <1>5, <1>8
  <2> QED
    BY <1>3, <2>1, <2>2 DEF Exchange!Next, Exchange!Leave
<1> QED
  BY <1>6, <1>7, <1>8, UnitSounds

(* Between transactions nothing is heard outside.                           *)
LEMMA IdleStep ==
  ASSUME TypeOk, ReadsAll, LockStep, hpc = "idle", NEW d \in Device, DeviceStep(d)
  PROVE  UNCHANGED Exchange!vars
<1>1. UNCHANGED <<hpc, msg>>
  BY UnitKeeps DEF Leaves, hostVars
<1> QED
  BY <1>1, Seen, SeenNext DEF SeenOk, SeenIdle, Exchange!vars

(* In the reply phase only SendPut is heard outside.                         *)
LEMMA ReplyStep ==
  ASSUME TypeOk, ReadsAll, LockStep, ~Command, hpc # "idle", NEW d \in Device, DeviceStep(d)
  PROVE  [Exchange!Next]_(Exchange!vars)
<1>1. UNCHANGED <<hpc, hn, msg>> /\ \A e \in Device \ {d} : pc'[e] = pc[e] /\ n'[e] = n[e]
  BY UnitKeeps DEF Leaves, hostVars
<1>2. ~Command' /\ hpc' # "idle"
  BY <1>1 DEF Command
<1>3. UNCHANGED <<Phase, msg.to, Left, Ears, Heard, Got>> /\ Got = hn /\ Phase = "reply"
  BY <1>1, <1>2, Seen, SeenNext DEF SeenOk, SeenInReply
<1>4. /\ Said  = IF msg.to \in Device /\ pc[msg.to] \in Sending THEN n[msg.to] ELSE hn
      /\ Said' = IF msg.to \in Device /\ pc'[msg.to] \in Sending THEN n'[msg.to] ELSE hn
  BY <1>1, <1>2, Seen, SeenNext DEF SeenOk, SeenInReply
<1>5. UnitOk(d) /\ HostOk /\ UnitOk(d)' /\ n[d] \in Nat /\ pc[d] \in DeviceStates /\ ~BavHigh
      /\ hn \in Nat /\ ReplyLen \in Nat
  BY UnitKeeps, ConstantsOk DEF LockStep, TypeOk, HostOk, BavHigh
<1>6. CASE SendPut(d)
  <2>1. Answers(d) /\ hpc = "rLow" /\ n[d] = hn /\ n[d] < 2 * ReplyLen
    BY <1>5, <1>6, ConstantsOk
       DEF SendPut, Go, SeenHigh, UnitOk, UnitCount, UnitPlace, Replies, Waits, Finishing
  <2>2. pc[d] \in Sending /\ pc'[d] \in Sending /\ n'[d] = n[d] + 1
    BY <1>6 DEF SendPut, Go, Sending, TypeOk
  <2>3. Said = hn /\ Said' = hn + 1 /\ msg.to \in Device
    BY <1>4, <2>1, <2>2 DEF Answers
  <2> QED
    BY <1>3, <2>1, <2>3 DEF Exchange!Next, Exchange!SayReply
<1>7. CASE ~SendPut(d)
  <2>1. CASE Waits(d)
    <3>1. pc[d] \notin Sending /\ pc'[d] \notin Sending
      <4> USE <1>5, <2>1 DEF Go, TypeOk, Waits, Sending
      <4>1. CASE Receive(d)
        BY <4>1 DEF Receive, Wake, CaptureBav, CaptureHsk, CapturePull, Loop, Release, Risen,
                    WaitBav, WaitHsk, Hold, Latch, LostBus, LostData, GoOn, More, Dispatch
      <4>2. CASE Reply(d)
        BY <4>2 DEF Reply, Execute, CheckBav, Grab, SendFloat, SendRisen, SendPut, SendPull,
                    FinishFloat, FinishRisen, FinishData, FinishBav
      <4>3. CASE Ignore(d)
        BY <4>3 DEF Ignore, Return, IgnoreFloat, IgnoreWait, NullFloat, NullWait
      <4> QED
        BY <4>1, <4>2, <4>3 DEF DeviceStep
    <3> QED
      BY <1>1, <1>3, <1>4, <3>1 DEF Exchange!vars
  <2>2. CASE Answers(d) /\ Replies(d)
    <3>1. (IF pc'[d] \in Sending THEN n'[d] ELSE hn) = (IF pc[d] \in Sending THEN n[d] ELSE hn)
      <4> USE <1>1, <1>5, <1>7, <2>2
          DEF Replies, Finishing, Sending, Go, TypeOk, UnitOk, UnitCount, HostOk
      <4>1. CASE SendFloat(d) \/ SendRisen(d) \/ SendPull(d) \/ FinishRisen(d)
        BY <4>1 DEF SendFloat, SendRisen, SendPull, FinishRisen
      <4>2. CASE FinishData(d)
        BY <4>2 DEF FinishData
      <4>3. CASE FinishBav(d) \/ Return(d) \/ IgnoreFloat(d)
        BY <4>3 DEF FinishBav, Return, IgnoreFloat
      <4>4. CASE IgnoreWait(d)
        BY <4>4 DEF IgnoreWait
      <4> QED
        BY <4>1, <4>2, <4>3, <4>4
           DEF DeviceStep, Receive, Reply, Ignore, Wake, CaptureBav, CaptureHsk, CapturePull,
               Loop, Release, Risen, WaitBav, WaitHsk, Hold, Latch, LostBus, LostData, GoOn,
               More, Dispatch, Execute, CheckBav, Grab, SendPut, FinishFloat, NullFloat, NullWait
    <3> QED
      BY <1>1, <1>3, <1>4, <2>2, <3>1 DEF Exchange!vars, Answers
  <2> QED
    BY <1>5, <2>1, <2>2 DEF UnitOk, UnitPlace
<1> QED
  BY <1>6, <1>7

(* The host's steps, seen from outside.                                     *)
LEMMA StartBegins ==
  ASSUME TypeOk, ReadsAll, LockStep, NEW m \in Messages, HostStart(m)
  PROVE  Exchange!Begin
<1>1. hpc = "idle" /\ hpc' = "put" /\ hn' = 0 /\ msg' = m /\ UNCHANGED <<pc, n>>
  BY DEF HostStart, HostGo, devVars
<1>2. \A d \in Device : pc[d] = "sleep"
  BY DEF HostStart, HostGo, LockStep, UnitOk, UnitPlace, GoesToSleep, Command
<1>3. Command' /\ Phase = "free"
  BY <1>1, Phases DEF Command
<1>4. Phase' = "command" /\ Said' = 0 /\ Got' = 0 /\ Left' \in Nat
  <2>1. Length(msg') \in Nat
    BY <1>1, LengthType
  <2>2. Left' = Length(msg') - hn' /\ Phase' = "command" /\ Said' = hn' /\ Got' = 0
    BY <1>3, SeenNext DEF SeenOk, SeenInCommand
  <2> QED
    BY <1>1, <2>1, <2>2
<1>5. Ears' = Device /\ Heard' = [d \in Device |-> 0]
  <2>1. \A d \in Device : Ear(d)' /\ Hears(d)' = 0
    BY <1>1, <1>2 DEF Ear, Hears, Listening
  <2>2. Ears' = {d \in Device : Ear(d)'} /\ Heard' = [d \in Device |-> Hears(d)']
    BY <1>3, SeenNext DEF SeenOk, SeenInCommand
  <2> QED
    BY <2>1, <2>2
<1> QED
  BY <1>3, <1>4, <1>5 DEF Exchange!Begin

(* The host says the next nibble when all who listen have the last one.      *)
LEMMA PutSays ==
  ASSUME TypeOk, ReadsAll, LockStep, HostPut
  PROVE  Exchange!Say
<1>1. /\ hpc = "put" /\ hpc' = "pull" /\ hn' = hn + 1 /\ hn \in Nat
      /\ UNCHANGED <<msg, pc, n>> /\ hn < Length(msg)
  BY DEF HostPut, HostGo, devVars, TypeOk, LockStep, HostOk
<1>2. Length(msg) \in Nat /\ Length(msg)' = Length(msg)
  BY <1>1, LengthType DEF TypeOk, Length
<1>3. SeenInCommand /\ SeenInCommand'
  BY <1>1, Seen, SeenNext DEF SeenOk, Command
<1>4. \A d \in Device : Ear(d) => Hears(d) = hn
  BY <1>1 DEF LockStep, UnitOk, UnitCount, UnitPlace, Command, Listens, ListensPut, ListensPull,
              ListensHold, ListensHigh, Handles, Ignores, Ear, Hears, Listening
<1>5. \A d \in Device : Ear(d)' = Ear(d) /\ Hears(d)' = Hears(d)
  BY <1>1 DEF Ear, Hears
<1>6. Exchange!AllHeard
  BY <1>3, <1>4 DEF Exchange!AllHeard, SeenInCommand
<1>7. Ears' = Ears /\ Heard' = Heard
  BY <1>3, <1>5 DEF SeenInCommand
<1>8. Left > 0 /\ Left' = Left - 1 /\ Said' = Said + 1 /\ UNCHANGED <<Phase, msg.to, Got>>
  BY <1>1, <1>2, <1>3 DEF SeenInCommand
<1> QED
  BY <1>3, <1>6, <1>7, <1>8 DEF Exchange!Say, SeenInCommand

(* The host turns to listening when nobody else listens.                    *)
LEMMA TurnTurns ==
  ASSUME TypeOk, ReadsAll, LockStep, HostTurn
  PROVE  Exchange!Turn
<1>1. /\ hpc = "high" /\ hpc' = "rLow" /\ hn = Length(msg) /\ hn' = 0 /\ hsk = {}
      /\ UNCHANGED <<msg, pc, n>> /\ hn \in Nat
  BY DEF HostTurn, HostGo, HskHigh, devVars, TypeOk
<1>2. SeenInCommand /\ SeenInReply'
  BY <1>1, Seen, SeenNext DEF SeenOk, Command
<1>3. ASSUME NEW d \in Device
      PROVE  ~Ear(d) /\ (pc[d] \in Sending => n[d] = 0)
  BY <1>1, Lengths
     DEF LockStep, UnitOk, UnitWires, HoldsHsk, UnitCount, UnitPlace, Command, Listens,
         ListensPut, ListensPull, ListensHold, ListensHigh, Handles, Ignores, Ear, Listening,
         Sending
<1>4. Ears = {} /\ Exchange!AllHeard
  BY <1>2, <1>3 DEF SeenInCommand, Exchange!AllHeard
<1>5. Left = 0 /\ Left' = 0 /\ Said' = 0 /\ Got = 0 /\ Got' = 0
  BY <1>1, <1>2, <1>3 DEF SeenInCommand, SeenInReply
<1> QED
  BY <1>1, <1>2, <1>4, <1>5 DEF Exchange!Turn, SeenInCommand, SeenInReply

(* The host hears the nibble that was said.                                 *)
LEMMA LatchHears ==
  ASSUME TypeOk, ReadsAll, LockStep, HostLatch
  PROVE  Exchange!HearReply
<1>1. /\ hpc = "rLatch" /\ hpc' = "rFloat" /\ hn' = hn + 1 /\ hn \in Nat
      /\ UNCHANGED <<msg, pc, n>>
  BY DEF HostLatch, HostGo, devVars, TypeOk
<1>2. SeenInReply /\ SeenInReply'
  BY <1>1, Seen, SeenNext DEF SeenOk, Command
<1>3. Answerable(msg) /\ msg.to \in Device
  BY <1>1 DEF LockStep, HostOk, Answerable
<1>4. Replies(msg.to)
  BY <1>1, <1>3 DEF LockStep, UnitOk, UnitPlace, Command, Waits, Answers
<1>5. pc[msg.to] \in Sending /\ n[msg.to] = hn + 1
  BY <1>1, <1>4 DEF Replies, Sending
<1>6. Said = hn + 1 /\ Said' = hn + 1 /\ Got = hn /\ Got' = hn + 1
  BY <1>1, <1>2, <1>3, <1>5 DEF SeenInReply
<1> QED
  BY <1>1, <1>2, <1>6 DEF Exchange!HearReply, SeenInReply

(* The host lets BAV go: the exchange ends.                                 *)
LEMMA EndEnds ==
  ASSUME TypeOk, LockStep, HostEnd
  PROVE  Exchange!End
<1>1. ~Command /\ hpc # "idle" /\ hpc' = "idle" /\ msg' = msg
  BY DEF HostEnd, HostGo, Command
<1>2. SeenInReply /\ SeenIdle'
  BY <1>1, Seen, SeenNext DEF SeenOk
<1> QED
  BY <1>1, <1>2 DEF Exchange!End, SeenInReply, SeenIdle

(* The host's handshake alone is not heard outside.                         *)
LEMMA OthersAreSilent ==
  ASSUME HostPull \/ HostFloat \/ HostNext \/ HostSeesLow \/ HostHold \/ HostRelease \/ HostRisen
  PROVE  UNCHANGED Exchange!vars
<1>1. UNCHANGED <<hn, msg, pc, n>>
  BY DEF HostPull, HostFloat, HostNext, HostSeesLow, HostHold, HostRelease, HostRisen, devVars
<1>2. \/ Command /\ Command'
      \/ ~Command /\ ~Command' /\ hpc # "idle" /\ hpc' # "idle"
  BY DEF HostPull, HostFloat, HostNext, HostSeesLow, HostHold, HostRelease, HostRisen, HostGo,
         Command
<1>3. CASE Command /\ Command'
  <2>1. SeenInCommand /\ SeenInCommand'
    BY <1>3, Seen, SeenNext DEF SeenOk
  <2>2. \A d \in Device : Ear(d)' = Ear(d) /\ Hears(d)' = Hears(d)
    BY <1>1 DEF Ear, Hears
  <2>3. Length(msg)' = Length(msg)
    BY <1>1 DEF Length
  <2> QED
    BY <1>1, <2>1, <2>2, <2>3 DEF Exchange!vars, SeenInCommand
<1>4. CASE ~Command /\ ~Command' /\ hpc # "idle" /\ hpc' # "idle"
  <2>1. SeenInReply /\ SeenInReply'
    BY <1>4, Seen, SeenNext DEF SeenOk
  <2> QED
    BY <1>1, <2>1 DEF Exchange!vars, SeenInReply
<1> QED
  BY <1>2, <1>3, <1>4

(* HexBus implements HexExchange, if the host never gives up and the handlers *)
(* read the data of their commands.                                        *)
THEOREM BusImplementsExchange ==
  ASSUME Patient
  PROVE  Spec => Transactions
<1>1. Init => Exchange!Init
  <2> SUFFICES ASSUME Init  PROVE Exchange!Init
    OBVIOUS
  <2>1. SeenIdle
    BY Seen DEF SeenOk, Init
  <2> QED
    BY <2>1 DEF Exchange!Init, SeenIdle
<1>2. TypeOk /\ LockStep /\ [Next]_vars => [Exchange!Next]_(Exchange!vars)
  <2> SUFFICES ASSUME TypeOk, LockStep, [Next]_vars
               PROVE  [Exchange!Next]_(Exchange!vars)
    OBVIOUS
  <2>1. CASE \E d \in Device : DeviceStep(d)
    BY <2>1, CommandStep, IdleStep, ReplyStep DEF Patient
  <2>2. CASE \E m \in Messages : HostStart(m)
    BY <2>2, StartBegins DEF Patient, Exchange!Next
  <2>3. CASE HostStep
    BY <2>3, PutSays, TurnTurns, LatchHears, EndEnds, OthersAreSilent
       DEF Patient, HostStep, HostSend, HostListen, Exchange!Next
  <2>4. CASE HostAbort
    BY <2>4 DEF HostAbort, Patient
  <2>5. CASE UNCHANGED vars
    BY <2>5 DEF vars, Exchange!vars, Phase, Left, Said, Ears, Heard, Got, Length
  <2> QED
    BY <2>1, <2>2, <2>3, <2>4, <2>5 DEF Next
<1> QED
  BY <1>1, <1>2, TypeInvariant, LockStepInvariant, PTL DEF Spec, Transactions, Exchange!Spec
=============================================================================
