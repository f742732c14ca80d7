------------------------------- MODULE HexBus -------------------------------
(***************************************************************************)
(* The HEX-BUS wires and the code that drives them.  One host and several  *)
(* peripheral units (each of them running this firmware) share two         *)
(* open-drain lines, BAV (bus available, low while a transaction runs) and *)
(* HSK (handshake), and four data lines that carry half a byte at a time.  *)
(* A line is low while anybody pulls it.                                   *)
(*                                                                         *)
(* The unit's control states are the reads and writes of a wire in         *)
(* hexbus.c and the PAB loop of main.cpp.  The host is not in the          *)
(* repository: its actions are what hexbus.c expects of the other end.     *)
(***************************************************************************)
EXTENDS Naturals

CONSTANTS
  Device,     \* the peripheral units on the bus
  Host,       \* the computer
  Everyone,   \* a message to device code 0, which every unit accepts
  Nobody,     \* a message to a device code no unit has
  PabLen,     \* bytes of a PAB: 9 in the code
  ReplyLen,   \* bytes of a reply: 3 for hex_send_final_response
  Messages,   \* what the host may send
  Chunk,      \* bytes of one hex_get_data(): BUFSIZE in the code
  MayAbort,   \* whether the host may give a transaction up
  Hurry,      \* whether it may begin the next one while a handler still runs
              \* that has lost the bus, and holds no wire
  Blink       \* states of a unit too short for a host's timeout to fall in

(* A message carries data bytes after its PAB; the handler of the command  *)
(* reads eat of them before it replies.  How it replies: "checked" like     *)
(* hex_send_final_response(), "leaky" like clk_read(), which does not call  *)
(* hex_finish() when BAV is high, "bare" like drv_read(), which does not    *)
(* look at BAV; or not at all: "reset" like drv_reset_dev(), "mute" like    *)
(* ser_rtn_sta(), which is empty.  What its handler does when BAV rises in   *)
(* the data: it "returns" like hex_write_cmd() and hex_open_helper(), or goes *)
(* on to its reply after the "rest" of the data, from the end of the piece,   *)
(* like drv_write(), or after "any" part of it, like drv_verify(), whose      *)
(* count is not set by then, clk_write() and drv_delete().                  *)
MessageType == [to : Device \cup {Everyone, Nobody}, data : Nat, eat : Nat,
                how : {"checked", "leaky", "bare", "reset", "mute"},
                lost : {"returns", "rest", "any"}]
Answerable(m) == m.to \in Device /\ m.how \notin {"reset", "mute"}

ASSUME ConstantsOk ==
  /\ Host \notin Device
  /\ {Everyone, Nobody} \cap Device = {}
  /\ Everyone # Nobody /\ Nobody \notin MessageType
  /\ PabLen \in Nat \ {0}
  /\ ReplyLen \in Nat \ {0}
  /\ Chunk \in Nat \ {0}
  /\ Messages \subseteq MessageType
  /\ Messages # {}
  /\ \A m \in Messages : m.lost # "returns" => m.how = "checked"
  /\ {MayAbort, Hurry} \subseteq BOOLEAN

VARIABLES
  hsk,    \* the parties that pull HSK low
  bav,    \* the parties that pull BAV low
  drv,    \* drv[p]: the number of the nibble p puts on the data lines, 0: none
  pc,     \* pc[d]: where unit d is in its code
  n,      \* n[d]: nibbles unit d has received, or sent, in this turn
  lv,     \* lv[d]: what the data lines carried when d last read them
  over,   \* over[d]: the command d still handles though its transaction is over,
          \* or Nobody
  hpc, hn, hlv,   \* the same for the host
  msg     \* the message of the running transaction

devVars  == <<pc, n, lv, over>>
hostVars == <<hpc, hn, hlv, msg>>
vars == <<hsk, bav, drv, pc, n, lv, over, hpc, hn, hlv, msg>>

Party   == {Host} \cup Device
BavHigh == bav = {}
HskHigh == hsk = {}

(* What a read of the data lines finds: every nibble that is being driven. *)
Lines == {<<p, drv[p]>> : p \in {q \in Party : drv[q] # 0}}

Length(m) == 2 * (PabLen + m.data)          \* nibbles the host sends
(* The command unit d is at.                                                *)
Cmd(d) == IF over[d] = Nobody THEN msg ELSE over[d]
Needs_PabOnly(d) == 2 * PabLen
Needs(d)  == IF Cmd(d).to = d THEN 2 * (PabLen + Cmd(d).eat) ELSE 2 * PabLen

-----------------------------------------------------------------------------
(* Bus timing.  The sender of a nibble holds HSK low for 8 us and leaves it *)
(* high for 8 us.  A unit that polls HSK reacts within that time.          *)

Deaf(d) == /\ pc[d] \in {"sleep", "capBav", "capHsk", "capPull", "lowBav", "lowHsk", "pull"}
           /\ d \notin hsk

(* Everybody else has seen the low level that p is holding... *)
SeenLow(p)  == /\ p # Host => hpc \notin {"rLow", "rPull"}
               /\ \A d \in Device \ {p} : ~Deaf(d)
(* ... or the high level p has left. *)
SeenHigh(p) == /\ p # Host => hpc \notin {"high", "rRise"}
               /\ \A d \in Device \ {p} : pc[d] # "rise"

-----------------------------------------------------------------------------
(* The units. *)

Go(d, from, to) == pc[d] = from /\ pc' = [pc EXCEPT ![d] = to]

Pull(d)  == hsk' = hsk \cup {d}
Float(d) == hsk' = hsk \ {d}
Restart_Rewind(d) == n' = [n EXCEPT ![d] = @ - 2 * PabLen]
Restart(d) == n' = [n EXCEPT ![d] = 0]

(* main() sleeps until BAV falls. *)
Wake(d) == /\ Go(d, "sleep", "capBav") /\ ~BavHigh
           /\ Restart(d)
           /\ UNCHANGED <<hsk, bav, drv, lv, over, hostVars>>

(* hex_capture_hsk(): read BAV, then HSK, until one of them ends the loop;  *)
(* then hold HSK.                                                          *)
CaptureBav(d) == /\ IF BavHigh THEN Go(d, "capBav", "loop") ELSE Go(d, "capBav", "capHsk")
                 /\ UNCHANGED <<hsk, bav, drv, n, lv, over, hostVars>>
CaptureHsk(d) == /\ IF HskHigh THEN Go(d, "capHsk", "capBav") ELSE Go(d, "capHsk", "capPull")
                 /\ UNCHANGED <<hsk, bav, drv, n, lv, over, hostVars>>
CapturePull_NotHeld(d) == /\ Go(d, "capPull", "loop")
                          /\ UNCHANGED <<hsk, bav, drv, n, lv, over, hostVars>>
CapturePull(d) == /\ Go(d, "capPull", "loop") /\ Pull(d)
                  /\ UNCHANGED <<bav, drv, n, lv, over, hostVars>>

(* The test of main()'s inner loop with no byte read yet.  The first byte   *)
(* of a PAB does not wait for HSK: hex_recv_byte() goes straight to lowhsk. *)
Loop(d) == /\ IF BavHigh THEN Go(d, "loop", "sleep") ELSE Go(d, "loop", "pull")
           /\ UNCHANGED <<hsk, bav, drv, n, lv, over, hostVars>>

(* hex_recv_byte(), half a byte at a time: release HSK and wait for it to   *)
(* rise, wait for it to fall while BAV stays low, hold it, read the lines.  *)
Release(d) == /\ Go(d, "float", "rise") /\ Float(d)
              /\ UNCHANGED <<bav, drv, n, lv, over, hostVars>>
Risen(d) == /\ Go(d, "rise", "lowBav") /\ (HskHigh \/ BavHigh)
            /\ UNCHANGED <<hsk, bav, drv, n, lv, over, hostVars>>
WaitBav(d) == /\ ~BavHigh /\ Go(d, "lowBav", "lowHsk")
              /\ UNCHANGED <<hsk, bav, drv, n, lv, over, hostVars>>
WaitHsk(d) == /\ IF HskHigh THEN Go(d, "lowHsk", "lowBav") ELSE Go(d, "lowHsk", "pull")
              /\ UNCHANGED <<hsk, bav, drv, n, lv, over, hostVars>>
Hold(d) == /\ Go(d, "pull", "latch") /\ Pull(d)
           /\ UNCHANGED <<bav, drv, n, lv, over, hostVars>>
Latch(d) == /\ Go(d, "latch", "next")
            /\ lv' = [lv EXCEPT ![d] = Lines]
            /\ n' = [n EXCEPT ![d] = @ + 1]
            /\ UNCHANGED <<hsk, bav, drv, over, hostVars>>

(* BAV rose: HEXERR_BAV.  main() gives the message up, and so do some        *)
(* handlers and, when it is lost again, hex_eat_it() ...                     *)
LostBus_Blind(d) == /\ FALSE /\ UNCHANGED vars
LostBus(d) ==
  /\ BavHigh
  /\ IF n[d] < 2 * PabLen
     THEN Go(d, "lowBav", "igWait")
     ELSE Cmd(d).lost = "returns" /\ Go(d, "lowBav", "rtn")
  /\ UNCHANGED <<hsk, bav, drv, n, lv, over, hostVars>>

(* ... while others go on, with HSK released: with their files or printer    *)
(* first, then with hex_eat_it() or the reply.                              *)
PieceEnd(d) ==
  LET k == (n[d] - 2 * PabLen) \div (2 * Chunk)
  IN  IF (k + 1) * Chunk < Cmd(d).eat THEN (k + 1) * Chunk ELSE Cmd(d).eat
Skips(d) == IF Cmd(d).lost = "rest" THEN {PieceEnd(d)} ELSE 0 .. Cmd(d).eat
LostData(d) ==
  /\ BavHigh /\ n[d] >= 2 * PabLen /\ Cmd(d).lost # "returns"
  /\ Go(d, "lowBav", "lost")
  /\ \E k \in Skips(d) : n' = [n EXCEPT ![d] = 2 * (PabLen + k)]
  /\ over' = [over EXCEPT ![d] = [Cmd(d) EXCEPT !.lost = "returns"]]
  /\ UNCHANGED <<hsk, bav, drv, lv, hostVars>>
GoOn(d) == /\ IF n[d] < Needs(d) THEN Go(d, "lost", "float") ELSE Go(d, "lost", "chk")
           /\ UNCHANGED <<hsk, bav, drv, n, lv, over, hostVars>>

More(d) == /\ Go(d, "next", "float") /\ n[d] < Needs(d)
           /\ UNCHANGED <<hsk, bav, drv, n, lv, over, hostVars>>

(* The PAB (and the data the handler asked for) is in: the unit whose code  *)
(* it carries runs the handler, device code 0 resets or does nothing and    *)
(* gets no reply, any other message is ignored.                            *)
Dispatch_NoRegistry(d) == /\ n[d] >= Needs(d)
                          /\ IF msg.to = Everyone THEN Go(d, "next", "nullFloat")
                                                  ELSE Go(d, "next", "exec")
                          /\ UNCHANGED <<hsk, bav, drv, n, lv, over, hostVars>>
Dispatch_LetsGo(d) ==
  /\ n[d] >= Needs(d) /\ Go(d, "next", IF Cmd(d).to = d THEN "exec" ELSE "igFloat")
  /\ Float(d)
  /\ UNCHANGED <<bav, drv, n, lv, over, hostVars>>
Dispatch(d) ==
  /\ n[d] >= Needs(d)
  /\ \/ Cmd(d).to = d /\ Answerable(Cmd(d)) /\ Go(d, "next", "exec")
     \/ Cmd(d).to = d /\ Cmd(d).how = "mute" /\ Go(d, "next", "rtn")
     \/ Cmd(d).to = Everyone /\ Go(d, "next", "nullFloat")
     \/ Cmd(d).to = d /\ Cmd(d).how = "reset" /\ Go(d, "next", "nullFloat")
     \/ Cmd(d).to \notin {d, Everyone} /\ Go(d, "next", "igFloat")
  /\ UNCHANGED <<hsk, bav, drv, n, lv, over, hostVars>>

(* The handler's own work: files, clock, printer.  HSK stays low.          *)
Execute(d) == /\ Go(d, "exec", "chk")
              /\ UNCHANGED <<hsk, bav, drv, n, lv, over, hostVars>>

(* The handler is ready to reply, if BAV is still low.                      *)
CheckBav_NoFinish(d) == /\ IF BavHigh THEN Go(d, "chk", "rtn") ELSE Go(d, "chk", "grab")
                        /\ UNCHANGED <<hsk, bav, drv, n, lv, over, hostVars>>
CheckBav_NoTest(d) == /\ Go(d, "chk", "grab")
                      /\ UNCHANGED <<hsk, bav, drv, n, lv, over, hostVars>>
CheckBav(d) ==
  /\ \/ (~BavHigh \/ Cmd(d).how = "bare") /\ Go(d, "chk", "grab")
     \/ BavHigh /\ Cmd(d).how = "checked" /\ Go(d, "chk", "fFloat")
     \/ BavHigh /\ Cmd(d).how = "leaky" /\ Go(d, "chk", "rtn")
  /\ UNCHANGED <<hsk, bav, drv, n, lv, over, hostVars>>

(* hex_send_byte(), half a byte at a time: hold BAV, release HSK and wait   *)
(* for it to rise, put the nibble on the lines, pull HSK.                   *)
Grab(d) == /\ Go(d, "grab", "tFloat")
           /\ bav' = bav \cup {d} /\ Restart(d)
           /\ UNCHANGED <<hsk, drv, lv, over, hostVars>>
SendFloat_HalfByte(d) ==
  /\ IF n[d] = ReplyLen THEN Go(d, "tFloat", "fRise") ELSE Go(d, "tFloat", "tRise")
  /\ SeenLow(d) /\ Float(d)
  /\ UNCHANGED <<bav, drv, n, lv, over, hostVars>>
SendFloat(d) ==
  /\ IF n[d] = 2 * ReplyLen THEN Go(d, "tFloat", "fRise") ELSE Go(d, "tFloat", "tRise")
  /\ SeenLow(d) /\ Float(d)
  /\ UNCHANGED <<bav, drv, n, lv, over, hostVars>>
SendRisen_NoWait(d) == /\ Go(d, "tRise", "tPut")
                       /\ UNCHANGED <<hsk, bav, drv, n, lv, over, hostVars>>
SendRisen(d) == /\ Go(d, "tRise", "tPut") /\ (HskHigh \/ BavHigh)
                /\ UNCHANGED <<hsk, bav, drv, n, lv, over, hostVars>>
SendPut(d) == /\ Go(d, "tPut", "tPull") /\ SeenHigh(d)
              /\ drv' = [drv EXCEPT ![d] = n[d] + 1]
              /\ n' = [n EXCEPT ![d] = @ + 1]
              /\ UNCHANGED <<hsk, bav, lv, over, hostVars>>
SendPull(d) == /\ Go(d, "tPull", "tFloat") /\ Pull(d)
               /\ UNCHANGED <<bav, drv, n, lv, over, hostVars>>

(* hex_finish(): HSK, then the data lines, then BAV.                       *)
FinishFloat(d) == /\ Go(d, "fFloat", "fRise") /\ Float(d)
                  /\ UNCHANGED <<bav, drv, n, lv, over, hostVars>>
FinishRisen(d) == /\ Go(d, "fRise", "fData") /\ (HskHigh \/ BavHigh)
                  /\ UNCHANGED <<hsk, bav, drv, n, lv, over, hostVars>>
FinishData(d) == /\ Go(d, "fData", "fBav") /\ drv' = [drv EXCEPT ![d] = 0]
                 /\ UNCHANGED <<hsk, bav, n, lv, over, hostVars>>
FinishBav(d) == /\ Go(d, "fBav", "rtn") /\ bav' = bav \ {d}
                /\ UNCHANGED <<hsk, drv, n, lv, over, hostVars>>

(* Back in main() after a command: whatever else is sent is ignored.        *)
Return(d) == /\ IF BavHigh THEN Go(d, "rtn", "sleep") ELSE Go(d, "rtn", "igFloat")
             /\ over' = [over EXCEPT ![d] = Nobody]
             /\ UNCHANGED <<hsk, bav, drv, n, lv, hostVars>>

(* The else branch of main(): release HSK, wait for BAV to rise, listen.    *)
IgnoreFloat(d) == /\ Go(d, "igFloat", "igWait") /\ Float(d)
                  /\ UNCHANGED <<bav, drv, n, lv, over, hostVars>>
IgnoreWait_NoWait(d) == /\ Go(d, "igWait", "loop") /\ Restart(d)
                        /\ UNCHANGED <<hsk, bav, drv, lv, over, hostVars>>
IgnoreWait(d) == /\ Go(d, "igWait", "loop") /\ BavHigh
                 /\ Restart(d)
                 /\ UNCHANGED <<hsk, bav, drv, lv, over, hostVars>>

(* hex_null(); hex_reset_bus() and drv_reset_dev() as the bus sees them.    *)
NullFloat(d) == /\ Go(d, "nullFloat", "nullWait") /\ Float(d)
                /\ UNCHANGED <<bav, drv, n, lv, over, hostVars>>
NullWait(d) == /\ Go(d, "nullWait", "rtn") /\ BavHigh
               /\ UNCHANGED <<hsk, bav, drv, n, lv, over, hostVars>>

Receive(d) == \/ Wake(d) \/ CaptureBav(d) \/ CaptureHsk(d) \/ CapturePull(d) \/ Loop(d)
              \/ Release(d) \/ Risen(d) \/ WaitBav(d) \/ WaitHsk(d) \/ Hold(d) \/ Latch(d)
              \/ LostBus(d) \/ LostData(d) \/ GoOn(d) \/ More(d) \/ Dispatch(d)
Reply(d) == \/ Execute(d) \/ CheckBav(d) \/ Grab(d) \/ SendFloat(d) \/ SendRisen(d)
            \/ SendPut(d) \/ SendPull(d) \/ FinishFloat(d) \/ FinishRisen(d)
            \/ FinishData(d) \/ FinishBav(d)
Ignore(d) == Return(d) \/ IgnoreFloat(d) \/ IgnoreWait(d) \/ NullFloat(d) \/ NullWait(d)
DeviceStep(d) == Receive(d) \/ Reply(d) \/ Ignore(d)

-----------------------------------------------------------------------------
(* The host. *)

HostGo(from, to) == hpc = from /\ hpc' = to

(* A transaction starts on a free bus: BAV and HSK both high, BAV high for  *)
(* longer than a unit needs to poll it.  A unit busy in a handler holds HSK, *)
(* unless the handler has lost the bus: a host in a hurry does not wait for   *)
(* that one.  A handler still at work is now at a command of the past.       *)
HostStart(m) ==
  /\ BavHigh /\ HskHigh
  /\ \A d \in Device : pc[d] \in {"sleep", "exec"} \/ (Hurry /\ pc[d] = "lost")
  /\ HostGo("idle", "put")
  /\ bav' = bav \cup {Host} /\ msg' = m /\ hn' = 0
  /\ over' = [d \in Device |-> IF pc[d] = "exec" THEN Cmd(d) ELSE over[d]]
  /\ UNCHANGED <<hsk, drv, hlv, pc, n, lv>>
HostPut == /\ HostGo("put", "pull") /\ SeenHigh(Host)
           /\ drv' = [drv EXCEPT ![Host] = hn + 1] /\ hn' = hn + 1
           /\ UNCHANGED <<hsk, bav, hlv, msg, devVars>>
HostPull == /\ HostGo("pull", "hold") /\ Pull(Host)
            /\ UNCHANGED <<bav, drv, hn, hlv, msg, devVars>>
HostFloat == /\ HostGo("hold", "high") /\ SeenLow(Host) /\ Float(Host)
             /\ UNCHANGED <<bav, drv, hn, hlv, msg, devVars>>
(* HSK rose: everybody has the nibble.  After the last one the host listens. *)
HostNext == /\ HskHigh /\ hn < Length(msg) /\ HostGo("high", "put")
            /\ UNCHANGED <<hsk, bav, drv, hn, hlv, msg, devVars>>
HostTurn == /\ HskHigh /\ hn = Length(msg) /\ HostGo("high", "rLow")
            /\ drv' = [drv EXCEPT ![Host] = 0] /\ hn' = 0
            /\ UNCHANGED <<hsk, bav, hlv, msg, devVars>>

HostSeesLow == /\ HostGo("rLow", "rPull") /\ ~HskHigh
               /\ UNCHANGED <<hsk, bav, drv, hn, hlv, msg, devVars>>
HostHold == /\ HostGo("rPull", "rLatch") /\ Pull(Host)
            /\ UNCHANGED <<bav, drv, hn, hlv, msg, devVars>>
HostLatch == /\ HostGo("rLatch", "rFloat") /\ hlv' = Lines /\ hn' = hn + 1
             /\ UNCHANGED <<hsk, bav, drv, msg, devVars>>
HostRelease == /\ HostGo("rFloat", "rRise") /\ Float(Host)
               /\ UNCHANGED <<bav, drv, hn, hlv, msg, devVars>>
HostRisen == /\ HskHigh
             /\ IF hn = 2 * ReplyLen THEN HostGo("rRise", "done") ELSE HostGo("rRise", "rLow")
             /\ UNCHANGED <<hsk, bav, drv, hn, hlv, msg, devVars>>

(* The reply is in, or none will come: the host lets BAV go.                *)
HostEnd == /\ \/ HostGo("done", "idle")
              \/ ~Answerable(msg) /\ HostGo("rLow", "idle")
           /\ bav' = bav \ {Host}
           /\ UNCHANGED <<hsk, drv, hn, hlv, msg, devVars>>

(* The host stops waiting and lets every line go.                           *)
HostAbort == /\ MayAbort
             /\ hpc \in {"high", "rLow", "rRise"} /\ hpc' = "idle"
             /\ \A d \in Device : pc[d] \notin Blink
             /\ hsk' = hsk \ {Host} /\ bav' = bav \ {Host}
             /\ drv' = [drv EXCEPT ![Host] = 0]
             /\ UNCHANGED <<hn, hlv, msg, devVars>>

HostSend == HostPut \/ HostPull \/ HostFloat \/ HostNext \/ HostTurn
HostListen == \/ HostSeesLow \/ HostHold \/ HostLatch \/ HostRelease \/ HostRisen
HostStep == HostSend \/ HostListen \/ HostEnd

-----------------------------------------------------------------------------
Init == /\ hsk = {} /\ bav = {}
        /\ drv = [p \in Party |-> 0]
        /\ pc = [d \in Device |-> "sleep"]
        /\ n = [d \in Device |-> 0] /\ lv = [d \in Device |-> {}]
        /\ over = [d \in Device |-> Nobody]
        /\ hpc = "idle" /\ hn = 0 /\ hlv = {}
        /\ msg \in Messages

Next == \/ \E d \in Device : DeviceStep(d)
        \/ \E m \in Messages : HostStart(m)
        \/ HostStep
        \/ HostAbort

Spec == Init /\ [][Next]_vars

(* Every unit runs its own loop and the host carries on with what it began; *)
(* nothing makes it begin, or give up.                                      *)
FairSpec == Spec /\ WF_vars(HostStep) /\ \A d \in Device : WF_vars(DeviceStep(d))

-----------------------------------------------------------------------------
DeviceStates ==
  {"sleep", "capBav", "capHsk", "capPull", "loop", "float", "rise", "lowBav", "lowHsk",
   "pull", "latch", "next", "lost", "exec", "chk", "grab", "tFloat", "tRise", "tPut", "tPull",
   "fFloat", "fRise", "fData", "fBav", "rtn", "igFloat", "igWait", "nullFloat", "nullWait"}
HostStates == {"idle", "put", "pull", "hold", "high", "rLow", "rPull", "rLatch", "rFloat",
               "rRise", "done"}

(* Every variable keeps its type.                                           *)
TypeOk ==
  /\ hsk \subseteq Party /\ bav \subseteq Party
  /\ drv \in [Party -> Nat]
  /\ pc \in [Device -> DeviceStates]
  /\ over \in [Device -> MessageType \cup {Nobody}]
  /\ n \in [Device -> Nat] /\ lv \in [Device -> SUBSET (Party \X Nat)]
  /\ hpc \in HostStates /\ hn \in Nat /\ hlv \in SUBSET (Party \X Nat)
  /\ msg \in Messages

(* Two parties never drive the data lines at once: the turn-around from the *)
(* host's last nibble to the unit's first, a late reply and an abandoned    *)
(* transaction included.                                                   *)
OneTalker == \A p, q \in Party : drv[p] # 0 /\ drv[q] # 0 => p = q

(* A unit that reads half a byte gets the one the host is sending, with none *)
(* lost, repeated or mixed with somebody else's: hex_recv_byte().           *)
NibblesInOrder == \A d \in Device : pc[d] = "next" => lv[d] = {<<Host, n[d]>>}

(* The host receives the reply of the unit it spoke to, nibble by nibble.   *)
ReplyInOrder == hpc = "rFloat" => hlv = {<<msg.to, hn>>}

(* At hex_recv_byte()'s label lowhsk the first byte of a PAB is under way    *)
(* and the unit already holds HSK: it is not the second half of a message    *)
(* the unit has just ignored.                                              *)
FirstNibbleCaptured == \A d \in Device : pc[d] = "pull" /\ n[d] = 0 => d \in hsk

(* A unit that sleeps in main(), waiting for BAV, drives no line.           *)
SleeperLetsGo ==
  \A d \in Device : pc[d] = "sleep" => d \notin hsk \cup bav /\ drv[d] = 0

(* Only the unit that was spoken to holds BAV or drives the data lines.     *)
OnlyAddressee == \A d \in Device : d \in bav \/ drv[d] # 0 => msg.to = d

(* One party talks at a time, the host or the unit it has named                *)
(* (hex_send_byte(), the ignore branch of main()).                           *)
OnlyTheNamedTalks == OneTalker /\ OnlyAddressee

(* Both directions: what is sent is what is read (hex_recv_byte(),             *)
(* hex_send_byte()).                                                        *)
AllInOrder == NibblesInOrder /\ ReplyInOrder

(* The data lines do not change while a unit or the host is between seeing  *)
(* HSK low and reading them.                                               *)
StableLines ==
  [][drv' # drv => /\ \A d \in Device : pc[d] \notin {"pull", "latch"}
                   /\ hpc \notin {"rPull", "rLatch"}]_vars

(* A unit takes BAV only to answer the command of the transaction that the    *)
(* host is in, and never to send what is left of an earlier one: "As long as   *)
(* BAV is still low, then go ahead and send a response" (hex_eat_it()).       *)
ReplyInTime ==
  [][\A d \in Device : d \in bav' \ bav => Host \in bav /\ over[d] = Nobody]_vars

(* The bus carries a transaction as HexExchange says: a command heard in    *)
(* lock step by every unit that listens, then the reply of the unit named.  *)
Phase == CASE hpc = "idle" -> "free"
           [] hpc \in {"put", "pull", "hold", "high"} -> "command"
           [] OTHER -> "reply"
Listening == {"sleep", "capBav", "capHsk", "capPull", "loop", "float", "rise", "lowBav",
              "lowHsk", "pull", "latch", "next", "exec", "chk"}
Sending == {"tFloat", "tRise", "tPut", "tPull", "fRise", "fData"}
Said == CASE Phase = "command" -> hn
          [] Phase = "reply" /\ msg.to \in Device /\ pc[msg.to] \in Sending -> n[msg.to]
          [] OTHER -> IF Phase = "reply" THEN hn ELSE 0
Left == IF Phase = "command" THEN Length(msg) - hn ELSE 0
Ears == IF Phase = "command" THEN {d \in Device : pc[d] \in Listening} ELSE {}
Heard == [d \in Device |-> IF d \in Ears /\ pc[d] # "sleep" THEN n[d] ELSE 0]
Got  == IF Phase = "reply" THEN hn ELSE 0
Exchange == INSTANCE HexExchange WITH
  phase <- Phase, to <- msg.to, left <- Left, said <- Said,
  ears <- Ears, heard <- Heard, got <- Got
Transactions == Exchange!Spec

(* A command that has a reply is answered in full, if the host waits.       *)
Answered == (hpc = "rLow" /\ Answerable(msg)) ~> (hpc = "done")

(* Whatever the host does, the bus becomes free again and each unit sleeps,  *)
(* unless it gives up on a handler that then returns to main() with HSK held  *)
(* (clk_read(), clock.cpp:158; ser_rtn_sta() in the instant before the host     *)
(* lets go): nothing else stops the bus, and that does for good.            *)
Free  == hpc = "idle" /\ BavHigh /\ HskHigh /\ \A d \in Device : pc[d] = "sleep"
Stuck ==
  \E d \in Device : /\ pc[d] = "sleep" /\ hsk = {d}
                    /\ Cmd(d).to = d /\ Cmd(d).how \in {"leaky", "mute"}
BusFreed == []<>Free \/ <>[]Stuck
=============================================================================
