------------------------------- MODULE Uarts -------------------------------
(***************************************************************************)
(* How characters leave: the ring buffer of the UART (uart.cpp), which the     *)
(* serial port writes to, the software UART (swuart.cpp) of the printer and    *)
(* of debug output, and the main loop (main.cpp), which may put the processor  *)
(* to sleep.  A step is one access of the program to a variable an interrupt    *)
(* shares with it, or one interrupt.  A 16-bit variable takes two accesses:     *)
(* read low byte first, written high byte first.                             *)
(***************************************************************************)
EXTENDS Integers, Sequences

CONSTANTS
  SIZE,       \* of tx0_buf; 256 in the code
  MaxMsg,     \* characters of a message
  Chars,      \* the characters, numbers below 256
  Rate,       \* rate[]: interrupts a bit takes
  Flush       \* CONFIG_UART_DEBUG_FLUSH

ASSUME UartsAssumption ==
  /\ SIZE \in {2, 4, 8, 16, 32, 64, 128, 256} /\ MaxMsg \in Nat \ {0} /\ Chars \subseteq 0 .. 255
  /\ Rate \in Nat \ {0} /\ Flush \in BOOLEAN

SWUART_PORTS == 2
Port == 0 .. SWUART_PORTS - 1     \* 0: the printer, 1: debug
Uart == 2                         \* the line of the UART
Lines == Port \cup {Uart}

VARIABLES
  pc, line, left,       \* the main program; where its message goes, characters to come
  c, low, tmp,          \* a character being put; registers
  fresh,                \* an interrupt of the timer has just been served
  open,                 \* the serial port or the printer is open
  tx0_buf, tx0_head, tx0_tail, udrie, udr,
  tx_shift_reg, count, running, timer,
  rx,                   \* the bits of a character that the other end has seen
  owed, last            \* of CharLines

main == <<pc, line, left, c, low, tmp, open>>
ring == <<tx0_buf, tx0_head, tx0_tail, udrie>>
soft == <<tx_shift_reg, count, running, timer, rx>>
vars == <<main, fresh, ring, udr, soft, owed, last>>
Quiet == last' = {}               \* nothing arrives

L == INSTANCE CharLines

-----------------------------------------------------------------------------
(* The main loop: a message comes when BAV falls, and wakes the processor.     *)

Asleep == pc \in {"idle", "standby"}
Waiting == pc = "bav" \/ Asleep
PutNext(l, n) == line' = l /\ left' = n /\ pc' = IF l = Uart THEN "room" ELSE "low"

Open == /\ Waiting /\ ~open /\ open' = TRUE /\ pc' = "bav"
        /\ UNCHANGED <<line, left, c, low, tmp, fresh, ring, udr, soft, owed>> /\ Quiet
Close == /\ Waiting /\ open /\ open' = FALSE /\ pc' = "bav"
         /\ UNCHANGED <<line, left, c, low, tmp, fresh, ring, udr, soft, owed>> /\ Quiet
(* ser_write(), prn_write(); debug_putc(), which flushes each character.         *)
Write ==
  /\ Waiting
  /\ \E l \in Lines, n \in 1 .. MaxMsg, ch \in Chars :
       (IF l = 1 THEN Flush => n = 1 ELSE open) /\ PutNext(l, n) /\ c' = ch
  /\ UNCHANGED <<low, tmp, open, fresh, ring, udr, soft, owed>> /\ Quiet
Again ==
  IF left > 1 THEN \E ch \in Chars : c' = ch /\ PutNext(line, left - 1)
  ELSE pc' = "done" /\ left' = 0 /\ c' = 0 /\ UNCHANGED line

(* All of it has been put: prn_write() waits for it to be sent, ser_write() does *)
(* not.                                                                     *)
Flushes == line = 0 \/ (line = 1 /\ Flush)
WriteDone_NoFlush ==
  /\ pc = "done"
  /\ pc' = "bav" /\ line' = 0 /\ fresh' = FALSE
  /\ UNCHANGED <<left, c, low, tmp, open, ring, udr, soft, owed>> /\ Quiet
WriteDone ==
  /\ pc = "done" /\ (Flushes => running = 0)          \* swuart_flush()
  /\ pc' = "bav" /\ line' = 0 /\ fresh' = FALSE
  /\ UNCHANGED <<left, c, low, tmp, open, ring, udr, soft, owed>> /\ Quiet

(* IDLE stops the timer, STANDBY the UART, too.                              *)
data_tosend == udrie \/ running # 0
Sleep ==
  /\ pc = "bav"
  /\ IF open THEN ~data_tosend /\ pc' = "idle" ELSE pc' = "standby"
  /\ fresh' = FALSE
  /\ UNCHANGED <<line, left, c, low, tmp, open, ring, udr, soft, owed>> /\ Quiet

-----------------------------------------------------------------------------
(* uart0_putc(), its interrupt, and the transmitter behind UDR.               *)

Index(i) == i % SIZE
Room_Full ==
  /\ pc = "room"
  /\ pc' = "store" /\ fresh' = FALSE
  /\ UNCHANGED <<line, left, c, low, tmp, open, ring, udr, soft, owed>> /\ Quiet
Room ==
  /\ pc = "room" /\ Index(tx0_head + 1) # tx0_tail
  /\ pc' = "store" /\ fresh' = FALSE
  /\ UNCHANGED <<line, left, c, low, tmp, open, ring, udr, soft, owed>> /\ Quiet
StoreData ==
  /\ pc = "store"
  /\ tx0_buf' = [tx0_buf EXCEPT ![tx0_head] = c]
  /\ pc' = "advance" /\ fresh' = FALSE
  /\ UNCHANGED <<line, left, c, low, tmp, open, tx0_head, tx0_tail, udrie, udr, soft, owed>> /\ Quiet
Advance ==
  /\ pc = "advance"
  /\ tx0_head' = Index(tx0_head + 1)
  /\ owed' = [owed EXCEPT ![Uart] = Append(@, c)]
  /\ pc' = "enable" /\ fresh' = FALSE
  /\ UNCHANGED <<line, left, c, low, tmp, open, tx0_buf, tx0_tail, udrie, udr, soft>> /\ Quiet
EnableIrq ==
  /\ pc = "enable"
  /\ udrie' = TRUE /\ fresh' = FALSE /\ Again
  /\ UNCHANGED <<low, tmp, open, tx0_buf, tx0_head, tx0_tail, udr, soft, owed>> /\ Quiet

UdreIrq ==
  /\ udrie /\ udr = <<>> /\ pc # "standby"
  /\ IF tx0_head # tx0_tail
       THEN udr' = <<tx0_buf[tx0_tail]>> /\ tx0_tail' = Index(tx0_tail + 1) /\ UNCHANGED udrie
       ELSE udrie' = FALSE /\ UNCHANGED <<udr, tx0_tail>>
  /\ UNCHANGED <<main, fresh, tx0_buf, tx0_head, soft, owed>> /\ Quiet

(* The characters cs, a set of lines and characters, arrive.                  *)
Arrived(cs) ==
  /\ last' = cs
  /\ owed' = [l \in Lines |-> IF owed[l] # <<>> /\ (\E ch \in 0 .. 256 : <<l, ch>> \in cs)
                              THEN Tail(owed[l]) ELSE owed[l]]
Transmit ==
  /\ udr # <<>> /\ pc # "standby"
  /\ Arrived({<<Uart, udr[1]>>}) /\ udr' = <<>>
  /\ UNCHANGED <<main, fresh, ring, soft>>

-----------------------------------------------------------------------------
(* swuart_putc().                                                           *)

Low(v) == v % 256
HighByte(v) == v - Low(v)
(* 10 bits; a char is signed, so one from 128 has ones to the left of them.     *)
Frame(ch) == IF ch < 128 THEN 512 + 2 * ch ELSE 65536 - 512 + 2 * ch

ReadLow ==
  /\ pc = "low" /\ low' = Low(tx_shift_reg[line])
  /\ pc' = "high" /\ fresh' = FALSE
  /\ UNCHANGED <<line, left, c, tmp, open, ring, udr, soft, owed>> /\ Quiet
ReadHigh_NoWait ==
  /\ pc = "high" /\ pc' = "setHigh" /\ low' = 0 /\ fresh' = FALSE
  /\ UNCHANGED <<line, left, c, tmp, open, ring, udr, soft, owed>> /\ Quiet
ReadHigh ==
  /\ pc = "high"
  /\ pc' = IF low = 0 /\ HighByte(tx_shift_reg[line]) = 0 THEN "setHigh" ELSE "low"
  /\ low' = 0 /\ fresh' = FALSE
  /\ UNCHANGED <<line, left, c, tmp, open, ring, udr, soft, owed>> /\ Quiet
SetHigh ==
  /\ pc = "setHigh"
  /\ tx_shift_reg' = [tx_shift_reg EXCEPT ![line] = HighByte(Frame(c)) + Low(@)]
  /\ pc' = "setLow" /\ fresh' = FALSE
  /\ UNCHANGED <<line, left, c, low, tmp, open, ring, udr, count, running, timer, rx, owed>> /\ Quiet
SetLow ==
  /\ pc = "setLow"
  /\ tx_shift_reg' = [tx_shift_reg EXCEPT ![line] = HighByte(@) + Low(Frame(c))]
  /\ owed' = [owed EXCEPT ![line] = Append(@, c)]
  /\ pc' = "timer" /\ fresh' = FALSE
  /\ UNCHANGED <<line, left, c, low, tmp, open, ring, udr, count, running, timer, rx>> /\ Quiet
EnableTimer ==
  /\ pc = "timer" /\ timer' = TRUE
  /\ pc' = "load" /\ fresh' = FALSE
  /\ UNCHANGED <<line, left, c, low, tmp, open, ring, udr, tx_shift_reg, count, running, rx, owed>> /\ Quiet
LoadRunning ==
  /\ pc = "load" /\ tmp' = running
  /\ pc' = "run" /\ fresh' = FALSE
  /\ UNCHANGED <<line, left, c, low, open, ring, udr, soft, owed>> /\ Quiet
StoreRunning ==
  /\ pc = "run" /\ running' = (tmp + 1) % 256
  /\ tmp' = 0 /\ fresh' = FALSE /\ Again
  /\ UNCHANGED <<low, open, ring, udr, tx_shift_reg, count, timer, rx, owed>> /\ Quiet

(* The interrupt of the timer: each port whose time has come sends a bit.  The   *)
(* program makes a step between two of them, unless it waits: a bit takes more   *)
(* than 60 instructions.                                                    *)
Due == {p \in Port : tx_shift_reg[p] # 0 /\ count[p] + 1 >= Rate}
Ends == {p \in Due : tx_shift_reg[p] \div 2 = 0}
Looping == pc \in {"low", "done"} \/ Waiting
(* What the other end makes of a bit: a start bit, eight of the character, and a *)
(* stop bit; it ignores ones between characters.                             *)
Sees(p, bit) ==
  IF rx[p] = <<>> /\ bit = 1 THEN <<>> ELSE IF Len(rx[p]) = 9 THEN <<>> ELSE Append(rx[p], bit)
Value(bits) == bits[2] + 2 * bits[3] + 4 * bits[4] + 8 * bits[5] + 16 * bits[6] + 32 * bits[7]
               + 64 * bits[8] + 128 * bits[9]
Full == {p \in Due : Len(rx[p]) = 9}
Got(p) == <<p, IF tx_shift_reg[p] % 2 = 1 THEN Value(rx[p]) ELSE 256>>
(* "running" is counted down for one port after the other, and the timer stops      *)
(* whenever it comes to 0.                                                   *)
Ended == (IF 0 \in Ends THEN 1 ELSE 0) + (IF 1 \in Ends THEN 1 ELSE 0)
Down(n) == (running + 256 - n) % 256
TimerIrq ==
  /\ timer /\ ~Asleep /\ (fresh => Looping)
  /\ tx_shift_reg' = [p \in Port |-> IF p \in Ends THEN 0
                                     ELSE IF p \in Due THEN tx_shift_reg[p] \div 2 ELSE tx_shift_reg[p]]
  /\ count' = [p \in Port |-> IF tx_shift_reg[p] = 0 THEN count[p]
                              ELSE IF p \in Due THEN 0 ELSE count[p] + 1]
  /\ rx' = [p \in Port |-> IF p \in Due THEN Sees(p, tx_shift_reg[p] % 2) ELSE rx[p]]
  /\ running' = Down(Ended)
  /\ timer' = (\A n \in 1 .. Ended : Down(n) # 0)
  /\ Arrived({Got(p) : p \in Full})
  /\ fresh' = TRUE
  /\ UNCHANGED <<main, ring, udr>>

-----------------------------------------------------------------------------
Init ==
  /\ pc = "bav" /\ line = 0 /\ left = 0 /\ c = 0 /\ low = 0 /\ tmp = 0
  /\ open = FALSE /\ fresh = FALSE
  /\ tx0_buf = [i \in 0 .. SIZE - 1 |-> 0] /\ tx0_head = 0 /\ tx0_tail = 0 /\ udrie = FALSE /\ udr = <<>>
  /\ tx_shift_reg = [p \in Port |-> 0] /\ count = [p \in Port |-> 0] /\ running = 0 /\ timer = FALSE
  /\ rx = [p \in Port |-> <<>>]
  /\ L!Init

Program ==
  \/ WriteDone \/ Room \/ StoreData \/ Advance \/ EnableIrq
  \/ ReadLow \/ ReadHigh \/ SetHigh \/ SetLow \/ EnableTimer \/ LoadRunning \/ StoreRunning
Host == Open \/ Close \/ Write
Next == Host \/ Program \/ Sleep \/ UdreIrq \/ Transmit \/ TimerIrq

(* The processor runs, the timer and the UART interrupt it; the host need not    *)
(* send another message.                                                     *)
Fairness == WF_vars(Program) /\ WF_vars(Sleep) /\ WF_vars(UdreIrq) /\ WF_vars(Transmit) /\ WF_vars(TimerIrq)
Spec == Init /\ [][Next]_vars /\ Fairness

-----------------------------------------------------------------------------
(* Each line carries what is put to it, each character once and in order         *)
(* (uart0_putc() and its interrupt, swuart_putc() and SWUART_HANDLER).           *)
CarriesAll == L!Spec

(* "running" counts the ports that have a character to send, so swuart_flush()    *)
(* waits for all of them, and for nothing else.                                *)
Sending == {p \in Port : tx_shift_reg[p] # 0}
RunningCounts ==
  pc \notin {"setLow", "timer", "load", "run"} =>
    running = (IF 0 \in Sending THEN 1 ELSE 0) + (IF 1 \in Sending THEN 1 ELSE 0)

(* Sleep holds no character up that main() asked for: IDLE, which stops the timer, *)
(* and STANDBY, which stops the UART as well, find the software ports empty, and  *)
(* before IDLE main() waits for the ring (main.cpp:193-204).  Before STANDBY it  *)
(* does not ask: what a CLOSE leaves in the ring stays there until it wakes up.  *)
NoSleepOver ==
  /\ Asleep => \A p \in Port : owed[p] = <<>>
  /\ pc = "idle" => owed[Uart] = <<>>

(* What main() asks before it sleeps tells the truth (swuart_data_tosend(),       *)
(* uart0_data_tosend()).                                                      *)
SleepIsSafe == RunningCounts /\ NoSleepOver

(* Every message gets through: no putc or flush waits forever (uart0_putc(),       *)
(* swuart_putc(), swuart_flush()).                                            *)
Returns == ~Waiting ~> Waiting
(* And when the host sends no more, everything that has been put leaves, except   *)
(* what STANDBY keeps in the UART.                                             *)
Emptied ==
  /\ \A p \in Port : owed[p] = <<>>
  /\ pc = "standby" \/ owed[Uart] = <<>>
Leaves == <>[][~Host]_vars => <>[]Emptied
(* So a message is written in the end, and leaves the unit.                    *)
AllSent == Returns /\ Leaves

=============================================================================
