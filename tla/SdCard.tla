------------------------------- MODULE SdCard -------------------------------
(***************************************************************************)
(* The SD card driver (sdcard.cpp): how a card is brought up, and how sectors *)
(* are read and written over a line that may spoil a command or a block.     *)
(* A step is one command and its answer, or one block.  The user may take    *)
(* the card out and put it back between steps.  What the card does with a    *)
(* command is external: the SD specification, as the driver relies on it.    *)
(***************************************************************************)
EXTENDS Integers, FiniteSets

CONSTANTS
  Kind,      \* the cards there are
  Sectors,   \* sectors on a card
  RETRIES,   \* CONFIG_SD_AUTO_RETRIES, 10 in the code
  Half,      \* polls of a card that starts up in half a second
  Slow,      \* polls it may need
  Noisy,     \* the commands the line may spoil, "block" among them
  Hands      \* the places of the driver in which the user moves the card

Kinds == {"MMC", "MMCA", "SD", "SDHC", "LowVoltage"}   \* MMCA: accepts APP_CMD
Places == {"idle", "GO_IDLE_STATE", "SEND_IF_COND", "APP_CMD", "SD_SEND_OP_COND", "READ_OCR",
           "SEND_OP_COND", "CRC_ON_OFF", "SET_BLOCKLEN", "finish",
           "READ_SINGLE_BLOCK", "receive", "WRITE_BLOCK", "send", "busy"}

ASSUME SdCardAssumption ==
  /\ Kind \subseteq Kinds /\ Sectors \in Nat \ {0}
  /\ RETRIES \in Nat \ {0} /\ Half \in Nat \ {0} /\ Slow \in Nat \ {0}
  /\ Noisy \subseteq Places \cup {"block"} /\ Hands \subseteq Places

VARIABLES
  card,        \* the card: its kind, lock, what it has been told since it has power,
               \* and whether it is programming a block
  data,        \* what its sectors hold
  cardtype, disk_state,
  mounted,     \* FatFS: sd_initialize() has succeeded, sectors may be asked for
  pc,          \* the command the driver sends next
  tries, t,    \* rounds of GO_IDLE_STATE left, polls done
  errors, bad, \* commands and blocks that failed in a row
  call,        \* the sectors that are read or written, and how many have been
  buf,         \* the caller's buffer, by sector
  result       \* of the last call

progress == <<tries, t, errors, bad>>
vars == <<card, data, cardtype, disk_state, mounted, pc, progress, call, buf, result>>

SectorNo == 0 .. Sectors - 1
Junk == <<"junk", 0>>       \* a block that was spoilt, a sector half programmed

-----------------------------------------------------------------------------
(* The card.                                                                *)

Powered(c) == [c EXCEPT !.st = "native", !.crc = FALSE, !.told = FALSE,
                       !.left = 1, !.busy = FALSE]

(* Polled while it starts up.  A card for high capacities waits until it      *)
(* knows that the host can address it.                                      *)
Poll(c) ==
  IF c.st = "ready" \/ (c.kind = "SDHC" /\ ~c.told) THEN c
  ELSE IF c.left > 1 THEN [c EXCEPT !.left = @ - 1]
  ELSE [c EXCEPT !.st = "ready", !.left = 1]

R1(c) == IF c.st = "ready" THEN "ok" ELSE "idle"
Answer(c) == [res |-> R1(c), card |-> c]
Illegal(c) == [res |-> "illegal", card |-> c]

(* The sector a card takes an address for: bytes, or blocks.                 *)
Meant(c, addr) == IF c.kind = "SDHC" THEN addr ELSE addr \div 512
OnCard(c, addr) == Meant(c, addr) \in SectorNo

(* The answers to a command that arrives.                                   *)
Heard(c, cmd, addr) ==
  IF ~c.present \/ (c.st = "native" /\ cmd # "GO_IDLE_STATE") THEN {[res |-> "none", card |-> c]}
  ELSE CASE cmd = "GO_IDLE_STATE" ->
              {[res |-> "idle", card |-> [Powered(c) EXCEPT !.st = "idle", !.left = n]] : n \in 1 .. Slow}
         [] cmd = "SEND_IF_COND" ->
              {IF c.kind \in {"SDHC", "LowVoltage"} THEN Answer([c EXCEPT !.told = TRUE]) ELSE Illegal(c)}
         [] cmd = "APP_CMD" -> {IF c.kind = "MMC" THEN Illegal(c) ELSE Answer(c)}
         [] cmd = "SD_SEND_OP_COND" ->
              {IF c.kind = "MMCA" THEN Illegal(c) ELSE Answer(Poll(c))}
         [] cmd = "SEND_OP_COND" -> {Answer(Poll(c))}
         [] cmd = "CRC_ON_OFF" -> {Answer([c EXCEPT !.crc = TRUE])}
         [] cmd \in {"READ_SINGLE_BLOCK", "WRITE_BLOCK"} ->
              {IF OnCard(c, addr) THEN Answer(c) ELSE Illegal(c)}
         [] OTHER -> {Answer(c)}                          \* READ_OCR, SET_BLOCKLEN

(* And to one the line spoils: the card refuses it, or does not answer.       *)
Spoilt(c, cmd) ==
  IF cmd \in Noisy THEN {[res |-> r, card |-> c] : r \in {"crc", "none"}} ELSE {}

-----------------------------------------------------------------------------
(* send_command() sends the command pc names, again when the card says that    *)
(* it arrived spoilt; no answer at all, 0xff, has that bit too.               *)
Address == IF cardtype = "SDHC" THEN call.sector + call.sec
           ELSE call.sector * 512 + call.sec * 512

Unsettled == <<pc, disk_state, cardtype, mounted, tries, t, bad, call, result>>
SendAgain_NoCount == UNCHANGED <<errors, Unsettled>>
SendAgain == errors' = errors + 1 /\ UNCHANGED Unsettled
send_command(Then(_)) ==
  \E o \in Heard(card, pc, Address) \cup Spoilt(card, pc) :
    /\ card' = o.card
    /\ IF o.res \in {"crc", "none"} /\ errors + 1 < RETRIES THEN SendAgain
       ELSE errors' = 0 /\ Then(o.res)
    /\ UNCHANGED <<data, buf>>

Return(r) == pc' = "idle" /\ result' = r
GoOn(to) == pc' = to /\ result' = "none"
Quiet == UNCHANGED <<disk_state, cardtype, mounted, tries, bad, call>>

-----------------------------------------------------------------------------
(* sd_initialize()                                                          *)

NoCall == [op |-> "none", sector |-> 0, count |-> 0, sec |-> 0]

Status == IF ~card.present THEN "NODISK" ELSE IF card.wp THEN "PROTECT" ELSE "OK"

StartInit ==
  /\ pc = "idle"
  /\ mounted' = FALSE
  /\ IF card.present
       THEN GoOn("GO_IDLE_STATE") /\ disk_state' = "ERROR" /\ cardtype' = "MMCSD" /\ tries' = 3
       ELSE Return("NODISK") /\ UNCHANGED <<disk_state, cardtype, tries>>
  /\ call' = NoCall /\ buf' = [i \in 0 .. 1 |-> Junk]
  /\ UNCHANGED <<card, data, t, errors, bad>>

GoIdle ==
  /\ pc = "GO_IDLE_STATE"
  /\ send_command(LAMBDA r :
       /\ CASE r = "idle" -> GoOn("SEND_IF_COND") /\ tries' = 0 /\ UNCHANGED <<disk_state, cardtype>>
            [] r = "none" \/ (r # "idle" /\ tries = 1) ->
                 Return("NOINIT") /\ tries' = 0 /\ UNCHANGED <<disk_state, cardtype>>
            [] OTHER -> /\ GoOn(pc) /\ tries' = tries - 1
                        /\ disk_state' = "ERROR" /\ cardtype' = "MMCSD"
       /\ UNCHANGED <<mounted, t, bad, call>>)

SendIfCond ==
  /\ pc = "SEND_IF_COND"
  /\ send_command(LAMBDA r :
       /\ IF r = "idle" /\ card.kind = "LowVoltage" THEN Return("NODISK") ELSE GoOn("APP_CMD")
       /\ t' = 0 /\ Quiet)

AppCmd ==
  /\ pc = "APP_CMD"
  /\ send_command(LAMBDA r :
       /\ IF r = "idle" THEN GoOn("SD_SEND_OP_COND") /\ t' = t
                        ELSE GoOn("SEND_OP_COND") /\ t' = 0
       /\ Quiet)

SdSendOpCond ==
  /\ pc = "SD_SEND_OP_COND"
  /\ send_command(LAMBDA r :
       /\ CASE r = "ok" -> GoOn("READ_OCR") /\ t' = 0
            [] r = "idle" /\ t + 1 < Half -> GoOn("APP_CMD") /\ t' = t + 1
            [] OTHER -> GoOn("SEND_OP_COND") /\ t' = 0       \* not_sd
       /\ Quiet)

ReadOcr_Ignored == /\ pc = "READ_OCR"
                   /\ send_command(LAMBDA r : GoOn("SEND_OP_COND") /\ t' = 0 /\ Quiet)
ReadOcr ==
  /\ pc = "READ_OCR"
  /\ send_command(LAMBDA r :
       /\ GoOn("SEND_OP_COND") /\ t' = 0
       /\ cardtype' = IF r \in {"ok", "idle"} /\ card.kind = "SDHC" THEN "SDHC" ELSE cardtype
       /\ UNCHANGED <<disk_state, mounted, tries, bad, call>>)

SendOpCond ==
  /\ pc = "SEND_OP_COND"
  /\ send_command(LAMBDA r :
       /\ CASE r = "ok" -> GoOn("CRC_ON_OFF") /\ t' = 0
            [] r \notin {"ok", "none"} /\ t + 1 < Half -> GoOn(pc) /\ t' = t + 1
            [] OTHER -> Return("NOINIT") /\ t' = 0
       /\ Quiet)

CrcOn_Unchecked == /\ pc = "CRC_ON_OFF"
                   /\ send_command(LAMBDA r : GoOn("SET_BLOCKLEN") /\ t' = t /\ Quiet)
CrcOn ==
  /\ pc = "CRC_ON_OFF"
  /\ send_command(LAMBDA r :
       /\ IF r \in {"ok", "idle"} THEN GoOn("SET_BLOCKLEN") ELSE Return("NODISK")
       /\ t' = t /\ Quiet)

SetBlockLen ==
  /\ pc = "SET_BLOCKLEN"
  /\ send_command(LAMBDA r :
       (IF r = "ok" THEN GoOn("finish") ELSE Return("NOINIT")) /\ t' = t /\ Quiet)

Finish ==
  /\ pc = "finish"
  /\ disk_state' = "OK" /\ Return(Status)
  /\ mounted' = (Status # "NODISK")
  /\ UNCHANGED <<card, data, cardtype, progress, call, buf>>

-----------------------------------------------------------------------------
(* sd_read() and sd_write().  FatFS asks for sectors of the file system it has *)
(* mounted, up to two at a time here.                                        *)

StartRead ==
  /\ pc = "idle" /\ mounted
  /\ \E s \in SectorNo, n \in 1 .. 2 :
       s + n <= Sectors /\ call' = [op |-> "read", sector |-> s, count |-> n, sec |-> 0]
  /\ GoOn("READ_SINGLE_BLOCK") /\ bad' = 0 /\ buf' = [i \in 0 .. 1 |-> Junk]
  /\ UNCHANGED <<card, data, cardtype, disk_state, mounted, tries, t, errors>>

WriteCalled ==
  /\ pc = "idle" /\ mounted
  /\ \E s \in SectorNo, n \in 1 .. 2 :
       s + n <= Sectors /\ call' = [op |-> "write", sector |-> s, count |-> n, sec |-> 0]
  /\ bad' = 0 /\ buf' = [i \in 0 .. 1 |-> <<"new", i>>]
  /\ UNCHANGED <<card, data, cardtype, disk_state, mounted, tries, t, errors>>
StartWrite_NoLock == WriteCalled /\ GoOn("WRITE_BLOCK")
StartWrite == WriteCalled /\ IF card.wp THEN Return("WRPRT") ELSE GoOn("WRITE_BLOCK")

GiveUp == Return("ERROR") /\ disk_state' = "ERROR"

BlockCommand(accepted) ==
  send_command(LAMBDA r :
    /\ IF r = "ok" THEN GoOn(accepted) /\ UNCHANGED disk_state ELSE GiveUp
    /\ UNCHANGED <<cardtype, mounted, tries, t, bad, call>>)
ReadCommand  == pc = "READ_SINGLE_BLOCK" /\ BlockCommand("receive")
WriteCommand == pc = "WRITE_BLOCK" /\ BlockCommand("send")

(* The block has been transferred: the next one, or done.                    *)
NextBlock(again) ==
  /\ bad' = 0
  /\ IF call.sec + 1 < call.count
       THEN GoOn(again) /\ call' = [call EXCEPT !.sec = @ + 1]
       ELSE Return("OK") /\ UNCHANGED call
(* It was spoilt: send it again, and give up in the end, with disk_state as    *)
(* it is.                                                                  *)
Again(cmd) ==
  IF bad + 1 < RETRIES
    THEN GoOn(cmd) /\ bad' = bad + 1 /\ UNCHANGED call
    ELSE Return("ERROR") /\ bad' = 0 /\ UNCHANGED call

Arrives == card.present /\ card.st = "ready"
Here == Meant(card, Address)
BlockSpoilt == ~Arrives \/ "block" \in Noisy
Elsewhere == <<cardtype, mounted, tries, t, errors>>

ReceiveBlock_Unchecked ==
  /\ pc = "receive" /\ (BlockSpoilt \/ Arrives)
  /\ \E x \in IF BlockSpoilt THEN {Junk} ELSE {data[Here]} :
       buf' = [buf EXCEPT ![call.sec] = x]
  /\ NextBlock("READ_SINGLE_BLOCK")
  /\ UNCHANGED <<card, data, disk_state, Elsewhere>>
ReceiveBlock ==
  /\ pc = "receive" /\ Arrives
  /\ buf' = [buf EXCEPT ![call.sec] = data[Here]]
  /\ NextBlock("READ_SINGLE_BLOCK")
  /\ UNCHANGED <<card, data, disk_state, Elsewhere>>
ReceiveSpoilt ==
  /\ pc = "receive" /\ BlockSpoilt
  /\ buf' = [buf EXCEPT ![call.sec] = Junk]
  /\ Again("READ_SINGLE_BLOCK")
  /\ UNCHANGED <<card, data, disk_state, Elsewhere>>
ReceiveNothing ==                       \* no start token in half a second
  /\ pc = "receive" /\ BlockSpoilt
  /\ GiveUp
  /\ bad' = 0 /\ UNCHANGED <<card, data, buf, call, Elsewhere>>

SendBlock ==
  /\ pc = "send" /\ Arrives
  /\ data' = [data EXCEPT ![Here] = Junk]       \* the card starts to program it
  /\ card' = [card EXCEPT !.busy = TRUE]
  /\ GoOn("busy")
  /\ UNCHANGED <<disk_state, buf, bad, call, Elsewhere>>
SendSpoilt_Unseen ==
  /\ pc = "send" /\ BlockSpoilt
  /\ NextBlock("WRITE_BLOCK")
  /\ UNCHANGED <<card, data, disk_state, buf, Elsewhere>>
SendSpoilt ==
  /\ pc = "send" /\ BlockSpoilt
  /\ Again("WRITE_BLOCK")
  /\ UNCHANGED <<card, data, disk_state, buf, Elsewhere>>

(* The card has programmed the block, when it likes, if ever.                  *)
CardFinishes ==
  /\ card.busy
  /\ data' = [data EXCEPT ![Here] = buf[call.sec]]
  /\ card' = [card EXCEPT !.busy = FALSE]
  /\ UNCHANGED <<cardtype, disk_state, mounted, pc, progress, call, buf, result>>
(* The driver waits while the card says that it is busy, for as long as that   *)
(* takes; an empty slot does not say so.                                     *)
BusyEnds ==
  /\ pc = "busy" /\ ~card.busy
  /\ NextBlock("WRITE_BLOCK")
  /\ UNCHANGED <<card, data, disk_state, buf, Elsewhere>>

-----------------------------------------------------------------------------
(* The user, and SD_CHANGE_HANDLER.                                          *)

TakeOut ==
  /\ card.present /\ pc \in Hands
  /\ card' = [Powered(card) EXCEPT !.present = FALSE] /\ disk_state' = "REMOVED"
  /\ UNCHANGED <<data, cardtype, mounted, pc, progress, call, buf, result>>
PutIn ==
  /\ ~card.present /\ pc \in Hands
  /\ card' = [card EXCEPT !.present = TRUE] /\ disk_state' = "CHANGED"
  /\ UNCHANGED <<data, cardtype, mounted, pc, progress, call, buf, result>>

Init ==
  /\ \E k \in Kind, w \in BOOLEAN :
       card = [kind |-> k, wp |-> w, present |-> TRUE, st |-> "native", crc |-> FALSE,
               told |-> FALSE, left |-> 1, busy |-> FALSE]
  /\ data = [s \in SectorNo |-> <<"old", s>>]
  /\ cardtype = "MMCSD" /\ disk_state = "CHANGED" /\ mounted = FALSE
  /\ pc = "idle" /\ tries = 0 /\ t = 0 /\ errors = 0 /\ bad = 0
  /\ call = NoCall
  /\ buf = [i \in 0 .. 1 |-> Junk] /\ result = "OK"

Driver ==
  \/ GoIdle \/ SendIfCond \/ AppCmd \/ SdSendOpCond \/ ReadOcr
  \/ SendOpCond \/ CrcOn \/ SetBlockLen \/ Finish
  \/ ReadCommand \/ ReceiveBlock \/ ReceiveSpoilt \/ ReceiveNothing
  \/ WriteCommand \/ SendBlock \/ SendSpoilt
  \/ BusyEnds

Next == StartInit \/ StartRead \/ StartWrite \/ Driver \/ CardFinishes \/ TakeOut \/ PutIn

Spec == Init /\ [][Next]_vars /\ WF_vars(Driver)

-----------------------------------------------------------------------------
(* Properties.                                                              *)

Returns(op, r) == pc # "idle" /\ pc' = "idle" /\ call.op = op /\ result' = r
Asked == call.sector .. call.sector + call.count - 1
HighCapacity == card.kind = "SDHC"

(* The driver believes that the card is usable only when the card is, checks  *)
(* what arrives, and is addressed the way the driver addresses it             *)
(* (sd_initialize(), with the card moved at any time).                       *)
OkMeansUsable ==
  disk_state = "OK" =>
    card.st = "ready" /\ card.crc /\ (cardtype = "SDHC") = HighCapacity

(* No block is sent to or taken from a card that does not check CRCs, whatever *)
(* failed while it was brought up.                                           *)
BlocksChecked == pc \in {"receive", "send", "busy"} /\ card.st = "ready" => card.crc

(* Both: what the driver takes a card for, at rest and in the middle of a block. *)
CardUsable == OkMeansUsable /\ BlocksChecked

(* A read that says OK has brought what is in the sectors that were asked for, *)
(* however often a command or a block had to be sent again (sd_read()).        *)
ReadRight ==
  [][Returns("read", "OK") =>
       \A s \in Asked : buf'[s - call.sector] = data[s]]_vars

(* A write that says OK has stored its sectors, unless the card was taken out   *)
(* meanwhile; the driver cannot tell an empty slot from a card that has        *)
(* finished (sd_write()).                                                    *)
WriteRight ==
  [][Returns("write", "OK") /\ card.st = "ready" =>
       \A s \in Asked : data'[s] = buf[s - call.sector]]_vars

(* RES_OK means that the sectors have moved, whichever way (sd_read(), sd_write()). *)
OkMeansMoved == ReadRight /\ WriteRight

(* Nothing but the sectors of a write changes, and nothing on a locked card.    *)
OnlyAsked ==
  [][\A s \in SectorNo : data'[s] # data[s] =>
       ~card.wp /\ call.op = "write" /\ s \in Asked]_vars

(* Every call ends, whatever the line and the user do, or the card stays busy    *)
(* and in its slot for ever: the one wait that has no time-out (sdcard.cpp:663).  *)
StaysBusy == pc = "busy" /\ card.busy
CallsReturn == []<>(pc = "idle") \/ <>[]StaysBusy

=============================================================================
