---------------------------- MODULE SdCard_proofs ----------------------------
(***************************************************************************)
(* What SdCard.tla says of the driver, proved for every number of sectors and *)
(* of retries, every kind of card, and every set of commands that the line may *)
(* spoil and of places where the card is moved that Careful allows.           *)
(***************************************************************************)
EXTENDS SdCard, TLAPS

(* The answers that decide which kind of card it is arrive; the driver's last step is *)
(* not interrupted; a card is ready within half a second.  The README says what      *)
(* happens otherwise.                                                        *)
Careful ==
  /\ Noisy \cap {"APP_CMD", "SD_SEND_OP_COND", "READ_OCR"} = {}
  /\ "finish" \notin Hands
  /\ Slow <= Half

-----------------------------------------------------------------------------
(* The invariant.                                                           *)

BringUp == {"GO_IDLE_STATE", "SEND_IF_COND", "APP_CMD", "SD_SEND_OP_COND", "READ_OCR",
            "SEND_OP_COND", "CRC_ON_OFF", "SET_BLOCKLEN", "finish"}
Reading == {"READ_SINGLE_BLOCK", "receive"}
Writing == {"WRITE_BLOCK", "send", "busy"}
Cards == [kind : Kinds, wp : BOOLEAN, present : BOOLEAN, st : {"native", "idle", "ready"},
          crc : BOOLEAN, told : BOOLEAN, left : Nat \ {0}, busy : BOOLEAN]
Calls == [op : {"none", "read", "write"}, sector : Nat, count : Nat, sec : Nat]

(* The types. *)
TypeOk ==
  /\ card \in Cards
  /\ DOMAIN data = SectorNo /\ DOMAIN buf = 0 .. 1
  /\ cardtype \in {"MMCSD", "SDHC"} /\ mounted \in BOOLEAN
  /\ disk_state \in {"OK", "ERROR", "REMOVED", "CHANGED"}
  /\ pc \in Places
  /\ tries \in Int /\ t \in Nat /\ errors \in Nat /\ bad \in Nat
  /\ call \in Calls

(* cardtype says how this card is addressed. *)
Fits == cardtype = IF HighCapacity THEN "SDHC" ELSE "MMCSD"

(* Between calls: OK means a ready card, and a mounted card that has not lost power is  *)
(* ready, checks CRCs and is addressed rightly.  Only a card that is waited for is busy.  *)
CardOk ==
  /\ ~card.present => card.st = "native"
  /\ ~HighCapacity => cardtype = "MMCSD"
  /\ disk_state = "OK" => mounted /\ card.st = "ready"
  /\ mounted => pc \notin BringUp /\ (card.st # "native" => card.st = "ready" /\ card.crc /\ Fits)
  /\ pc \in BringUp => disk_state # "OK"
  /\ pc \in Reading \cup Writing => mounted
  /\ card.busy => pc = "busy" /\ card.st = "ready"

(* How far a card that has kept its power is, at each command of the bring-up.      *)
Started ==
  /\ pc \in {"SEND_IF_COND", "APP_CMD", "SD_SEND_OP_COND"} => card.st = "idle"
  /\ pc = "SEND_IF_COND" => card.left <= Half
  /\ pc \in {"APP_CMD", "SD_SEND_OP_COND"} /\ HighCapacity /\ card.told => card.left + t <= Half
  /\ pc = "READ_OCR" => card.st = "ready"
  /\ pc = "SEND_OP_COND" /\ HighCapacity =>
       (cardtype = "SDHC" /\ card.st = "ready") \/ (~card.told /\ card.st = "idle")
  /\ pc \in {"CRC_ON_OFF", "SET_BLOCKLEN"} => card.st = "ready" /\ Fits
  /\ pc = "SET_BLOCKLEN" => card.crc

BringUpOk ==
  /\ card.st # "native" => Started
  /\ pc = "finish" => card.st = "ready" /\ card.crc /\ Fits

(* The blocks of a call that have moved so far.                                *)
CallOk ==
  /\ pc \in Reading => call.op = "read" /\ \A i \in 0 .. call.sec - 1 : buf[i] = data[call.sector + i]
  /\ pc \in Writing => /\ call.op = "write" /\ ~card.wp
                       /\ card.st = "ready" => \A i \in 0 .. call.sec - 1 : data[call.sector + i] = buf[i]
  /\ pc = "busy" /\ card.st = "ready" /\ ~card.busy => data[call.sector + call.sec] = buf[call.sec]
  /\ pc \in Reading \cup Writing =>
       call.sec < call.count /\ call.count <= 2 /\ call.sector + call.count <= Sectors
  /\ pc \in BringUp => call = NoCall

IInv == TypeOk /\ CardOk /\ BringUpOk /\ CallOk

-----------------------------------------------------------------------------
(* What the card answers.                                                   *)

Outcomes(cmd) == Heard(card, cmd, Address) \cup Spoilt(card, cmd)
Same(c) == /\ c \in Cards /\ c.kind = card.kind /\ c.wp = card.wp /\ c.present = card.present
           /\ c.busy => card.busy

(* The same card, that started or ended to program a block. *)
SameButBusy(c) ==
  /\ c \in Cards /\ c.kind = card.kind /\ c.wp = card.wp /\ c.present = card.present
  /\ c.st = card.st /\ c.crc = card.crc

(* A poll never undoes what the card is, and a card that is told is ready after   *)
(* the polls it needs.                                                       *)
LEMMA PollIs ==
  ASSUME card \in Cards
  PROVE  /\ Same(Poll(card)) /\ Poll(card).crc = card.crc /\ Poll(card).told = card.told
         /\ Poll(card).st \in {card.st, "ready"}
         /\ HighCapacity /\ ~card.told => Poll(card) = card
         /\ (~HighCapacity \/ card.told) /\ card.left = 1 => Poll(card).st = "ready"
         /\ (~HighCapacity \/ card.told) /\ Poll(card).st # "ready" => Poll(card).left = card.left - 1
<1>1. CASE card.st = "ready" \/ (card.kind = "SDHC" /\ ~card.told)
  BY <1>1 DEF Poll, Same, Cards, HighCapacity
<1>2. CASE ~(card.st = "ready" \/ (card.kind = "SDHC" /\ ~card.told)) /\ card.left > 1
  <2>1. Poll(card) = [card EXCEPT !.left = card.left - 1]
    BY <1>2 DEF Poll
  <2> QED BY <1>2, <2>1 DEF Same, Cards, HighCapacity
<1>3. CASE ~(card.st = "ready" \/ (card.kind = "SDHC" /\ ~card.told)) /\ ~(card.left > 1)
  <2>1. Poll(card) = [card EXCEPT !.st = "ready", !.left = 1]
    BY <1>3 DEF Poll
  <2>2. Same(Poll(card)) /\ Poll(card).crc = card.crc /\ Poll(card).told = card.told
        /\ Poll(card).st = "ready"
    <3>1. ASSUME NEW c, c = [card EXCEPT !.st = "ready", !.left = 1]
          PROVE  Same(c) /\ c.crc = card.crc /\ c.told = card.told /\ c.st = "ready"
      <4>1. /\ c.kind = card.kind /\ c.wp = card.wp /\ c.present = card.present
            /\ c.crc = card.crc /\ c.told = card.told /\ c.st = "ready" /\ c.left = 1
            /\ c.busy = card.busy
        BY <3>1 DEF Cards
      <4>2. c = [kind |-> card.kind, wp |-> card.wp, present |-> card.present, st |-> "ready",
                 crc |-> card.crc, told |-> card.told, left |-> 1, busy |-> card.busy]
        BY <3>1 DEF Cards
      <4> QED BY <4>1, <4>2 DEF Same, Cards
    <3> QED BY <2>1, <3>1
  <2> QED BY <1>3, <2>2 DEF HighCapacity
<1> QED BY <1>1, <1>2, <1>3

(* A command the line spoils leaves the card as it was.                     *)
LEMMA SpoiltIs ==
  ASSUME NEW cmd, NEW o \in Spoilt(card, cmd)
  PROVE  o.card = card /\ o.res \in {"crc", "none"} /\ cmd \in Noisy
BY DEF Spoilt

(* An empty slot, and a card that still speaks the other protocol, say      *)
(* nothing.                                                                 *)
LEMMA SilenceIs ==
  ASSUME NEW cmd, ~card.present \/ (card.st = "native" /\ cmd # "GO_IDLE_STATE"),
         NEW o \in Heard(card, cmd, Address)
  PROVE  o.card = card /\ o.res = "none"
<1>1. Heard(card, cmd, Address) = {[res |-> "none", card |-> card]}
  BY Zenon DEF Heard
<1> QED BY <1>1

(* A command that is lost changes nothing.                                    *)
LEMMA Lost ==
  ASSUME NEW cmd \in Places, NEW o \in Outcomes(cmd), o.res \in {"crc", "none"}
  PROVE  o.card = card
<1>1. CASE o \in Spoilt(card, cmd)
  BY <1>1, SpoiltIs
<1>2. CASE o \in Heard(card, cmd, Address) /\ (~card.present \/ (card.st = "native" /\ cmd # "GO_IDLE_STATE"))
  BY <1>2, SilenceIs
<1>3. CASE o \in Heard(card, cmd, Address) /\ ~(~card.present \/ (card.st = "native" /\ cmd # "GO_IDLE_STATE"))
  <2>1. CASE cmd = "GO_IDLE_STATE"
    <3>1. PICK n \in 1 .. Slow :
            o = [res |-> "idle", card |-> [Powered(card) EXCEPT !.st = "idle", !.left = n]]
      BY <1>3, <2>1 DEF Heard
    <3> QED BY <3>1
  <2>2. CASE cmd = "CRC_ON_OFF"
    BY <1>3, <2>2 DEF Heard, Answer, R1
  <2>3. CASE cmd \notin {"GO_IDLE_STATE", "CRC_ON_OFF"}
    <3>1. o.res \in {"ok", "idle", "illegal"}
      <4>1. \E c : o = Answer(c) \/ o = Illegal(c)
        BY <1>3, <2>3 DEF Heard
      <4> QED BY <4>1 DEF Answer, Illegal, R1
    <3> QED BY <3>1
  <2> QED BY <2>1, <2>2, <2>3
<1> QED BY <1>1, <1>2, <1>3 DEF Outcomes

(* Only a card that is there goes idle, and then it knows nothing of the    *)
(* host (GO_IDLE_STATE).                                                    *)
LEMMA GoIdleAnswer ==
  ASSUME card \in Cards, NEW o \in Outcomes("GO_IDLE_STATE")
  PROVE  \/ o.card = card /\ o.res # "idle"
         \/ /\ o.res = "idle" /\ card.present
            /\ Same(o.card) /\ o.card.st = "idle" /\ ~o.card.told /\ o.card.left <= Slow
<1>1. CASE o \in Spoilt(card, "GO_IDLE_STATE")
  BY <1>1, SpoiltIs
<1>3. CASE o \in Heard(card, "GO_IDLE_STATE", Address) /\ ~card.present
  BY <1>3, SilenceIs
<1>2. CASE o \in Heard(card, "GO_IDLE_STATE", Address) /\ card.present
  <2>1. PICK n \in 1 .. Slow :
          o = [res |-> "idle", card |-> [Powered(card) EXCEPT !.st = "idle", !.left = n]]
    BY <1>2 DEF Heard
  <2>2. n \in Nat \ {0} /\ n <= Slow
    BY SdCardAssumption
  <2>3. o.card = [Powered(card) EXCEPT !.st = "idle", !.left = n] /\ o.res = "idle"
    BY <2>1
  <2> QED BY <1>2, <2>2, <2>3 DEF Powered, Cards, Same
<1> QED BY <1>1, <1>2, <1>3 DEF Outcomes

(* SEND_IF_COND changes no more than what the card knows of the host.       *)
LEMMA IfCondAnswer ==
  ASSUME card \in Cards, NEW o \in Outcomes("SEND_IF_COND")
  PROVE  /\ Same(o.card) /\ o.card.st = card.st /\ o.card.crc = card.crc /\ o.card.left = card.left
<1>1. CASE o \in Spoilt(card, "SEND_IF_COND")
  BY <1>1, SpoiltIs DEF Same
<1>2. CASE o \in Heard(card, "SEND_IF_COND", Address) /\ (~card.present \/ card.st = "native")
  BY <1>2, SilenceIs DEF Same
<1>3. CASE o \in Heard(card, "SEND_IF_COND", Address) /\ ~(~card.present \/ card.st = "native")
  <2>1. o = IF card.kind \in {"SDHC", "LowVoltage"} THEN Answer([card EXCEPT !.told = TRUE]) ELSE Illegal(card)
    BY <1>3 DEF Heard
  <2>2. o.card = card \/ o.card = [card EXCEPT !.told = TRUE]
    BY <2>1 DEF Answer, Illegal
  <2> QED BY <2>2 DEF Cards, Same
<1> QED BY <1>1, <1>2, <1>3 DEF Outcomes

(* A card for high capacities that is idle takes the application command    *)
(* (APP_CMD).                                                               *)
LEMMA AppAnswer ==
  ASSUME Careful, NEW o \in Outcomes("APP_CMD")
  PROVE  /\ o.card = card
         /\ card.st = "idle" /\ card.present /\ HighCapacity => o.res = "idle"
BY DEF Outcomes, Heard, Spoilt, Answer, Illegal, R1, Careful, HighCapacity

(* ok means ready; a card for high capacities is polled (SD_SEND_OP_COND).  *)
LEMMA SdOpCondAnswer ==
  ASSUME Careful, card \in Cards, card.st # "native" => card.present,
         NEW o \in Outcomes("SD_SEND_OP_COND")
  PROVE  /\ o.card \in {card, Poll(card)} /\ (card.st = "native" => o.card = card)
         /\ o.res = "ok" => card.st # "native" /\ o.card.st = "ready"
         /\ o.res = "idle" => o.card.st # "ready"
         /\ card.st # "native" /\ HighCapacity => o.card = Poll(card) /\ o.res = R1(Poll(card))
<1>1. o \in Heard(card, "SD_SEND_OP_COND", Address)
  BY DEF Outcomes, Spoilt, Careful
<1>2. CASE ~card.present \/ card.st = "native"
  BY <1>1, <1>2 DEF Heard
<1>3. CASE card.present /\ card.st # "native"
  <2>1. o = IF card.kind = "MMCA" THEN Illegal(card) ELSE Answer(Poll(card))
    BY <1>1, <1>3 DEF Heard
  <2> QED BY <1>3, <2>1 DEF Illegal, Answer, R1, HighCapacity
<1> QED BY <1>2, <1>3

(* A ready card tells what it is (READ_OCR).                                *)
LEMMA OcrAnswer ==
  ASSUME Careful, NEW o \in Outcomes("READ_OCR")
  PROVE  o.card = card /\ (card.st = "ready" /\ card.present => o.res = "ok")
BY DEF Outcomes, Heard, Spoilt, Answer, R1, Careful

(* ok means ready (SEND_OP_COND).                                           *)
LEMMA OpCondAnswer ==
  ASSUME card \in Cards, NEW o \in Outcomes("SEND_OP_COND")
  PROVE  /\ o.card \in {card, Poll(card)} /\ (card.st = "native" => o.card = card)
         /\ o.res = "ok" => card.st # "native" /\ o.card.st = "ready"
BY DEF Outcomes, Heard, Spoilt, Answer, R1

(* An accepted CRC_ON_OFF turns the check on, any other outcome leaves it.  *)
LEMMA CrcAnswer ==
  ASSUME card \in Cards, NEW o \in Outcomes("CRC_ON_OFF")
  PROVE  \/ o.card = card /\ o.res \notin {"ok", "idle"}
         \/ /\ o.res \in {"ok", "idle"} /\ card.st # "native"
            /\ Same(o.card) /\ o.card.st = card.st /\ o.card.crc /\ o.card.left = card.left
<1>1. CASE o \in Spoilt(card, "CRC_ON_OFF")
  BY <1>1, SpoiltIs
<1>2. CASE o \in Heard(card, "CRC_ON_OFF", Address) /\ (~card.present \/ card.st = "native")
  BY <1>2, SilenceIs
<1>3. CASE o \in Heard(card, "CRC_ON_OFF", Address) /\ ~(~card.present \/ card.st = "native")
  <2>1. o = Answer([card EXCEPT !.crc = TRUE])
    BY <1>3 DEF Heard
  <2>2. o.card = [card EXCEPT !.crc = TRUE] /\ o.res \in {"ok", "idle"}
    BY <2>1 DEF Answer, R1
  <2> QED BY <1>3, <2>2 DEF Cards, Same
<1> QED BY <1>1, <1>2, <1>3 DEF Outcomes

(* The other commands leave the card, and only a ready one says ok.         *)
LEMMA OtherAnswer ==
  ASSUME card \in Cards, NEW cmd \in {"SET_BLOCKLEN", "READ_SINGLE_BLOCK", "WRITE_BLOCK"},
         NEW o \in Outcomes(cmd)
  PROVE  o.card = card /\ (o.res = "ok" => card.st = "ready")
<1>1. CASE o \in Spoilt(card, cmd)
  BY <1>1, SpoiltIs
<1>2. CASE o \in Heard(card, cmd, Address) /\ (~card.present \/ card.st = "native")
  BY <1>2, SilenceIs
<1>3. CASE o \in Heard(card, cmd, Address) /\ ~(~card.present \/ card.st = "native")
  <2>1. o = Answer(card) \/ o = Illegal(card)
    BY <1>3 DEF Heard
  <2> QED BY <2>1 DEF Answer, Illegal, R1
<1> QED BY <1>1, <1>2, <1>3 DEF Outcomes

-----------------------------------------------------------------------------
(* Steps that keep the invariant.                                            *)

(* The constants, as the provers need them.                                 *)
LEMMA ConstantsAre ==
  /\ SectorNo = 0 .. Sectors - 1 /\ Sectors \in Nat \ {0} /\ RETRIES \in Nat \ {0}
  /\ Half \in Nat \ {0} /\ Slow \in Nat \ {0}
BY SdCardAssumption DEF SectorNo

(* A command is sent again. *)
LEMMA Resent ==
  ASSUME IInv, card' = card, UNCHANGED <<data, buf>>, SendAgain
  PROVE  IInv'
BY DEF IInv, TypeOk, CardOk, BringUpOk, Started, CallOk, SendAgain, Unsettled, Fits, HighCapacity, NoCall

(* A driver that is bringing a card up goes on to the next command or fails.     *)
LEMMA BringUpStep ==
  ASSUME IInv, pc \in BringUp, Same(card'), UNCHANGED <<data, buf, call, mounted>>,
         ~card'.present => card'.st = "native",
         cardtype' \in {"MMCSD", "SDHC"}, ~HighCapacity => cardtype' = "MMCSD",
         disk_state' \in {"ERROR", disk_state},
         pc' \in BringUp \cup {"idle"}, tries' \in Int, t' \in Nat, errors' \in Nat, bad' = bad,
         BringUpOk'
  PROVE  IInv'
<1>1. HighCapacity' <=> HighCapacity
  BY DEF HighCapacity, Same
<1>2. TypeOk'
  BY DEF IInv, TypeOk, Same, BringUp, Places
<1>3. CardOk'
  <2>1. ~mounted /\ disk_state # "OK" /\ ~card'.busy
    BY DEF IInv, CardOk, BringUp, Same
  <2> QED BY <1>1, <2>1 DEF CardOk, BringUp, Reading, Writing
<1>4. CallOk'
  BY DEF IInv, CallOk, BringUp, Reading, Writing
<1> QED BY <1>2, <1>3, <1>4 DEF IInv

(* GO_IDLE_STATE: the card forgets all, and its start-up is within Half     *)
(* polls.                                                                   *)
LEMMA GoIdleStep ==
  ASSUME Careful, IInv, GoIdle
  PROVE  IInv'
<1>0. card \in Cards /\ pc = "GO_IDLE_STATE" /\ "GO_IDLE_STATE" \in Places /\ "GO_IDLE_STATE" \in BringUp /\ t \in Nat /\ tries \in Int
      /\ cardtype \in {"MMCSD", "SDHC"} /\ (~card.present => card.st = "native")
      /\ (~HighCapacity => cardtype = "MMCSD") /\ BringUpOk
  BY DEF IInv, TypeOk, CardOk, GoIdle, Places, BringUp
<1>1. PICK o \in Outcomes("GO_IDLE_STATE") :
        /\ card' = o.card /\ UNCHANGED <<data, buf>>
        /\ IF o.res \in {"crc", "none"} /\ errors + 1 < RETRIES THEN SendAgain
           ELSE /\ errors' = 0
                /\ CASE o.res = "idle" -> GoOn("SEND_IF_COND") /\ tries' = 0 /\ UNCHANGED <<disk_state, cardtype>>
                     [] o.res = "none" \/ (o.res # "idle" /\ tries = 1) ->
                          Return("NOINIT") /\ tries' = 0 /\ UNCHANGED <<disk_state, cardtype>>
                     [] OTHER -> /\ GoOn(pc) /\ tries' = tries - 1
                                 /\ disk_state' = "ERROR" /\ cardtype' = "MMCSD"
                /\ UNCHANGED <<mounted, t, bad, call>>
  BY <1>0 DEF GoIdle, send_command, Outcomes
<1>2. CASE o.res \in {"crc", "none"} /\ errors + 1 < RETRIES
  <2>1. card' = card
    BY <1>0, <1>1, <1>2, Lost
  <2> QED BY <1>1, <1>2, <2>1, Resent
<1>3. CASE ~(o.res \in {"crc", "none"} /\ errors + 1 < RETRIES)
  <2>0. /\ errors' = 0
        /\ UNCHANGED <<mounted, t, bad, call>>
        /\ \/ /\ o.res = "idle" /\ pc' = "SEND_IF_COND"
              /\ tries' = 0 /\ UNCHANGED <<disk_state, cardtype>>
           \/ /\ o.res # "idle" /\ pc' \in {"idle", "GO_IDLE_STATE"} /\ tries' \in {0, tries - 1}
              /\ disk_state' \in {disk_state, "ERROR"} /\ cardtype' \in {cardtype, "MMCSD"}
    BY <1>0, <1>1, <1>3 DEF GoOn, Return, Quiet
  <2>1. CASE o.res = "idle"
    <3>1. Same(card') /\ card'.st = "idle" /\ ~card'.told /\ card'.left <= Slow /\ card'.present
      BY <1>0, <1>1, <2>1, GoIdleAnswer DEF Same
    <3>2. BringUpOk'
      BY <2>0, <2>1, <3>1, ConstantsAre DEF BringUpOk, Started, Careful, Same, Cards
    <3> QED BY <1>0, <1>1, <2>0, <2>1, <3>1, <3>2, BringUpStep DEF BringUp
  <2>2. CASE o.res # "idle"
    <3>1. card' = card
      BY <1>0, <1>1, <2>2, GoIdleAnswer
    <3>2. BringUpOk'
      BY <2>0, <2>2 DEF BringUpOk, Started
    <3> QED BY <1>0, <1>1, <2>0, <2>2, <3>1, <3>2, BringUpStep DEF BringUp, Same
  <2> QED BY <2>1, <2>2
<1> QED BY <1>2, <1>3

(* SEND_IF_COND: the card may have learnt of the host.                      *)
LEMMA SendIfCondStep ==
  ASSUME Careful, IInv, SendIfCond
  PROVE  IInv'
<1>0. card \in Cards /\ pc = "SEND_IF_COND" /\ "SEND_IF_COND" \in Places /\ "SEND_IF_COND" \in BringUp /\ t \in Nat /\ tries \in Int
      /\ cardtype \in {"MMCSD", "SDHC"} /\ (~card.present => card.st = "native")
      /\ (~HighCapacity => cardtype = "MMCSD") /\ BringUpOk
  BY DEF IInv, TypeOk, CardOk, SendIfCond, Places, BringUp
<1>1. PICK o \in Outcomes("SEND_IF_COND") :
        /\ card' = o.card /\ UNCHANGED <<data, buf>>
        /\ IF o.res \in {"crc", "none"} /\ errors + 1 < RETRIES THEN SendAgain
           ELSE /\ errors' = 0
                /\ IF o.res = "idle" /\ card.kind = "LowVoltage" THEN Return("NODISK") ELSE GoOn("APP_CMD")
                /\ t' = 0 /\ Quiet
  BY <1>0 DEF SendIfCond, send_command, Outcomes
<1>2. CASE o.res \in {"crc", "none"} /\ errors + 1 < RETRIES
  <2>1. card' = card
    BY <1>0, <1>1, <1>2, Lost
  <2> QED BY <1>1, <1>2, <2>1, Resent
<1>3. CASE ~(o.res \in {"crc", "none"} /\ errors + 1 < RETRIES)
  <2>0. /\ errors' = 0
        /\ t' = 0 /\ UNCHANGED <<disk_state, cardtype, mounted, tries, bad, call>>
        /\ pc' \in {"idle", "APP_CMD"}
    BY <1>0, <1>1, <1>3 DEF GoOn, Return, Quiet
  <2>1. Same(card') /\ card'.st = card.st /\ card'.left = card.left /\ card'.present = card.present
    BY <1>0, <1>1, IfCondAnswer DEF Same
  <2>2. BringUpOk'
    BY <1>0, <2>0, <2>1, ConstantsAre DEF BringUpOk, Started, Same, Cards
  <2> QED BY <1>0, <1>1, <2>0, <2>1, <2>2, BringUpStep DEF BringUp
<1> QED BY <1>2, <1>3

(* APP_CMD: the way of an MMC is never taken by a card for high capacities. *)
LEMMA AppCmdStep ==
  ASSUME Careful, IInv, AppCmd
  PROVE  IInv'
<1>0. card \in Cards /\ pc = "APP_CMD" /\ "APP_CMD" \in Places /\ "APP_CMD" \in BringUp /\ t \in Nat /\ tries \in Int
      /\ cardtype \in {"MMCSD", "SDHC"} /\ (~card.present => card.st = "native")
      /\ (~HighCapacity => cardtype = "MMCSD") /\ BringUpOk
  BY DEF IInv, TypeOk, CardOk, AppCmd, Places, BringUp
<1>1. PICK o \in Outcomes("APP_CMD") :
        /\ card' = o.card /\ UNCHANGED <<data, buf>>
        /\ IF o.res \in {"crc", "none"} /\ errors + 1 < RETRIES THEN SendAgain
           ELSE /\ errors' = 0
                /\ IF o.res = "idle" THEN GoOn("SD_SEND_OP_COND") /\ t' = t
                                   ELSE GoOn("SEND_OP_COND") /\ t' = 0
                /\ Quiet
  BY <1>0 DEF AppCmd, send_command, Outcomes
<1>2. CASE o.res \in {"crc", "none"} /\ errors + 1 < RETRIES
  <2>1. card' = card
    BY <1>0, <1>1, <1>2, Lost
  <2> QED BY <1>1, <1>2, <2>1, Resent
<1>3. CASE ~(o.res \in {"crc", "none"} /\ errors + 1 < RETRIES)
  <2>0. /\ errors' = 0
        /\ UNCHANGED <<disk_state, cardtype, mounted, tries, bad, call>>
        /\ \/ o.res = "idle" /\ pc' = "SD_SEND_OP_COND" /\ t' = t
           \/ o.res # "idle" /\ pc' = "SEND_OP_COND" /\ t' = 0
    BY <1>0, <1>1, <1>3 DEF GoOn, Return, Quiet
  <2>1. card' = card /\ (card.st = "idle" /\ HighCapacity => o.res = "idle")
    BY <1>0, <1>1, AppAnswer
  <2>2. BringUpOk'
    BY <1>0, <2>0, <2>1 DEF BringUpOk, Started, HighCapacity
  <2> QED BY <1>0, <1>1, <2>0, <2>1, <2>2, BringUpStep DEF BringUp, Same
<1> QED BY <1>2, <1>3

(* SD_SEND_OP_COND: a told card is ready before the driver has polled for   *)
(* half a second.                                                           *)
LEMMA SdSendOpCondStep ==
  ASSUME Careful, IInv, SdSendOpCond
  PROVE  IInv'
<1>0. card \in Cards /\ pc = "SD_SEND_OP_COND" /\ "SD_SEND_OP_COND" \in Places /\ "SD_SEND_OP_COND" \in BringUp /\ t \in Nat /\ tries \in Int
      /\ cardtype \in {"MMCSD", "SDHC"} /\ (~card.present => card.st = "native")
      /\ (~HighCapacity => cardtype = "MMCSD") /\ BringUpOk
  BY DEF IInv, TypeOk, CardOk, SdSendOpCond, Places, BringUp
<1>1. PICK o \in Outcomes("SD_SEND_OP_COND") :
        /\ card' = o.card /\ UNCHANGED <<data, buf>>
        /\ IF o.res \in {"crc", "none"} /\ errors + 1 < RETRIES THEN SendAgain
           ELSE /\ errors' = 0
                /\ CASE o.res = "ok" -> GoOn("READ_OCR") /\ t' = 0
                     [] o.res = "idle" /\ t + 1 < Half -> GoOn("APP_CMD") /\ t' = t + 1
                     [] OTHER -> GoOn("SEND_OP_COND") /\ t' = 0
                /\ Quiet
  BY <1>0 DEF SdSendOpCond, send_command, Outcomes
<1>2. CASE o.res \in {"crc", "none"} /\ errors + 1 < RETRIES
  <2>1. card' = card
    BY <1>0, <1>1, <1>2, Lost
  <2> QED BY <1>1, <1>2, <2>1, Resent
<1>3. CASE ~(o.res \in {"crc", "none"} /\ errors + 1 < RETRIES)
  <2>0. /\ errors' = 0
        /\ UNCHANGED <<disk_state, cardtype, mounted, tries, bad, call>>
        /\ \/ o.res = "ok" /\ pc' = "READ_OCR" /\ t' = 0
           \/ o.res = "idle" /\ t + 1 < Half /\ pc' = "APP_CMD" /\ t' = t + 1
           \/ o.res # "ok" /\ ~(o.res = "idle" /\ t + 1 < Half) /\ pc' = "SEND_OP_COND" /\ t' = 0
    BY <1>0, <1>1, <1>3 DEF GoOn, Return, Quiet
  <2>1. /\ card' \in {card, Poll(card)} /\ (card.st = "native" => card' = card)
        /\ o.res = "ok" => card.st # "native" /\ card'.st = "ready"
        /\ o.res = "idle" => card'.st # "ready"
        /\ card.st # "native" /\ HighCapacity => card' = Poll(card) /\ o.res = R1(Poll(card))
    BY <1>0, <1>1, SdOpCondAnswer
  <2>2. /\ Same(card') /\ card'.told = card.told /\ card'.crc = card.crc
        /\ card.st = "native" <=> card'.st = "native"
    BY <1>0, <2>1, PollIs DEF Same
  <2>3. BringUpOk'
    <3>1. CASE card.st = "native"
      BY <2>0, <2>2, <3>1 DEF BringUpOk
    <3>2. CASE card.st # "native" /\ HighCapacity
      <4>1. card.st = "idle" /\ (card.told => card.left + t <= Half) /\ card' = Poll(card)
            /\ o.res = R1(card')
        BY <1>0, <2>1, <3>2 DEF BringUpOk, Started
      <4>2. ~card.told => card' = card
        BY <3>2, <4>1, PollIs, <1>0
      <4>3. card.told /\ card'.st # "ready" => card'.left = card.left - 1 /\ card.left # 1
        BY <1>0, <3>2, <4>1, PollIs
      <4>4. card'.st \in {"idle", "ready"} /\ card.left \in Nat /\ card'.left \in Nat /\ Half \in Nat
        BY <1>0, <4>1, PollIs, ConstantsAre DEF Cards, Same
      <4> QED BY <1>0, <2>0, <2>1, <2>2, <3>2, <4>1, <4>2, <4>3, <4>4 DEF BringUpOk, Started, R1, HighCapacity, Same
    <3>3. CASE ~HighCapacity
      BY <2>0, <2>1, <2>2, <3>3 DEF BringUpOk, Started, HighCapacity, Same, Cards
    <3> QED BY <3>1, <3>2, <3>3
  <2> QED BY <1>0, <1>1, <2>0, <2>1, <2>2, <2>3, BringUpStep DEF BringUp, Same
<1> QED BY <1>2, <1>3

(* READ_OCR: from here cardtype says what the card is.                      *)
LEMMA ReadOcrStep ==
  ASSUME Careful, IInv, ReadOcr
  PROVE  IInv'
<1>0. card \in Cards /\ pc = "READ_OCR" /\ "READ_OCR" \in Places /\ "READ_OCR" \in BringUp /\ t \in Nat /\ tries \in Int
      /\ cardtype \in {"MMCSD", "SDHC"} /\ (~card.present => card.st = "native")
      /\ (~HighCapacity => cardtype = "MMCSD") /\ BringUpOk
  BY DEF IInv, TypeOk, CardOk, ReadOcr, Places, BringUp
<1>1. PICK o \in Outcomes("READ_OCR") :
        /\ card' = o.card /\ UNCHANGED <<data, buf>>
        /\ IF o.res \in {"crc", "none"} /\ errors + 1 < RETRIES THEN SendAgain
           ELSE /\ errors' = 0
                /\ GoOn("SEND_OP_COND") /\ t' = 0
                /\ cardtype' = IF o.res \in {"ok", "idle"} /\ card.kind = "SDHC" THEN "SDHC" ELSE cardtype
                /\ UNCHANGED <<disk_state, mounted, tries, bad, call>>
  BY <1>0 DEF ReadOcr, send_command, Outcomes
<1>2. CASE o.res \in {"crc", "none"} /\ errors + 1 < RETRIES
  <2>1. card' = card
    BY <1>0, <1>1, <1>2, Lost
  <2> QED BY <1>1, <1>2, <2>1, Resent
<1>3. CASE ~(o.res \in {"crc", "none"} /\ errors + 1 < RETRIES)
  <2>0. /\ errors' = 0
        /\ pc' = "SEND_OP_COND" /\ t' = 0 /\ UNCHANGED <<disk_state, mounted, tries, bad, call>>
        /\ cardtype' = IF o.res \in {"ok", "idle"} /\ HighCapacity THEN "SDHC" ELSE cardtype
    BY <1>0, <1>1, <1>3 DEF GoOn, HighCapacity
  <2>1. card' = card /\ (card.st = "ready" /\ card.present => o.res = "ok")
    BY <1>0, <1>1, OcrAnswer
  <2>2. BringUpOk'
    BY <1>0, <2>0, <2>1 DEF BringUpOk, Started, HighCapacity
  <2> QED BY <1>0, <1>1, <2>0, <2>1, <2>2, BringUpStep DEF BringUp, Same
<1> QED BY <1>2, <1>3

(* SEND_OP_COND: what passes is ready.                                      *)
LEMMA SendOpCondStep ==
  ASSUME Careful, IInv, SendOpCond
  PROVE  IInv'
<1>0. card \in Cards /\ pc = "SEND_OP_COND" /\ "SEND_OP_COND" \in Places /\ "SEND_OP_COND" \in BringUp /\ t \in Nat /\ tries \in Int
      /\ cardtype \in {"MMCSD", "SDHC"} /\ (~card.present => card.st = "native")
      /\ (~HighCapacity => cardtype = "MMCSD") /\ BringUpOk
  BY DEF IInv, TypeOk, CardOk, SendOpCond, Places, BringUp
<1>1. PICK o \in Outcomes("SEND_OP_COND") :
        /\ card' = o.card /\ UNCHANGED <<data, buf>>
        /\ IF o.res \in {"crc", "none"} /\ errors + 1 < RETRIES THEN SendAgain
           ELSE /\ errors' = 0
                /\ CASE o.res = "ok" -> GoOn("CRC_ON_OFF") /\ t' = 0
                     [] o.res \notin {"ok", "none"} /\ t + 1 < Half -> GoOn(pc) /\ t' = t + 1
                     [] OTHER -> Return("NOINIT") /\ t' = 0
                /\ Quiet
  BY <1>0 DEF SendOpCond, send_command, Outcomes
<1>2. CASE o.res \in {"crc", "none"} /\ errors + 1 < RETRIES
  <2>1. card' = card
    BY <1>0, <1>1, <1>2, Lost
  <2> QED BY <1>1, <1>2, <2>1, Resent
<1>3. CASE ~(o.res \in {"crc", "none"} /\ errors + 1 < RETRIES)
  <2>0. /\ errors' = 0
        /\ UNCHANGED <<disk_state, cardtype, mounted, tries, bad, call>>
        /\ \/ o.res = "ok" /\ pc' = "CRC_ON_OFF" /\ t' = 0
           \/ pc' = pc /\ t' = t + 1
           \/ pc' = "idle" /\ t' = 0
    BY <1>0, <1>1, <1>3 DEF GoOn, Return, Quiet
  <2>1. /\ card' \in {card, Poll(card)} /\ (card.st = "native" => card' = card)
        /\ o.res = "ok" => card.st # "native" /\ card'.st = "ready"
    BY <1>0, <1>1, OpCondAnswer
  <2>2. /\ Same(card') /\ card'.told = card.told /\ card'.crc = card.crc
        /\ card'.st \in {card.st, "ready"} /\ (card.st = "native" <=> card'.st = "native")
        /\ HighCapacity /\ ~card.told => card' = card
        /\ HighCapacity' = HighCapacity
    BY <1>0, <2>1, PollIs DEF Same, HighCapacity
  <2>3. BringUpOk'
    BY <1>0, <2>0, <2>1, <2>2 DEF BringUpOk, Started, Fits
  <2> QED BY <1>0, <1>1, <2>0, <2>1, <2>2, <2>3, BringUpStep DEF BringUp, Same
<1> QED BY <1>2, <1>3

(* CRC_ON_OFF: what passes checks CRCs.                                     *)
LEMMA CrcOnStep ==
  ASSUME Careful, IInv, CrcOn
  PROVE  IInv'
<1>0. card \in Cards /\ pc = "CRC_ON_OFF" /\ "CRC_ON_OFF" \in Places /\ "CRC_ON_OFF" \in BringUp /\ t \in Nat /\ tries \in Int
      /\ cardtype \in {"MMCSD", "SDHC"} /\ (~card.present => card.st = "native")
      /\ (~HighCapacity => cardtype = "MMCSD") /\ BringUpOk
  BY DEF IInv, TypeOk, CardOk, CrcOn, Places, BringUp
<1>1. PICK o \in Outcomes("CRC_ON_OFF") :
        /\ card' = o.card /\ UNCHANGED <<data, buf>>
        /\ IF o.res \in {"crc", "none"} /\ errors + 1 < RETRIES THEN SendAgain
           ELSE /\ errors' = 0
                /\ IF o.res \in {"ok", "idle"} THEN GoOn("SET_BLOCKLEN") ELSE Return("NODISK")
                /\ t' = t /\ Quiet
  BY <1>0 DEF CrcOn, send_command, Outcomes
<1>2. CASE o.res \in {"crc", "none"} /\ errors + 1 < RETRIES
  <2>1. card' = card
    BY <1>0, <1>1, <1>2, Lost
  <2> QED BY <1>1, <1>2, <2>1, Resent
<1>3. CASE ~(o.res \in {"crc", "none"} /\ errors + 1 < RETRIES)
  <2>0. /\ errors' = 0
        /\ t' = t /\ UNCHANGED <<disk_state, cardtype, mounted, tries, bad, call>>
        /\ \/ o.res \in {"ok", "idle"} /\ pc' = "SET_BLOCKLEN"
           \/ o.res \notin {"ok", "idle"} /\ pc' = "idle"
    BY <1>0, <1>1, <1>3 DEF GoOn, Return, Quiet
  <2>1. CASE o.res \in {"ok", "idle"}
    <3>1. Same(card') /\ card'.st = card.st /\ card'.crc /\ card'.present = card.present
      BY <1>0, <1>1, <2>1, CrcAnswer DEF Same
    <3>2. BringUpOk'
      BY <1>0, <2>0, <2>1, <3>1 DEF BringUpOk, Started, Fits, HighCapacity, Same
    <3> QED BY <1>0, <1>1, <2>0, <2>1, <3>1, <3>2, BringUpStep DEF BringUp
  <2>2. CASE o.res \notin {"ok", "idle"}
    <3>1. card' = card
      BY <1>0, <1>1, <2>2, CrcAnswer
    <3>2. BringUpOk'
      BY <2>0, <2>2 DEF BringUpOk, Started
    <3> QED BY <1>0, <1>1, <2>0, <2>2, <3>1, <3>2, BringUpStep DEF BringUp, Same
  <2> QED BY <2>1, <2>2
<1> QED BY <1>2, <1>3

(* SET_BLOCKLEN: what passes is all there.                                  *)
LEMMA SetBlockLenStep ==
  ASSUME Careful, IInv, SetBlockLen
  PROVE  IInv'
<1>0. card \in Cards /\ pc = "SET_BLOCKLEN" /\ "SET_BLOCKLEN" \in Places /\ "SET_BLOCKLEN" \in BringUp /\ t \in Nat /\ tries \in Int
      /\ cardtype \in {"MMCSD", "SDHC"} /\ (~card.present => card.st = "native")
      /\ (~HighCapacity => cardtype = "MMCSD") /\ BringUpOk
  BY DEF IInv, TypeOk, CardOk, SetBlockLen, Places, BringUp
<1>1. PICK o \in Outcomes("SET_BLOCKLEN") :
        /\ card' = o.card /\ UNCHANGED <<data, buf>>
        /\ IF o.res \in {"crc", "none"} /\ errors + 1 < RETRIES THEN SendAgain
           ELSE /\ errors' = 0
                /\ IF o.res = "ok" THEN GoOn("finish") ELSE Return("NOINIT")
                /\ t' = t /\ Quiet
  BY <1>0 DEF SetBlockLen, send_command, Outcomes
<1>2. CASE o.res \in {"crc", "none"} /\ errors + 1 < RETRIES
  <2>1. card' = card
    BY <1>0, <1>1, <1>2, Lost
  <2> QED BY <1>1, <1>2, <2>1, Resent
<1>3. CASE ~(o.res \in {"crc", "none"} /\ errors + 1 < RETRIES)
  <2>0. /\ errors' = 0
        /\ t' = t /\ UNCHANGED <<disk_state, cardtype, mounted, tries, bad, call>>
        /\ (o.res = "ok" /\ pc' = "finish") \/ pc' = "idle"
    BY <1>0, <1>1, <1>3 DEF GoOn, Return, Quiet
  <2>1. card' = card /\ (o.res = "ok" => card.st = "ready")
    BY <1>0, <1>1, OtherAnswer
  <2>2. BringUpOk'
    BY <1>0, <2>0, <2>1 DEF BringUpOk, Started, Fits, HighCapacity
  <2> QED BY <1>0, <1>1, <2>0, <2>1, <2>2, BringUpStep DEF BringUp, Same
<1> QED BY <1>2, <1>3

(* The calls begin.                                                          *)
LEMMA StartInitStep ==
  ASSUME IInv, StartInit
  PROVE  IInv'
<1>1. TypeOk'
  <2>1. card' \in Cards /\ DOMAIN data' = SectorNo /\ t' \in Nat /\ errors' \in Nat /\ bad' \in Nat
    BY DEF IInv, TypeOk, StartInit
  <2>2. DOMAIN buf' = 0 .. 1 /\ mounted' \in BOOLEAN /\ call' \in Calls
    BY DEF StartInit, NoCall, Calls
  <2>3. pc' \in Places /\ cardtype' \in {"MMCSD", "SDHC"} /\ tries' \in Int
        /\ disk_state' \in {"OK", "ERROR", "REMOVED", "CHANGED"}
    BY DEF IInv, TypeOk, StartInit, GoOn, Return, Places
  <2> QED BY <2>1, <2>2, <2>3 DEF TypeOk
<1>2. CardOk'
  BY DEF IInv, TypeOk, CardOk, StartInit, GoOn, Return, BringUp, Reading, Writing, HighCapacity
<1>3. BringUpOk'
  BY DEF StartInit, GoOn, Return, BringUpOk, Started
<1>4. CallOk'
  BY DEF StartInit, GoOn, Return, CallOk, BringUp, Reading, Writing
<1> QED BY <1>1, <1>2, <1>3, <1>4 DEF IInv

(* The card is declared usable.                                             *)
LEMMA FinishStep ==
  ASSUME IInv, Finish
  PROVE  IInv'
<1>1. TypeOk'
  BY DEF IInv, TypeOk, Finish, Return, Places, progress
<1>2. card.st = "ready" /\ card.present /\ card.crc /\ Fits
  BY DEF IInv, BringUpOk, CardOk, Finish
<1>3. CardOk'
  BY <1>2 DEF IInv, CardOk, Finish, Return, Status, BringUp, Reading, Writing, HighCapacity, Fits
<1>4. BringUpOk'
  BY DEF Finish, Return, BringUpOk, Started
<1>5. CallOk'
  BY DEF Finish, Return, CallOk, BringUp, Reading, Writing
<1> QED BY <1>1, <1>3, <1>4, <1>5 DEF IInv

(* A step that leaves the card and what the driver takes it for as they are,     *)
(* while no card is brought up.                                              *)
LEMMA MovingStep ==
  ASSUME IInv, pc # "busy" \/ ~card.busy, UNCHANGED <<card, cardtype, mounted, tries, t>>,
         mounted, pc' \in Reading \cup Writing \cup {"idle"}, disk_state' \in {"ERROR", disk_state},
         errors' \in Nat, bad' \in Nat, call' \in Calls,
         DOMAIN data' = SectorNo, DOMAIN buf' = 0 .. 1,
         CallOk'
  PROVE  IInv'
<1>1. TypeOk'
  BY DEF IInv, TypeOk, Reading, Writing, Places
<1>2. CardOk'
  <2>1. ~card.busy
    BY DEF IInv, CardOk
  <2> QED BY <2>1 DEF IInv, CardOk, Reading, Writing, BringUp, Fits, HighCapacity
<1>3. BringUpOk'
  BY DEF BringUpOk, Started, Reading, Writing
<1> QED BY <1>1, <1>2, <1>3 DEF IInv

(* sd_read() is called.                                                     *)
LEMMA StartReadStep ==
  ASSUME IInv, StartRead
  PROVE  IInv'
<1>1. PICK s \in SectorNo, n \in 1 .. 2 :
        s + n <= Sectors /\ call' = [op |-> "read", sector |-> s, count |-> n, sec |-> 0]
  BY DEF StartRead
<1>2. s \in Nat /\ n \in Nat /\ 0 < n /\ n <= 2
  BY ConstantsAre
<1>3. CallOk'
  BY <1>1, <1>2 DEF StartRead, GoOn, CallOk, Reading, Writing, BringUp
<1> QED BY <1>1, <1>2, <1>3, MovingStep
        DEF StartRead, GoOn, Calls, IInv, TypeOk, Reading

(* sd_write() is called, and refuses a locked card.                         *)
LEMMA StartWriteStep ==
  ASSUME IInv, StartWrite
  PROVE  IInv'
<1>1. PICK s \in SectorNo, n \in 1 .. 2 :
        s + n <= Sectors /\ call' = [op |-> "write", sector |-> s, count |-> n, sec |-> 0]
  BY DEF StartWrite, WriteCalled
<1>2. s \in Nat /\ n \in Nat /\ 0 < n /\ n <= 2
  BY ConstantsAre
<1>3. pc' \in {"idle", "WRITE_BLOCK"} /\ (pc' = "WRITE_BLOCK" => ~card.wp)
  BY DEF StartWrite, GoOn, Return
<1>4. CallOk'
  BY <1>1, <1>2, <1>3 DEF StartWrite, WriteCalled, CallOk, Reading, Writing, BringUp
<1> QED BY <1>1, <1>2, <1>3, <1>4, MovingStep
        DEF StartWrite, WriteCalled, Calls, IInv, TypeOk, Writing

(* The command of a block has been answered.                                  *)
LEMMA BlockCommandStep ==
  ASSUME IInv, NEW accepted,
         \/ pc = "READ_SINGLE_BLOCK" /\ accepted = "receive"
         \/ pc = "WRITE_BLOCK" /\ accepted = "send",
         BlockCommand(accepted)
  PROVE  IInv'
<1>0. /\ pc \in {"SET_BLOCKLEN", "READ_SINGLE_BLOCK", "WRITE_BLOCK"} /\ pc \in Places
      /\ pc \in Reading \cup Writing /\ mounted /\ card \in Cards /\ CallOk
  BY DEF IInv, TypeOk, CardOk, Reading, Writing
<1>1. PICK o \in Outcomes(pc) :
        /\ card' = o.card /\ UNCHANGED <<data, buf>>
        /\ IF o.res \in {"crc", "none"} /\ errors + 1 < RETRIES THEN SendAgain
           ELSE /\ errors' = 0
                /\ IF o.res = "ok" THEN GoOn(accepted) /\ UNCHANGED disk_state ELSE GiveUp
                /\ UNCHANGED <<cardtype, mounted, tries, t, bad, call>>
  BY DEF BlockCommand, send_command, Outcomes
<1>2. card' = card
  BY <1>0, <1>1, OtherAnswer
<1>3. CASE o.res \in {"crc", "none"} /\ errors + 1 < RETRIES
  BY <1>1, <1>2, <1>3, Resent
<1>4. CASE ~(o.res \in {"crc", "none"} /\ errors + 1 < RETRIES)
  <2>1. /\ errors' = 0 /\ UNCHANGED <<cardtype, mounted, tries, t, bad, call>>
        /\ pc' \in {accepted, "idle"} /\ disk_state' \in {"ERROR", disk_state}
    BY <1>1, <1>4 DEF GoOn, GiveUp, Return
  <2>2. CallOk'
    BY <1>0, <1>1, <1>2, <2>1 DEF CallOk, Reading, Writing, BringUp
  <2>3. bad \in Nat /\ call \in Calls /\ DOMAIN data = SectorNo /\ DOMAIN buf = 0 .. 1
    BY DEF IInv, TypeOk
  <2> QED BY <1>0, <1>1, <1>2, <2>1, <2>2, <2>3, MovingStep DEF Reading, Writing
<1> QED BY <1>3, <1>4

(* The sector that the card takes the address for is the one that was meant.      *)
LEMMA HereIs ==
  ASSUME card.kind = "SDHC" <=> cardtype = "SDHC", call.sector \in Nat, call.sec \in Nat
  PROVE  Here = call.sector + call.sec
<1>1. CASE cardtype = "SDHC"
  BY <1>1 DEF Here, Address, Meant
<1>2. CASE cardtype # "SDHC"
  <2>1. Here = (call.sector * 512 + call.sec * 512) \div 512
    BY <1>2 DEF Here, Address, Meant
  <2>2. \A a, b \in Nat : (a * 512 + b * 512) \div 512 = a + b
    BY SMT
  <2> QED BY <2>1, <2>2
<1> QED BY <1>1, <1>2

(* What a block is to a call that is under way.                                *)
LEMMA BlockIs ==
  ASSUME IInv, pc \in Reading \cup Writing
  PROVE  /\ call \in Calls /\ call.sec \in Nat /\ call.count \in Nat /\ call.sector \in Nat
         /\ call.sec < call.count /\ call.count <= 2 /\ call.sec \in 0 .. 1
         /\ call.sector + call.sec \in SectorNo /\ call.sector + call.sec \in Asked
         /\ Asked \subseteq SectorNo /\ mounted
         /\ Arrives => Here = call.sector + call.sec /\ card.crc
<1>1. /\ call \in Calls /\ call.sec < call.count /\ call.count <= 2
      /\ call.sector + call.count <= Sectors /\ mounted
  BY DEF IInv, TypeOk, CallOk, CardOk
<1>2. call.sec \in Nat /\ call.count \in Nat /\ call.sector \in Nat
  BY <1>1 DEF Calls
<1>3. call.sector + call.sec \in SectorNo /\ call.sector + call.sec \in Asked /\ Asked \subseteq SectorNo
  BY <1>1, <1>2, ConstantsAre DEF Asked
<1>4. ASSUME Arrives PROVE Here = call.sector + call.sec /\ card.crc
  <2>1. card.crc /\ Fits
    BY <1>1, <1>4 DEF IInv, CardOk, Arrives
  <2> QED BY <1>2, <2>1, HereIs DEF Fits, HighCapacity
<1>5. call.sec \in 0 .. 1
  BY <1>1, <1>2
<1> QED BY <1>1, <1>2, <1>3, <1>4, <1>5

(* A block arrives: it is in the buffer where it belongs, and a read that returns *)
(* with it has brought all of its sectors.                                    *)
LEMMA ReceiveBlockStep ==
  ASSUME IInv, ReceiveBlock
  PROVE  IInv' /\ (pc' = "idle" => \A s \in Asked : buf'[s - call.sector] = data[s])
<1>0. pc \in Reading \cup Writing /\ pc \in Reading /\ pc # "busy" /\ Arrives
  BY DEF ReceiveBlock, Reading
<1>1. /\ call \in Calls /\ call.sec \in Nat /\ call.count \in Nat /\ call.sector \in Nat
      /\ call.sec < call.count /\ call.count <= 2 /\ call.sec \in 0 .. 1
      /\ mounted /\ Here = call.sector + call.sec
  BY <1>0, BlockIs
<1>2. /\ call.op = "read" /\ call.sector + call.count <= Sectors
      /\ \A i \in 0 .. call.sec - 1 : buf[i] = data[call.sector + i]
      /\ DOMAIN buf = 0 .. 1 /\ DOMAIN data = SectorNo /\ errors \in Nat
  BY <1>0 DEF IInv, CallOk, TypeOk
<1>3. /\ buf' = [buf EXCEPT ![call.sec] = data[Here]] /\ bad' = 0
      /\ UNCHANGED <<card, data, disk_state, cardtype, mounted, tries, t, errors>>
      /\ \/ call.sec + 1 < call.count /\ pc' = "READ_SINGLE_BLOCK" /\ call' = [call EXCEPT !.sec = @ + 1]
         \/ ~(call.sec + 1 < call.count) /\ pc' = "idle" /\ UNCHANGED call
  BY DEF ReceiveBlock, NextBlock, GoOn, Return, Elsewhere
<1>4. \A i \in 0 .. call.sec : buf'[i] = data[call.sector + i]
  BY <1>1, <1>2, <1>3
<1>5. pc' = "idle" => \A s \in Asked : buf'[s - call.sector] = data[s]
  <2> SUFFICES ASSUME pc' = "idle", NEW s \in Asked PROVE buf'[s - call.sector] = data[s]
    OBVIOUS
  <2>1. s - call.sector \in 0 .. call.sec /\ call.sector + (s - call.sector) = s
    BY <1>1, <1>3 DEF Asked
  <2> QED BY <1>4, <2>1
<1>6. CASE pc' = "idle"
  <2>1. CallOk'
    BY <1>6 DEF CallOk, Reading, Writing, BringUp
  <2> QED BY <1>0, <1>1, <1>2, <1>3, <1>5, <1>6, <2>1, MovingStep
<1>7. CASE pc' # "idle"
  <2>1. /\ call' \in Calls /\ call'.sec = call.sec + 1 /\ call'.count = call.count
        /\ call'.sector = call.sector /\ call'.op = "read" /\ call.sec + 1 < call.count
    BY <1>1, <1>2, <1>3, <1>7 DEF Calls
  <2>2. pc' = "READ_SINGLE_BLOCK"
    BY <1>3, <1>7
  <2>3. \A i \in 0 .. call'.sec - 1 : buf'[i] = data'[call'.sector + i]
    BY <1>1, <1>3, <1>4, <2>1
  <2>4. CallOk'
    BY <1>1, <1>2, <2>1, <2>2, <2>3 DEF CallOk, Reading, Writing, BringUp
  <2> QED BY <1>0, <1>1, <1>2, <1>3, <1>7, <2>1, <2>2, <2>4, MovingStep DEF Reading
<1> QED BY <1>6, <1>7, <1>5

(* A block was spoilt, or none came.                                          *)
LEMMA AgainStep ==
  ASSUME IInv, NEW cmd, UNCHANGED <<card, data, disk_state, Elsewhere>>, Again(cmd), pc' # "idle",
         \/ pc = "receive" /\ cmd = "READ_SINGLE_BLOCK" /\ buf' = [buf EXCEPT ![call.sec] = Junk]
         \/ pc = "send" /\ cmd = "WRITE_BLOCK" /\ buf' = buf
  PROVE  IInv'
<1>0. pc \in Reading \cup Writing
  BY DEF Reading, Writing
<1>1. /\ call \in Calls /\ call.sec \in Nat /\ call.count \in Nat /\ call.sector \in Nat /\ mounted
      /\ DOMAIN buf = 0 .. 1 /\ DOMAIN data = SectorNo /\ errors \in Nat /\ bad \in Nat /\ CallOk
  BY <1>0, BlockIs DEF IInv, TypeOk
<1>2. pc' = cmd /\ bad' \in Nat /\ call' = call
  BY <1>1 DEF Again, GoOn, Return
<1>3. \A i \in 0 .. call.sec - 1 : buf'[i] = buf[i]
  <2>1. call.sec \in 0 .. 1
    BY <1>0, BlockIs
  <2> QED BY <1>1, <2>1
<1>4. DOMAIN buf' = 0 .. 1
  BY <1>1
<1>5. CallOk'
  BY <1>1, <1>2, <1>3 DEF CallOk, Reading, Writing, BringUp
<1> QED BY <1>1, <1>2, <1>4, <1>5, MovingStep DEF Elsewhere, Reading, Writing

(* A call that gives up in the middle of a block.                           *)
LEMMA GivenUpStep ==
  ASSUME IInv, pc \in {"receive", "send"}, pc' = "idle", disk_state' \in {"ERROR", disk_state},
         bad' \in Nat, UNCHANGED <<card, data, call, Elsewhere>>,
         DOMAIN buf' = 0 .. 1
  PROVE  IInv'
<1>1. CallOk'
  BY DEF CallOk, Reading, Writing, BringUp
<1> QED BY <1>1, MovingStep DEF Elsewhere, IInv, TypeOk, CardOk, Reading, Writing

(* A spoilt block is asked for again, or the read fails.                    *)
LEMMA ReceiveSpoiltStep ==
  ASSUME IInv, ReceiveSpoilt
  PROVE  IInv' /\ (pc' = "idle" => result' = "ERROR")
<1>1. pc' = "idle" => result' = "ERROR"
  BY DEF ReceiveSpoilt, Again, GoOn, Return
<1>2. CASE pc' # "idle"
  BY <1>1, <1>2, AgainStep DEF ReceiveSpoilt
<1>3. CASE pc' = "idle"
  <2>1. DOMAIN buf' = 0 .. 1 /\ bad' \in Nat /\ call' = call
    BY DEF ReceiveSpoilt, Again, IInv, TypeOk
  <2> QED BY <1>1, <1>3, <2>1, GivenUpStep DEF ReceiveSpoilt
<1> QED BY <1>2, <1>3

(* A refused block is sent again, or the write fails.                       *)
LEMMA SendSpoiltStep ==
  ASSUME IInv, SendSpoilt
  PROVE  IInv' /\ (pc' = "idle" => result' = "ERROR")
<1>1. pc' = "idle" => result' = "ERROR"
  BY DEF SendSpoilt, Again, GoOn, Return
<1>2. CASE pc' # "idle"
  BY <1>1, <1>2, AgainStep DEF SendSpoilt
<1>3. CASE pc' = "idle"
  <2>1. DOMAIN buf' = 0 .. 1 /\ bad' \in Nat /\ call' = call
    BY DEF SendSpoilt, Again, IInv, TypeOk
  <2> QED BY <1>1, <1>3, <2>1, GivenUpStep DEF SendSpoilt
<1> QED BY <1>2, <1>3

(* No block comes, and the read fails.                                      *)
LEMMA ReceiveNothingStep ==
  ASSUME IInv, ReceiveNothing
  PROVE  IInv' /\ (pc' = "idle" => result' = "ERROR")
BY GivenUpStep DEF ReceiveNothing, GiveUp, Return, IInv, TypeOk

(* A block is sent: its sector, and no other, is being programmed.                *)
LEMMA SendBlockStep ==
  ASSUME IInv, SendBlock
  PROVE  /\ IInv' /\ pc' # "idle"
         /\ \A s \in SectorNo : data'[s] # data[s] => ~card.wp /\ call.op = "write" /\ s \in Asked
<1>0. pc \in Reading \cup Writing /\ pc \in Writing /\ Arrives /\ card.st = "ready"
  BY DEF SendBlock, Writing, Arrives
<1>1. /\ call \in Calls /\ call.sec \in Nat /\ call.count \in Nat /\ call.sector \in Nat /\ mounted
      /\ Here = call.sector + call.sec /\ call.sector + call.sec \in Asked
  BY <1>0, BlockIs
<1>2. /\ DOMAIN buf = 0 .. 1 /\ DOMAIN data = SectorNo /\ errors \in Nat /\ bad \in Nat
      /\ CallOk /\ ~card.wp /\ call.op = "write"
      /\ \A i \in 0 .. call.sec - 1 : data[call.sector + i] = buf[i]
  BY <1>0 DEF IInv, CallOk, TypeOk
<1>3. /\ data' = [data EXCEPT ![Here] = Junk] /\ pc' = "busy"
      /\ card' = [card EXCEPT !.busy = TRUE] /\ card \in Cards
      /\ UNCHANGED <<disk_state, buf, bad, call, cardtype, mounted, tries, t, errors>>
  BY DEF SendBlock, GoOn, Elsewhere, IInv, TypeOk
<1>4. \A s \in SectorNo : data'[s] # data[s] => s = Here
  BY <1>2, <1>3
<1>5. \A i \in 0 .. call.sec - 1 : data'[call.sector + i] = data[call.sector + i]
  BY <1>1, <1>3
<1>6. SameButBusy(card') /\ card'.busy
  BY <1>3 DEF SameButBusy, Cards
<1>7. CallOk'
  BY <1>0, <1>2, <1>3, <1>5, <1>6 DEF CallOk, Reading, Writing, BringUp, SameButBusy
<1>8. DOMAIN data' = SectorNo
  BY <1>2, <1>3
<1>9. TypeOk'
  BY <1>2, <1>3, <1>6, <1>8 DEF IInv, TypeOk, Places, SameButBusy
<1>10. CardOk'
  BY <1>0, <1>3, <1>6 DEF IInv, CardOk, BringUp, Reading, Writing, SameButBusy, HighCapacity, Fits
<1>11. BringUpOk'
  BY <1>3 DEF BringUpOk, Started
<1> QED BY <1>1, <1>2, <1>3, <1>4, <1>7, <1>9, <1>10, <1>11 DEF IInv

(* The card has programmed the block: the sector holds what was to be stored.     *)
LEMMA CardFinishesStep ==
  ASSUME IInv, CardFinishes
  PROVE  /\ IInv' /\ pc' = pc
         /\ \A s \in SectorNo : data'[s] # data[s] => ~card.wp /\ call.op = "write" /\ s \in Asked
<1>0. pc = "busy" /\ pc \in Reading \cup Writing /\ pc \in Writing /\ Arrives /\ card.st = "ready"
  BY DEF CardFinishes, Writing, Arrives, IInv, CardOk
<1>1. /\ call \in Calls /\ call.sec \in Nat /\ call.count \in Nat /\ call.sector \in Nat /\ mounted
      /\ Here = call.sector + call.sec /\ call.sector + call.sec \in Asked
      /\ call.sector + call.sec \in SectorNo
  BY <1>0, BlockIs
<1>2. /\ DOMAIN buf = 0 .. 1 /\ DOMAIN data = SectorNo
      /\ CallOk /\ ~card.wp /\ call.op = "write"
      /\ \A i \in 0 .. call.sec - 1 : data[call.sector + i] = buf[i]
  BY <1>0 DEF IInv, CallOk, TypeOk
<1>3. /\ data' = [data EXCEPT ![Here] = buf[call.sec]]
      /\ card' = [card EXCEPT !.busy = FALSE] /\ card \in Cards
      /\ UNCHANGED <<disk_state, buf, bad, call, cardtype, mounted, tries, t, errors, pc>>
  BY DEF CardFinishes, progress, IInv, TypeOk
<1>4. \A s \in SectorNo : data'[s] # data[s] => s = Here
  BY <1>2, <1>3
<1>5. \A i \in 0 .. call.sec - 1 : data'[call.sector + i] = data[call.sector + i]
  BY <1>1, <1>3
<1>5a. data'[call.sector + call.sec] = buf[call.sec]
  BY <1>1, <1>2, <1>3
<1>6. SameButBusy(card') /\ ~card'.busy
  BY <1>3 DEF SameButBusy, Cards
<1>7. CallOk'
  BY <1>0, <1>2, <1>3, <1>5, <1>5a, <1>6 DEF CallOk, Reading, Writing, BringUp, SameButBusy
<1>8. DOMAIN data' = SectorNo
  BY <1>2, <1>3
<1>9. TypeOk'
  BY <1>2, <1>3, <1>6, <1>8 DEF IInv, TypeOk, SameButBusy
<1>10. CardOk'
  BY <1>0, <1>3, <1>6 DEF IInv, CardOk, BringUp, Reading, Writing, SameButBusy, HighCapacity, Fits
<1>11. BringUpOk'
  BY <1>0, <1>3 DEF BringUpOk, Started
<1> QED BY <1>1, <1>2, <1>3, <1>4, <1>7, <1>9, <1>10, <1>11 DEF IInv

(* The driver goes on with a card that is not busy any more: a write that returns  *)
(* then has stored all of its sectors, if the card has kept its power.           *)
LEMMA BusyEndsStep ==
  ASSUME IInv, BusyEnds
  PROVE  /\ IInv' /\ data' = data
         /\ pc' = "idle" /\ card.st = "ready" => \A s \in Asked : data'[s] = buf[s - call.sector]
<1>0. pc \in Reading \cup Writing /\ pc \in Writing /\ pc = "busy" /\ ~card.busy
  BY DEF BusyEnds, Writing
<1>1. /\ call \in Calls /\ call.sec \in Nat /\ call.count \in Nat /\ call.sector \in Nat
      /\ call.sec < call.count /\ call.count <= 2 /\ call.sec \in 0 .. 1 /\ mounted
  BY <1>0, BlockIs
<1>2. /\ call.op = "write" /\ ~card.wp /\ call.sector + call.count <= Sectors
      /\ card.st = "ready" => \A i \in 0 .. call.sec - 1 : data[call.sector + i] = buf[i]
      /\ card.st = "ready" => data[call.sector + call.sec] = buf[call.sec]
      /\ DOMAIN buf = 0 .. 1 /\ DOMAIN data = SectorNo /\ errors \in Nat
  BY <1>0 DEF IInv, CallOk, TypeOk
<1>3. /\ bad' = 0
      /\ UNCHANGED <<card, data, buf, disk_state, cardtype, mounted, tries, t, errors>>
      /\ \/ call.sec + 1 < call.count /\ pc' = "WRITE_BLOCK" /\ call' = [call EXCEPT !.sec = @ + 1]
         \/ ~(call.sec + 1 < call.count) /\ pc' = "idle" /\ UNCHANGED call
  BY DEF BusyEnds, NextBlock, GoOn, Return, Elsewhere
<1>4. card.st = "ready" => \A i \in 0 .. call.sec : data[call.sector + i] = buf[i]
  <2> SUFFICES ASSUME card.st = "ready", NEW i \in 0 .. call.sec
               PROVE  data[call.sector + i] = buf[i]
    OBVIOUS
  <2>1. i \in 0 .. call.sec - 1 \/ i = call.sec
    BY <1>1
  <2> QED BY <1>2, <2>1
<1>5. pc' = "idle" /\ card.st = "ready" => \A s \in Asked : data'[s] = buf[s - call.sector]
  <2> SUFFICES ASSUME pc' = "idle", card.st = "ready", NEW s \in Asked
               PROVE  data[s] = buf[s - call.sector]
    BY <1>3
  <2>1. ~(call.sec + 1 < call.count)
    BY <1>3
  <2>2. s - call.sector \in 0 .. call.sec /\ call.sector + (s - call.sector) = s
    BY <1>1, <2>1 DEF Asked
  <2> QED BY <1>4, <2>2
<1>6. IInv'
  <2>1. CASE pc' = "idle"
    <3>1. CallOk'
      BY <2>1 DEF CallOk, Reading, Writing, BringUp
    <3> QED BY <1>0, <1>1, <1>2, <1>3, <2>1, <3>1, MovingStep
  <2>2. CASE pc' # "idle"
    <3>1. /\ call' \in Calls /\ call'.sec = call.sec + 1 /\ call'.count = call.count
          /\ call'.sector = call.sector /\ call'.op = "write" /\ call.sec + 1 < call.count
      BY <1>1, <1>2, <1>3, <2>2 DEF Calls
    <3>2. pc' = "WRITE_BLOCK"
      BY <1>3, <2>2
    <3>3. card'.st = "ready" => \A i \in 0 .. call'.sec - 1 : data'[call'.sector + i] = buf'[i]
      BY <1>1, <1>3, <1>4, <3>1
    <3>4. CallOk'
      BY <1>1, <1>2, <1>3, <3>1, <3>2, <3>3 DEF CallOk, Reading, Writing, BringUp
    <3> QED BY <1>0, <1>1, <1>2, <1>3, <2>2, <3>1, <3>2, <3>4, MovingStep DEF Writing
  <2> QED BY <2>1, <2>2
<1> QED BY <1>3, <1>5, <1>6

(* The user.                                                                *)
(* A card taken out has lost all but its kind and its lock.                 *)
LEMMA WithoutPower ==
  ASSUME NEW c \in Cards, NEW d, d = [Powered(c) EXCEPT !.present = FALSE]
  PROVE  d \in Cards /\ d.kind = c.kind /\ d.wp = c.wp /\ d.st = "native" /\ ~d.busy
<1>1. PICK p : p = [c EXCEPT !.st = "native", !.crc = FALSE, !.told = FALSE, !.left = 1,
                             !.busy = FALSE]
  OBVIOUS
<1>2. /\ p.kind = c.kind /\ p.wp = c.wp /\ p.st = "native" /\ ~p.crc /\ ~p.told /\ p.left = 1
      /\ p.present = c.present /\ ~p.busy
  BY <1>1 DEF Cards
<1>3. p = [kind |-> c.kind, wp |-> c.wp, present |-> c.present, st |-> "native",
           crc |-> FALSE, told |-> FALSE, left |-> 1, busy |-> FALSE]
  BY <1>1 DEF Cards
<1>4. p \in Cards
  BY <1>2, <1>3 DEF Cards
<1>5. d = [p EXCEPT !.present = FALSE]
  BY <1>1 DEF Powered
<1> QED BY <1>2, <1>4, <1>5 DEF Cards

(* The card is taken out: disk_state cannot stay OK.                        *)
LEMMA TakeOutStep ==
  ASSUME Careful, IInv, TakeOut
  PROVE  IInv'
<1>1. card \in Cards /\ card' = [Powered(card) EXCEPT !.present = FALSE]
  BY DEF IInv, TypeOk, TakeOut
<1>2. /\ card' \in Cards /\ card'.kind = card.kind /\ card'.wp = card.wp /\ card'.st = "native"
      /\ ~card'.busy
  BY <1>1, WithoutPower
<1>3. TypeOk'
  BY <1>2 DEF IInv, TypeOk, TakeOut, progress
<1>4. CardOk'
  BY <1>2 DEF IInv, CardOk, TakeOut, HighCapacity
<1>5. BringUpOk'
  BY <1>2 DEF BringUpOk, TakeOut, Careful
<1>6. CallOk'
  BY <1>2 DEF IInv, CallOk, TakeOut
<1> QED BY <1>3, <1>4, <1>5, <1>6 DEF IInv

(* It is put back, without power so far.                                    *)
LEMMA PutInStep ==
  ASSUME Careful, IInv, PutIn
  PROVE  IInv'
<1>1. card \in Cards /\ card' = [card EXCEPT !.present = TRUE] /\ card.st = "native" /\ ~card.busy
  BY DEF IInv, TypeOk, CardOk, PutIn
<1>2. /\ card' \in Cards /\ card'.kind = card.kind /\ card'.wp = card.wp /\ card'.st = "native"
      /\ ~card'.busy
  BY <1>1 DEF Cards
<1>3. TypeOk'
  BY <1>2 DEF IInv, TypeOk, PutIn, progress
<1>4. CardOk'
  BY <1>2 DEF IInv, CardOk, PutIn, HighCapacity
<1>5. BringUpOk'
  BY <1>2 DEF BringUpOk, PutIn, Careful
<1>6. CallOk'
  BY <1>2 DEF IInv, CallOk, PutIn
<1> QED BY <1>3, <1>4, <1>5, <1>6 DEF IInv

(* The first state.                                                         *)
LEMMA InitIs == ASSUME Init PROVE IInv
<1>1. TypeOk
  <2>1. PICK k \in Kind, w \in BOOLEAN :
          card = [kind |-> k, wp |-> w, present |-> TRUE, st |-> "native", crc |-> FALSE,
                  told |-> FALSE, left |-> 1, busy |-> FALSE]
    BY DEF Init
  <2>2. card \in Cards
    BY <2>1, SdCardAssumption DEF Cards
  <2>3. call \in Calls
    BY DEF Init, Calls, NoCall
  <2>4. DOMAIN data = SectorNo /\ DOMAIN buf = 0 .. 1
    BY DEF Init
  <2>5. /\ cardtype = "MMCSD" /\ disk_state = "CHANGED" /\ mounted = FALSE /\ pc = "idle"
        /\ tries = 0 /\ t = 0 /\ errors = 0 /\ bad = 0
    BY DEF Init
  <2>6. mounted \in BOOLEAN
    BY DEF Init
  <2>7. /\ cardtype \in {"MMCSD", "SDHC"} /\ disk_state \in {"OK", "ERROR", "REMOVED", "CHANGED"}
        /\ pc \in Places /\ tries \in Int /\ t \in Nat /\ errors \in Nat /\ bad \in Nat
    BY <2>5 DEF Places
  <2> QED BY <2>2, <2>3, <2>4, <2>6, <2>7 DEF TypeOk
<1>2. CardOk /\ BringUpOk /\ CallOk
  BY DEF Init, CardOk, BringUpOk, Started, CallOk, BringUp, Reading, Writing, HighCapacity, NoCall
<1> QED BY <1>1, <1>2 DEF IInv

(* A command step moves no data and no buffer, and never returns OK.              *)
LEMMA CommandStep ==
  ASSUME GoIdle \/ SendIfCond \/ AppCmd \/ SdSendOpCond \/ ReadOcr \/ SendOpCond \/ CrcOn
         \/ SetBlockLen \/ ReadCommand \/ WriteCommand
  PROVE  data' = data /\ (result' = "OK" => result = "OK" /\ pc' = pc)
BY DEF GoIdle, SendIfCond, AppCmd, SdSendOpCond, ReadOcr, SendOpCond, CrcOn, SetBlockLen,
       ReadCommand, WriteCommand, BlockCommand, send_command, SendAgain, Unsettled,
       GoOn, Return, GiveUp

(* Every step keeps the invariant.                                            *)
LEMMA StepKeeps ==
  ASSUME Careful, IInv, [Next]_vars
  PROVE  IInv'
<1>1. CASE StartInit \/ StartRead \/ StartWrite
  BY <1>1, StartInitStep, StartReadStep, StartWriteStep
<1>2. CASE GoIdle \/ SendIfCond \/ AppCmd \/ SdSendOpCond
  BY <1>2, GoIdleStep, SendIfCondStep, AppCmdStep, SdSendOpCondStep
<1>3. CASE ReadOcr \/ SendOpCond \/ CrcOn \/ SetBlockLen \/ Finish
  BY <1>3, ReadOcrStep, SendOpCondStep, CrcOnStep, SetBlockLenStep, FinishStep
<1>4. CASE ReadCommand \/ WriteCommand
  <2>1. pc = "READ_SINGLE_BLOCK" /\ BlockCommand("receive") => IInv'
    BY ONLY IInv, BlockCommandStep
  <2>2. pc = "WRITE_BLOCK" /\ BlockCommand("send") => IInv'
    BY ONLY IInv, BlockCommandStep
  <2> QED BY <1>4, <2>1, <2>2 DEF ReadCommand, WriteCommand
<1>5. CASE ReceiveBlock \/ ReceiveSpoilt \/ ReceiveNothing
  BY <1>5, ReceiveBlockStep, ReceiveSpoiltStep, ReceiveNothingStep
<1>6. CASE SendBlock \/ SendSpoilt \/ CardFinishes \/ BusyEnds
  BY <1>6, SendBlockStep, SendSpoiltStep, CardFinishesStep, BusyEndsStep
<1>7. CASE TakeOut \/ PutIn
  BY <1>7, TakeOutStep, PutInStep
<1>8. CASE UNCHANGED vars
  BY <1>8 DEF vars, progress, IInv, TypeOk, CardOk, BringUpOk, Started, CallOk, Fits, HighCapacity, NoCall
<1> QED BY <1>1, <1>2, <1>3, <1>4, <1>5, <1>6, <1>7, <1>8 DEF Next, Driver

(* The invariant holds throughout, as long as the line, the card and the    *)
(* user are as Careful says.                                                *)
THEOREM Invariance == ASSUME Careful PROVE Spec => []IInv
<1>1. Init => IInv
  BY InitIs
<1>2. IInv /\ [Next]_vars => IInv'
  BY StepKeeps
<1> QED BY <1>1, <1>2, PTL DEF Spec

(* It says more than CardUsable does.                                       *)
LEMMA InvUsable == ASSUME IInv PROVE CardUsable
<1>1. OkMeansUsable
  BY DEF IInv, CardOk, OkMeansUsable, Fits, HighCapacity
<1>2. BlocksChecked
  BY DEF IInv, CardOk, BlocksChecked, Reading, Writing
<1> QED BY <1>1, <1>2 DEF CardUsable

(* The driver never believes a card usable that is not, or that it would    *)
(* address wrongly, and moves no block with a card that does not check CRCs *)
(* (sd_initialize()).                                                       *)
THEOREM CardIsWhatItIsTakenFor == ASSUME Careful PROVE Spec => []CardUsable
<1>1. IInv => CardUsable
  BY InvUsable
<1> QED BY <1>1, Invariance, PTL

(* A sector changes only when a card starts or ends to program it, and is the one meant.  *)
LEMMA ChangesAsked ==
  ASSUME IInv, Next, NEW s \in SectorNo, data'[s] # data[s]
  PROVE  ~card.wp /\ call.op = "write" /\ s \in Asked
<1>1. CASE SendBlock \/ CardFinishes \/ BusyEnds
  BY <1>1, SendBlockStep, CardFinishesStep, BusyEndsStep
<1>2. CASE StartInit \/ StartRead \/ StartWrite \/ TakeOut \/ PutIn \/ Finish
  BY <1>2 DEF StartInit, StartRead, StartWrite, WriteCalled, TakeOut, PutIn, Finish
<1>3. CASE ReceiveBlock \/ ReceiveSpoilt \/ ReceiveNothing \/ SendSpoilt
  BY <1>3 DEF ReceiveBlock, ReceiveSpoilt, ReceiveNothing, SendSpoilt
<1> QED BY <1>1, <1>2, <1>3, CommandStep DEF Next, Driver

(* A sector changes only when a write of it is under way, and never on a    *)
(* locked card (sd_write()).                                                *)
THEOREM OnlyWhatIsAskedChanges == ASSUME Careful PROVE Spec => OnlyAsked
<1>1. IInv /\ [Next]_vars =>
        [\A s \in SectorNo : data'[s] # data[s] => ~card.wp /\ call.op = "write" /\ s \in Asked]_vars
  BY ChangesAsked
<1> QED BY <1>1, Invariance, PTL DEF Spec, OnlyAsked

(* Only the last block lets a call return OK.                               *)
LEMMA ReturnsRight ==
  ASSUME IInv, Next
  PROVE  /\ Returns("read", "OK") => \A s \in Asked : buf'[s - call.sector] = data[s]
         /\ Returns("write", "OK") /\ card.st = "ready" =>
              \A s \in Asked : data'[s] = buf[s - call.sector]
<1>1. CASE ReceiveBlock
  <2>1. call.op = "read"
    BY <1>1 DEF IInv, CallOk, ReceiveBlock, Reading
  <2> QED BY <1>1, <2>1, ReceiveBlockStep DEF Returns
<1>2. CASE BusyEnds
  <2>1. call.op = "write"
    BY <1>2 DEF IInv, CallOk, BusyEnds, Writing
  <2> QED BY <1>2, <2>1, BusyEndsStep DEF Returns
<1>3. CASE ReceiveSpoilt \/ ReceiveNothing \/ SendSpoilt \/ SendBlock \/ CardFinishes
  BY <1>3, ReceiveSpoiltStep, ReceiveNothingStep, SendSpoiltStep, SendBlockStep,
     CardFinishesStep DEF Returns
<1>4. CASE StartInit \/ StartRead \/ StartWrite \/ TakeOut \/ PutIn
  BY <1>4 DEF StartInit, StartRead, StartWrite, WriteCalled, TakeOut, PutIn, Returns
<1>5. CASE Finish
  <2>1. call.op = "none"
    BY <1>5 DEF IInv, CallOk, Finish, BringUp, NoCall
  <2> QED BY <2>1 DEF Returns
<1> QED BY <1>1, <1>2, <1>3, <1>4, <1>5, CommandStep DEF Next, Driver, Returns

(* RES_OK means that the sectors have moved, however often a command or a   *)
(* block had to be sent again (sd_read(), sd_write()).                      *)
THEOREM OkIsTrue == ASSUME Careful PROVE Spec => OkMeansMoved
<1>1. IInv /\ [Next]_vars =>
        [Returns("read", "OK") => \A s \in Asked : buf'[s - call.sector] = data[s]]_vars
  BY ReturnsRight
<1>2. IInv /\ [Next]_vars =>
        [Returns("write", "OK") /\ card.st = "ready" =>
           \A s \in Asked : data'[s] = buf[s - call.sector]]_vars
  BY ReturnsRight
<1> QED BY <1>1, <1>2, Invariance, PTL DEF Spec, OkMeansMoved, ReadRight, WriteRight

=============================================================================
