--------------------------- MODULE Devices_proofs ---------------------------
(***************************************************************************)
(* Proofs about Devices: the numbers the devices answer to, what the host      *)
(* knows of them, the data that go through them, and the configuration that     *)
(* survives a power cut, for buffers, texts, numbers and open devices without    *)
(* a bound.  Each theorem names the habits of the host that it cannot do with,   *)
(* and holds under any of the others.                                         *)
(***************************************************************************)
EXTENDS Devices, FiniteSetTheorems, SequenceTheorems, TLAPS

(* The host sets the number of a device on its own channel, and stores a              *)
(* configuration only when there is one.                                          *)
Dutiful == {"foreign", "blank"} \cap Habits = {}

-----------------------------------------------------------------------------
(* The invariant.                                                           *)

Bytes == [Field -> 0 .. 255]
Modes == {"idle", "boot", "options", "answer", "store", "write"}
Numbered(c) == \A d \in Dev : HasRange(d, c[d])

(* What a message that the unit has begun with can be.                       *)
MsgOk(m) ==
  /\ m.d \in Dev \cup {"all"} /\ m.lun \in {"data", "cmd"} /\ m.cmd # "none"
  /\ m.cmd = "write" /\ m.lun = "data" => m.d \in Port
  /\ m.cmd = "open" /\ m.lun = "data" => m.d \in Port /\ m.opts \in OpenOptions(m.d)
  /\ m.lun = "cmd" /\ m.cmd \in {"open", "write"} => m.d \in Dev /\ m.opts \in CmdOptions(m.d)
  /\ m.lun = "data" => ~m.long

(* What the unit does, with which message, with what left to do.                     *)
TypeOk ==
  /\ pc \in Modes
  /\ DOMAIN host = Port
  /\ pc \in {"idle", "boot"} => msg = NoMsg
  /\ pc = "options" => msg.cmd \in {"open", "write"} /\ todo # <<>>
  /\ pc = "store" => msg.lun = "cmd" /\ msg.cmd \in {"open", "write"} /\ todo = <<>>
  /\ pc = "answer" => todo = <<>>
  /\ pc = "write" => Is(msg, "write", "data") /\ msg.d \in {"ser", "prn"}
  /\ pc \notin {"idle", "boot"} => MsgOk(msg)

(* The options that are left of a command or of an OPEN.                      *)
TodoOk ==
  pc = "options" =>
    IF msg.lun = "cmd"
      THEN \/ todo = <<Store>> /\ config["valid"] = 1
           \/ \E o \in DevOptions(msg.d) \cup SetOptions(msg.d) :
                todo = <<o>> \/ (todo = <<o, Store>> /\ config["valid"] = 1)
      ELSE msg.cmd = "open" /\ (todo \in OpenOptions(msg.d) \/ (msg.d = "ser" /\ todo = <<Opt("value", 600)>>))

(* The block in EEPROM is a record with numbers in range at any time, even while it    *)
(* is written; the numbers in the memory are those the devices answer to.             *)
ConfigOk ==
  /\ config \in Bytes /\ eeprom \in Bytes /\ dev_cur \in [Dev -> Nat]
  /\ eeprom["valid"] = 1 /\ Sized(eeprom) /\ Numbered(eeprom)
  /\ config["valid"] \in {0, 1}
  /\ pc = "boot" => config["valid"] = 0
  /\ pc # "boot" => Numbered(dev_cur)
  /\ config["valid"] = 1 => Sized(config) /\ \A d \in Dev : config[d] = dev_cur[d]
  /\ pc = "store" => config["valid"] = 1
  /\ unwritten \subseteq Field

NumInv == TypeOk /\ TodoOk /\ ConfigOk

(* While an OPEN is dealt with, the device is open already and the host does not know; *)
(* the answer will be SUCCESS, so what it concludes is so.                          *)
Opening == pc \in {"options", "answer"} /\ Is(msg, "open", "data")
HostOk ==
  /\ \A d \in Port : host[d] \in {{"?"}, HowOpen(d)} \/ (Opening /\ msg.d = d)
  /\ Opening => rc = "SUCCESS" /\ HowOpen(msg.d) = msg.att /\ msg.d \in {"ser", "prn"}
  /\ pc \notin {"idle", "boot"} => msg.cmd \in {"open", "write"}

(* What is sent and what is left make up the data.                                 *)
Taken ==
  \E n \in 0 .. Len(msg.data) :
    /\ out = SubSeq(msg.data, 1, n)
    /\ rc = "SUCCESS" => todo = SubSeq(msg.data, n + 1, Len(msg.data))
DataOk ==
  /\ ~early
  /\ pc \notin {"idle", "boot"} => ~msg.long
  /\ pc = "write" => Taken /\ msg.data \in Data /\ (msg.d = "ser" => Len(msg.data) <= BUFSIZE)
  /\ pc \in {"options", "store"} => ~Is(msg, "write", "data")
  /\ Carried

(* While a configuration is stored, the block is a mix of two records that are right,   *)
(* at other times it is right, or power has failed while it was mixed.                *)
Good(c) == c \in Bytes /\ c["valid"] = 1 /\ Sized(c) /\ c["checksum"] = Checksum(c)
AtMostTwo(S) == \A a, b, c \in S : a = b \/ b = c \/ a = c
Differ(a, b) == {f \in Setting : a[f] # b[f]}
Mixed(old, new, U) == [f \in Field |-> IF f \in U THEN old[f] ELSE new[f]]
Storing ==
  \E old \in Bytes :
    /\ Good(old) /\ Good(config)
    /\ stored = {Contents(old), Contents(config)}
    /\ eeprom = Mixed(old, config, unwritten)
StoreOk ==
  /\ pc = "store" => Storing
  /\ pc # "store" =>
       /\ IsValid => Contents(eeprom) \in stored \/ Torn(eeprom)
       /\ ~IsValid => Cardinality(stored) = 2
       /\ config["valid"] = 1 => IsValid /\ stored = {Contents(eeprom)}

-----------------------------------------------------------------------------
(* The device numbers and the messages.                                     *)

(* The ranges of the devices do not meet, and each holds its default.               *)
LEMMA RangesApart ==
  ASSUME NEW a \in Dev, NEW b \in Dev, NEW n, HasRange(a, n)
  PROVE  n \in 1 .. 255 /\ HasRange(a, Default[a]) /\ (HasRange(b, n) => a = b)
BY DEF HasRange, Low, High, Default, Dev

(* The first of one device.                                                    *)
LEMMA FirstOne ==
  ASSUME NEW d \in Dev
  PROVE  First({d}) = d
<1>1. Order[d] <= Order[d]
  BY DEF Order, Dev
<1> QED BY <1>1 DEF First

(* So execute_command() finds the device that the host means.                         *)
LEMMA WhoIs ==
  ASSUME dev_cur \in [Dev -> Nat], Numbered(dev_cur), NEW d \in Dev \cup {"all"}
  PROVE  WhoAnswers(d) = d
<1>1. CASE d \in Dev
  <2>1. dev_cur[d] # 0 /\ d # "all"
    BY <1>1, RangesApart DEF Numbered, Dev
  <2>2. {e \in Dev : dev_cur[e] = dev_cur[d]} = {d}
    BY <1>1, RangesApart DEF Numbered
  <2> QED BY <1>1, <2>1, <2>2, FirstOne DEF WhoAnswers
<1>2. CASE d = "all"
  BY <1>2 DEF WhoAnswers
<1> QED BY <1>1, <1>2

(* And hex_exec_cmd() the one whose number is in range.                              *)
LEMMA InRangeIs ==
  ASSUME NEW d \in Dev, NEW n, HasRange(d, n)
  PROVE  InRange(n) # {} /\ First(InRange(n)) = d /\ n \in 1 .. 255
<1>1. InRange(n) = {d}
  BY RangesApart DEF InRange
<1> QED BY <1>1, FirstOne, RangesApart

(* What the options of a command can be.                                          *)
LEMMA OptionsAre ==
  ASSUME Dutiful, NEW d \in Dev, NEW o \in DevOptions(d) \cup SetOptions(d)
  PROVE  \/ o.k = "dev" /\ HasRange(d, o.n)
         \/ d = "ser" /\ o = Opt("value", 600) /\ o.k = "value" /\ o.n = 600
         \/ d = "prn" /\ o.k = "line" /\ o.n \in {0, 2}
BY DEF DevOptions, SetOptions, Opt, Dutiful

(* A message is a record with these fields and no other.                            *)
MsgRecord(m) ==
  m = [d |-> m.d, cmd |-> m.cmd, lun |-> m.lun, att |-> m.att, opts |-> m.opts,
       data |-> m.data, long |-> m.long, lost |-> m.lost]

(* What the host's giving up changes in a message.                                  *)
LEMMA RecordExcept ==
  ASSUME NEW m, MsgRecord(m), NEW e, NEW l
  PROVE  [m EXCEPT !.d = e, !.lost = l]
         = [d |-> e, cmd |-> m.cmd, lun |-> m.lun, att |-> m.att, opts |-> m.opts,
            data |-> m.data, long |-> m.long, lost |-> l]
<1>1. m = [d |-> m.d, cmd |-> m.cmd, lun |-> m.lun, att |-> m.att, opts |-> m.opts,
           data |-> m.data, long |-> m.long, lost |-> m.lost]
  BY DEF MsgRecord
<1>2. PICK p : p = [m EXCEPT !.d = e]
  OBVIOUS
<1>3. p = [d |-> e, cmd |-> m.cmd, lun |-> m.lun, att |-> m.att, opts |-> m.opts,
           data |-> m.data, long |-> m.long, lost |-> m.lost]
  BY <1>1, <1>2
<1>4. [p EXCEPT !.lost = l]
       = [d |-> e, cmd |-> m.cmd, lun |-> m.lun, att |-> m.att, opts |-> m.opts,
          data |-> m.data, long |-> m.long, lost |-> l]
  BY <1>3
<1>5. [m EXCEPT !.d = e, !.lost = l] = [p EXCEPT !.lost = l]
  BY <1>2
<1> QED BY <1>4, <1>5

(* A command has an option.                                                    *)
LEMMA CmdOptionsNotEmpty ==
  ASSUME NEW d, NEW o \in CmdOptions(d)
  PROVE  o # <<>>
BY DEF CmdOptions

(* What is known of a message of the host.                                       *)
Ordinary(m) ==
  /\ MsgOk(m) /\ MsgRecord(m)
  /\ Is(m, "write", "data") => m.data \in Data
  /\ m.lun = "cmd" /\ m.cmd \in {"open", "write"} => m.opts # <<>>

(* A command is one that MsgOk allows,                                             *)
LEMMA CommandIs ==
  ASSUME NEW d \in Dev, NEW longs \in SUBSET BOOLEAN, NEW m \in Commands(d, longs)
  PROVE  Ordinary(m)
<1>1. PICK c \in {"open", "write"}, o \in CmdOptions(d), b \in longs : m = CmdMsg(d, c, o, b)
  BY DEF Commands
<1>2. m = [d |-> d, cmd |-> c, lun |-> "cmd", att |-> {}, opts |-> o,
           data |-> <<>>, long |-> b, lost |-> "no"]
  BY <1>1 DEF Msg, CmdMsg
<1> QED BY <1>2, CmdOptionsNotEmpty DEF Ordinary, MsgOk, MsgRecord, Is, Dev

(* and so is any message to a device,                                               *)
LEMMA MessageTo ==
  ASSUME NEW d \in Port, NEW m \in MessagesTo(d)
  PROVE  Ordinary(m)
<1>1. CASE m \in {OpenMsg(d, a, o) : a \in Att, o \in OpenOptions(d)}
  <2>1. PICK a \in Att, o \in OpenOptions(d) : m = OpenMsg(d, a, o)
    BY <1>1
  <2>2. m = [d |-> d, cmd |-> "open", lun |-> "data", att |-> a, opts |-> o,
             data |-> <<>>, long |-> FALSE, lost |-> "no"]
    BY <2>1 DEF Msg, OpenMsg, WriteMsg, CmdMsg
  <2> QED BY <2>2 DEF Ordinary, MsgOk, MsgRecord, Is, Port
<1>2. CASE m \in {Msg(d, c, l) : c \in {"close", "read", "reset", "restore"}, l \in {"data", "cmd"}}
  <2>1. PICK c \in {"close", "read", "reset", "restore"}, l \in {"data", "cmd"} : m = Msg(d, c, l)
    BY <1>2
  <2> QED BY <2>1 DEF Msg, Ordinary, MsgOk, MsgRecord, Is, Port
<1>3. CASE m \in {WriteMsg(d, x) : x \in Data}
  <2>1. PICK x \in Data : m = WriteMsg(d, x)
    BY <1>3
  <2>2. m = [d |-> d, cmd |-> "write", lun |-> "data", att |-> {}, opts |-> <<>>,
             data |-> x, long |-> FALSE, lost |-> "no"]
    BY <2>1 DEF Msg, OpenMsg, WriteMsg, CmdMsg
  <2> QED BY <2>2 DEF Ordinary, MsgOk, MsgRecord, Is, Port
<1>4. CASE m \in Commands(d, BOOLEAN)
  BY <1>4, CommandIs DEF Port, Dev
<1>5. CASE m = Msg(d, "status", "data")
  BY <1>5 DEF Msg, Ordinary, MsgOk, MsgRecord, Is, Port
<1> QED BY <1>1, <1>2, <1>3, <1>4, <1>5 DEF MessagesTo

(* and any message.                                                          *)
LEMMA MessageIs ==
  ASSUME NEW m \in Message
  PROVE  Ordinary(m)
<1>1. CASE \E d \in Port : m \in MessagesTo(d)
  BY <1>1, MessageTo
<1>2. CASE m \in Commands("drv", {FALSE})
  BY <1>2, CommandIs DEF Dev
<1>3. CASE m = Msg("all", "reset", "data")
  BY <1>3 DEF Msg, Ordinary, MsgOk, MsgRecord, Is, Dev
<1> QED BY <1>1, <1>2, <1>3 DEF Message

(* A message that is received is for the device the host means.                *)
LEMMA ReceivedIs ==
  ASSUME dev_cur \in [Dev -> Nat], Numbered(dev_cur), Receive
  PROVE  \E m : /\ Handle(m) /\ MsgOk(m) /\ pc = "idle"
                /\ Is(m, "write", "data") => m.data \in Data
                /\ m.lun = "cmd" /\ m.cmd \in {"open", "write"} => m.opts # <<>>
                /\ Is(m, "write", "data") /\ m.d = "clk" => "W" \in rtc_open \/ "clockWrite" \in Habits
                /\ Is(m, "write", "data") /\ m.d = "ser" => Len(m.data) <= BUFSIZE \/ "long" \in Habits
                /\ m.d = "clk" /\ m.long => "long" \in Habits
                /\ m.lun = "cmd" /\ m.cmd \in {"open", "write"} =>
                     (Last(m.opts) = Store => config["valid"] = 1 \/ "blank" \in Habits)
<1>1. PICK m \in Message, l \in {"no", "inData", "late"} :
        pc = "idle" /\ Sends(m) /\ Handle([m EXCEPT !.d = WhoAnswers(m.d), !.lost = l])
  BY DEF Receive
<1>2. MsgOk(m) /\ MsgRecord(m) /\ WhoAnswers(m.d) = m.d
  BY MessageIs, WhoIs DEF MsgOk, Ordinary
<1> DEFINE n == [m EXCEPT !.d = WhoAnswers(m.d), !.lost = l]
<1>3. n = [d |-> m.d, cmd |-> m.cmd, lun |-> m.lun, att |-> m.att, opts |-> m.opts,
           data |-> m.data, long |-> m.long, lost |-> l]
  <2>1. PICK e : e = WhoAnswers(m.d)
    OBVIOUS
  <2>2. [m EXCEPT !.d = e, !.lost = l]
        = [d |-> e, cmd |-> m.cmd, lun |-> m.lun, att |-> m.att, opts |-> m.opts,
           data |-> m.data, long |-> m.long, lost |-> l]
    BY ONLY <1>2, RecordExcept, Zenon
  <2> QED BY <1>2, <2>1, <2>2
<1>4. n.d = m.d /\ n.cmd = m.cmd /\ n.lun = m.lun /\ n.opts = m.opts /\ n.data = m.data /\ n.long = m.long
  BY <1>3
<1>5. MsgOk(n) /\ Handle(n)
  BY <1>1, <1>2, <1>4 DEF MsgOk
<1> HIDE DEF n
<1>6. /\ Is(n, "write", "data") => n.data \in Data
      /\ n.lun = "cmd" /\ n.cmd \in {"open", "write"} => n.opts # <<>>
  BY <1>4, MessageIs DEF Is, Ordinary
<1> QED BY <1>1, <1>4, <1>5, <1>6 DEF Sends, Is

-----------------------------------------------------------------------------
(* The numbers: what each step does to them.                                *)

(* What the first step of a message does to the unit.                          *)
Finished == pc' = "idle" /\ msg' = NoMsg
Begun(m) ==
  /\ msg' = m
  /\ \/ /\ pc' = "options" /\ todo' = m.opts /\ m.opts # <<>> /\ m.cmd \in {"open", "write"}
        /\ m.lun = "cmd" \/ (Is(m, "open", "data") /\ m.d \in {"ser", "prn"})
     \/ pc' = "answer" /\ todo' = <<>> /\ Is(m, "open", "data") /\ m.d \in {"ser", "prn"}
     \/ pc' = "write" /\ todo' = m.data /\ Is(m, "write", "data") /\ m.d \in {"ser", "prn"}

(* After a reply the unit is ready.                                               *)
LEMMA ReplyIs ==
  ASSUME NEW m, NEW r, NEW unread, Reply(m, r, unread), DOMAIN host = Port
  PROVE  Finished /\ todo' = <<>> /\ out' = <<>> /\ DOMAIN host' = Port
BY DEF Reply, Done, Finished

(* A message that takes more steps.                                              *)
LEMMA BeginIs ==
  ASSUME NEW m, NEW to, NEW what, Begin(m, to, what)
  PROVE  pc' = to /\ msg' = m /\ todo' = what /\ out' = <<>> /\ ~early' /\ host' = host
BY DEF Begin

(* The handler of a message is done with it or has begun with it.                     *)
LEMMA HandleIs ==
  ASSUME NEW m, Handle(m), MsgOk(m), DOMAIN host = Port,
         m.lun = "cmd" /\ m.cmd \in {"open", "write"} => m.opts # <<>>
  PROVE  Kept /\ (Finished \/ Begun(m)) /\ DOMAIN host' = Port
<1>1. CASE Unsupported(m) \/ TooLong(m) \/ DataLost(m) \/ CloseCommand(m) \/ ReadDevice(m)
  BY <1>1, ReplyIs DEF Unsupported, TooLong, DataLost, CloseCommand, ReadDevice, Answer
<1>2. CASE SerClose(m) \/ PrnClose(m) \/ ClkClose(m) \/ ClkOpen(m) \/ ClkWrite(m)
  BY <1>2, ReplyIs DEF SerClose, PrnClose, ClkClose, ClkOpen, ClkWrite, OpenRefused, Answer
<1>3. CASE SerStatus(m)
  BY <1>3 DEF SerStatus, Silent, Done, Finished
<1>4. CASE Reset(m)
  BY <1>4 DEF Reset, Done, Finished
<1>5. CASE Command(m)
  BY <1>5, BeginIs DEF Command, Options, Begun
<1>6. CASE StartWrite(m)
  BY <1>6, BeginIs DEF StartWrite, Begun, Is
<1>7. CASE SerOpen(m)
  <2>1. CASE Options(m)
    <3>1. Begin(m, IF m.opts = <<>> THEN "answer" ELSE "options", m.opts)
      BY <2>1 DEF Options
    <3> QED BY <1>7, <3>1, BeginIs DEF SerOpen, Begun, Is
  <2>2. CASE \E r : OpenRefused(m, r)
    BY <1>7, <2>2, ReplyIs DEF SerOpen, OpenRefused, Answer
  <2> QED BY <1>7, <2>1, <2>2 DEF SerOpen
<1>8. CASE PrnOpen(m)
  <2>1. CASE Options(m)
    <3>1. Begin(m, IF m.opts = <<>> THEN "answer" ELSE "options", m.opts)
      BY <2>1 DEF Options
    <3> QED BY <1>8, <3>1, BeginIs DEF PrnOpen, Begun, Is
  <2>2. CASE \E r : OpenRefused(m, r)
    BY <1>8, <2>2, ReplyIs DEF PrnOpen, OpenRefused, Answer
  <2> QED BY <1>8, <2>1, <2>2 DEF PrnOpen
<1> QED BY <1>1, <1>2, <1>3, <1>4, <1>5, <1>6, <1>7, <1>8 DEF Handle

(* A handler keeps the configuration.                                           *)
LEMMA KeptOk ==
  ASSUME ConfigOk, Kept, pc # "boot", pc' \notin {"boot", "store"}
  PROVE  ConfigOk'
BY DEF ConfigOk, Kept, rom, Numbered

(* Sequences of one and of two.                                                  *)
LEMMA SequenceIs ==
  ASSUME NEW a, NEW b
  PROVE  /\ <<a>> # <<>> /\ <<a, b>> # <<>>
         /\ <<a>>[1] = a /\ <<a, b>>[1] = a /\ <<a, b>>[2] = b
         /\ Tail(<<a>>) = <<>> /\ Tail(<<a, b>>) = <<b>>
         /\ Last(<<a>>) = a /\ Last(<<a, b>>) = b
BY DEF Last

(* A command sets something, stores, or sets something and stores.                  *)
LEMMA CommandTodo ==
  ASSUME NEW d, NEW s \in CmdOptions(d)
  PROVE  \/ s = <<Store>> /\ Last(s) = Store
         \/ \E o \in DevOptions(d) \cup SetOptions(d) :
              s = <<o>> \/ (s = <<o, Store>> /\ Last(s) = Store)
<1>1. CASE s \in {<<o>> : o \in DevOptions(d) \cup SetOptions(d) \cup {Store}}
  <2>1. PICK o \in DevOptions(d) \cup SetOptions(d) \cup {Store} : s = <<o>>
    BY <1>1
  <2> QED BY <2>1, SequenceIs
<1>2. CASE s \in {<<o, Store>> : o \in DevOptions(d) \cup SetOptions(d)}
  <2>1. PICK o \in DevOptions(d) \cup SetOptions(d) : s = <<o, Store>>
    BY <1>2
  <2> QED BY <2>1, SequenceIs
<1> QED BY <1>1, <1>2 DEF CmdOptions

(* Receive keeps the numbers.                                                   *)
LEMMA ReceiveNum ==
  ASSUME Dutiful, NumInv, Receive
  PROVE  NumInv'
<1>1. dev_cur \in [Dev -> Nat] /\ Numbered(dev_cur) /\ pc = "idle"
  BY DEF NumInv, ConfigOk, Receive
<1>2. PICK m : /\ Handle(m) /\ MsgOk(m)
               /\ m.lun = "cmd" /\ m.cmd \in {"open", "write"} =>
                    m.opts # <<>> /\ (Last(m.opts) = Store => config["valid"] = 1 \/ "blank" \in Habits)
  BY <1>1, ReceivedIs
<1>3. Kept /\ (Finished \/ Begun(m)) /\ DOMAIN host' = Port
  BY <1>2, HandleIs DEF NumInv, TypeOk
<1>4. pc' \notin {"boot", "store"}
  BY <1>3 DEF Finished, Begun
<1>5. ConfigOk'
  BY <1>1, <1>3, <1>4, KeptOk DEF NumInv
<1>6. TypeOk'
  BY <1>2, <1>3 DEF TypeOk, Finished, Begun, Modes, Is
<1>7. TodoOk'
  <2>1. CASE pc' # "options"
    BY <2>1 DEF TodoOk
  <2>2. CASE pc' = "options" /\ m.lun = "cmd"
    <3>1. m.opts \in CmdOptions(m.d) /\ todo' = m.opts /\ msg' = m /\ config' = config
          /\ (Last(m.opts) = Store => config["valid"] = 1)
      BY <1>2, <1>3, <2>2 DEF MsgOk, Finished, Begun, Kept, Dutiful, Is
    <3> QED BY <2>2, <3>1, CommandTodo DEF TodoOk
  <2>3. CASE pc' = "options" /\ m.lun # "cmd"
    BY <1>2, <1>3, <2>3 DEF MsgOk, Finished, Begun, Is, TodoOk
  <2> QED BY <2>1, <2>2, <2>3
<1> QED BY <1>5, <1>6, <1>7 DEF NumInv

(* What an option of a command does: it sets the rate, the line ending or nothing, or   *)
(* the device answers to the number that it sets.                                   *)
SetsNone == dev_cur' = dev_cur /\ \A d \in Dev : config'[d] = config[d]
SetsNumber(n) ==
  /\ HasRange(msg.d, n) /\ n \in Nat /\ dev_cur' = [dev_cur EXCEPT ![msg.d] = n]
  /\ \A d \in Dev : config'[d] = IF d = msg.d THEN n ELSE config[d]
LEMMA ExecIs ==
  ASSUME Dutiful, config \in Bytes, msg.lun = "cmd", msg.d \in Dev,
         NEW o \in DevOptions(msg.d) \cup SetOptions(msg.d), ExecOne(o)
  PROVE  /\ config' \in Bytes /\ config'["valid"] = config["valid"]
         /\ Sized(config)' = Sized(config)
         /\ SetsNone \/ SetsNumber(o.n)
<1> USE DEF Bytes, Field, Setting, Dev, Sized
<1>1. CASE o.k = "dev" /\ HasRange(msg.d, o.n)
  <2>1. SetDev(o.n)
    BY <1>1 DEF ExecOne
  <2>2. InRange(o.n) # {} /\ First(InRange(o.n)) = msg.d /\ o.n \in 1 .. 255
    BY <1>1, InRangeIs
  <2>3. config' = [config EXCEPT ![msg.d] = o.n] /\ dev_cur' = [dev_cur EXCEPT ![msg.d] = o.n]
        /\ o.n \in 0 .. 255 /\ o.n \in Nat
    BY <2>1, <2>2 DEF SetDev
  <2> QED BY <1>1, <2>3 DEF SetsNumber
<1>2. CASE msg.d = "ser" /\ o.k = "value" /\ o.n = 600
  <2>1. SetSer(o)
    BY <1>2 DEF ExecOne
  <2>2. 600 % 256 = 88 /\ 600 \div 256 = 2
    OBVIOUS
  <2>3. config' = [config EXCEPT !["bps0"] = 88, !["bps1"] = 2] /\ dev_cur' = dev_cur
    BY <1>2, <2>1, <2>2 DEF SetSer, WithRate
  <2> QED BY <2>3 DEF SetsNone
<1>3. CASE msg.d = "prn" /\ o.k = "line" /\ o.n \in {0, 2}
  <2>1. SetPrn(o)
    BY <1>3 DEF ExecOne
  <2>2. dev_cur' = dev_cur /\ (config' = config \/ config' = [config EXCEPT !["line"] = o.n])
        /\ o.n \in 0 .. 255
    BY <1>3, <2>1 DEF SetPrn
  <2> QED BY <2>2 DEF SetsNone
<1> QED BY <1>1, <1>2, <1>3, OptionsAre

(* The options of an OPEN set nothing in the configuration.                      *)
LEMMA ExecOpen ==
  ASSUME msg.lun # "cmd", NEW o, ExecOne(o)
  PROVE  config' = config /\ dev_cur' = dev_cur
BY DEF ExecOne, SetDev, SetSer, SetPrn

(* The options of an OPEN.                                                     *)
LEMMA OpenTodo ==
  ASSUME NEW d, NEW s \in OpenOptions(d), s # <<>>
  PROVE  \/ d = "ser" /\ s = <<Opt("lenient", 0), Opt("value", 600)>>
         \/ d = "prn" /\ s = <<Opt("line", 0)>>
         \/ "badOpen" \in Habits /\ s = <<Opt("dev", Default[d])>>
BY DEF OpenOptions

(* An option that sets something is not one that stores.                             *)
LEMMA StoreOrNot == 
  ASSUME Dutiful, NEW d \in Dev, NEW o \in DevOptions(d) \cup SetOptions(d)
  PROVE  o.k # "store" /\ Store.k = "store" /\ o # Store
BY OptionsAre DEF Store, Opt

(* ExecOption keeps the numbers.                                                 *)
LEMMA ExecNum ==
  ASSUME Dutiful, NumInv, ExecOption
  PROVE  NumInv'
<1>0. /\ pc = "options" /\ todo[1].k # "store" /\ ExecOne(todo[1])
      /\ todo' = (IF rc' = "SUCCESS" THEN Tail(todo) ELSE <<>>)
      /\ pc' = (IF todo' = <<>> THEN "answer" ELSE "options")
      /\ UNCHANGED <<opens, rom, out, msg, host>>
      /\ MsgOk(msg) /\ msg.cmd \in {"open", "write"} /\ TodoOk /\ TypeOk /\ ConfigOk
  BY DEF ExecOption, Bus, NumInv, TypeOk
<1>1. TypeOk'
  BY <1>0 DEF TypeOk, Modes
<1>2. CASE msg.lun = "cmd"
  <2>0. msg.d \in Dev
    BY <1>0, <1>2 DEF MsgOk
  <2>1. PICK o \in DevOptions(msg.d) \cup SetOptions(msg.d) :
          todo = <<o>> \/ (todo = <<o, Store>> /\ config["valid"] = 1)
    <3>1. todo # <<Store>>
      BY <1>0, SequenceIs DEF Store, Opt
    <3> QED BY <1>0, <1>2, <3>1 DEF TodoOk
  <2>2. todo[1] = o /\ (Tail(todo) = <<>> \/ (Tail(todo) = <<Store>> /\ config["valid"] = 1))
    <3>1. /\ <<o>>[1] = o /\ Tail(<<o>>) = <<>>
          /\ <<o, Store>>[1] = o /\ Tail(<<o, Store>>) = <<Store>>
      BY ONLY SequenceIs
    <3> QED BY <2>1, <3>1
  <2>3. /\ config' \in Bytes /\ config'["valid"] = config["valid"]
        /\ Sized(config)' = Sized(config)
        /\ SetsNone \/ SetsNumber(o.n)
    <3>1. config \in Bytes
      BY <1>0 DEF ConfigOk
    <3> QED BY <1>0, <1>2, <2>0, <2>2, <3>1, ExecIs
  <2>4. ConfigOk'
    <3>1. dev_cur \in [Dev -> Nat] /\ Numbered(dev_cur)
      BY <1>0 DEF ConfigOk
    <3>2. /\ dev_cur' \in [Dev -> Nat] /\ Numbered(dev_cur')
          /\ (\A d \in Dev : config[d] = dev_cur[d]) => \A d \in Dev : config'[d] = dev_cur'[d]
      <4>1. CASE SetsNone
        BY <3>1, <4>1 DEF SetsNone
      <4>2. CASE SetsNumber(o.n)
        <5>1. /\ dev_cur' \in [Dev -> Nat]
              /\ \A d \in Dev : dev_cur'[d] = IF d = msg.d THEN o.n ELSE dev_cur[d]
          BY <3>1, <4>2 DEF SetsNumber
        <5> QED BY <3>1, <4>2, <5>1 DEF SetsNumber, Numbered
      <4> QED BY <2>3, <4>1, <4>2
    <3>3. /\ eeprom' = eeprom /\ unwritten' = unwritten /\ pc' \in {"answer", "options"}
          /\ Numbered(eeprom)' = Numbered(eeprom) /\ Sized(eeprom)' = Sized(eeprom)
          /\ Numbered(dev_cur)' = Numbered(dev_cur')
      BY <1>0 DEF rom, Numbered, Sized
    <3> QED BY <1>0, <2>3, <3>2, <3>3 DEF ConfigOk
  <2>5. config'["valid"] = config["valid"]
    BY <2>3
  <2>6. TodoOk'
    BY <1>0, <1>2, <2>2, <2>5 DEF TodoOk
  <2> QED BY <1>1, <2>4, <2>6 DEF NumInv
<1>3. CASE msg.lun # "cmd"
  <2>1. config' = config /\ dev_cur' = dev_cur
    BY <1>0, <1>3, ExecOpen
  <2>2. ConfigOk'
    BY <1>0, <2>1 DEF ConfigOk, rom, Numbered
  <2>3. msg.cmd = "open" /\ todo # <<>>
        /\ (todo \in OpenOptions(msg.d) \/ (msg.d = "ser" /\ todo = <<Opt("value", 600)>>))
    BY <1>0, <1>3 DEF TodoOk, TypeOk
  <2>4. Tail(todo) = <<>> \/ (msg.d = "ser" /\ Tail(todo) = <<Opt("value", 600)>>)
    <3>1. \A a, o : Tail(<<o>>) = <<>> /\ Tail(<<a, o>>) = <<o>>
      BY ONLY SequenceIs, Zenon
    <3>0. PICK u, v : u = Opt("lenient", 0) /\ v = Opt("value", 600)
      OBVIOUS
    <3>2. (msg.d = "ser" /\ todo = <<u, v>>) \/ \E o : todo = <<o>>
      BY <2>3, <3>0, OpenTodo
    <3>3. Tail(todo) = <<>> \/ (msg.d = "ser" /\ Tail(todo) = <<v>>)
      BY ONLY <3>1, <3>2
    <3> QED BY ONLY <3>0, <3>3
  <2>5. TodoOk'
    BY <1>0, <1>3, <2>3, <2>4 DEF TodoOk
  <2> QED BY <1>1, <2>2, <2>5 DEF NumInv
<1> QED BY <1>2, <1>3

(* A checksum is a byte.                                                       *)
LEMMA ChecksumIs ==
  ASSUME NEW c \in Bytes
  PROVE  Checksum(c) \in 0 .. 255
<1>1. \A f \in Setting \cup {"structsize", "size_hi"} : c[f] \in Nat
  BY DEF Bytes, Field
<1>2. c["structsize"] + c["size_hi"] + c["drv"] + c["clk"] + c["ser"] + c["bps0"] + c["bps1"]
      + c["prn"] + c["line"] + c["spacing"] \in Nat
  BY <1>1 DEF Setting
<1> QED BY <1>2 DEF Checksum

(* A store is the last option of a command, and there is a configuration.              *)
LEMMA StoreTodo ==
  ASSUME Dutiful, NumInv, pc = "options", todo[1].k = "store"
  PROVE  msg.lun = "cmd" /\ todo = <<Store>> /\ Tail(todo) = <<>> /\ config["valid"] = 1
<1>0. TodoOk /\ TypeOk /\ MsgOk(msg) /\ msg.cmd \in {"open", "write"} /\ todo # <<>>
  BY DEF NumInv, TypeOk
<1>1. CASE msg.lun = "cmd"
  <2>1. ~\E o \in DevOptions(msg.d) \cup SetOptions(msg.d) :
           todo = <<o>> \/ (todo = <<o, Store>> /\ config["valid"] = 1)
    <3>1. msg.d \in Dev
      BY <1>0, <1>1 DEF MsgOk
    <3>2. \A o : <<o>>[1] = o /\ <<o, Store>>[1] = o
      BY ONLY SequenceIs
    <3> QED BY <3>1, <3>2, StoreOrNot
  <2>2. Tail(<<Store>>) = <<>>
    BY ONLY SequenceIs
  <2> QED BY <1>0, <1>1, <2>1, <2>2 DEF TodoOk
<1>2. CASE msg.lun # "cmd"
  <2>1. \/ todo = <<Opt("lenient", 0), Opt("value", 600)>> \/ todo = <<Opt("value", 600)>>
        \/ todo = <<Opt("line", 0)>> \/ todo = <<Opt("dev", Default[msg.d])>>
    BY <1>0, <1>2, OpenTodo DEF TodoOk
  <2>2. \A a, b : <<a>>[1] = a /\ <<a, b>>[1] = a
    BY ONLY SequenceIs
  <2>3. todo[1].k # "store"
    BY <2>1, <2>2 DEF Opt
  <2> QED BY <2>3
<1> QED BY <1>1, <1>2

(* What StoreConfig puts into the record.                                           *)
LEMMA PutIs ==
  ASSUME NEW c \in Bytes, NEW d, Checksum(c) \in 0 .. 255, SizeOf \in 0 .. 255,
         d = [c EXCEPT !["checksum"] = Checksum(c), !["structsize"] = SizeOf, !["size_hi"] = 0]
  PROVE  /\ d \in Bytes /\ d["checksum"] = Checksum(c) /\ Sized(d)
         /\ \A f \in Setting \cup {"valid"} : d[f] = c[f]
<1>1. PICK B, x, y : B = 0 .. 255 /\ x = Checksum(c) /\ y = SizeOf
  OBVIOUS
<1>2. 0 \in B
  BY <1>1
<1>3. c \in [Field -> B] /\ x \in B /\ y \in B
  BY <1>1 DEF Bytes
<1>4. d = [c EXCEPT !["checksum"] = x, !["structsize"] = y, !["size_hi"] = 0]
  BY <1>1
<1>5. d = [f \in Field |-> IF f = "size_hi" THEN 0 ELSE IF f = "structsize" THEN y
                          ELSE IF f = "checksum" THEN x ELSE c[f]]
  BY ONLY <1>3, <1>4
<1>6. d \in [Field -> B]
  BY ONLY <1>2, <1>3, <1>5
<1>7. \A f \in Setting \cup {"valid"} : f \in Field /\ f \notin {"size_hi", "structsize", "checksum"}
  BY DEF Setting, Field
<1>8. \A f \in Setting \cup {"valid"} : d[f] = c[f]
  BY ONLY <1>5, <1>7
<1>9. d["checksum"] = x /\ d["structsize"] = y /\ d["size_hi"] = 0
  BY ONLY <1>5 DEF Field
<1> QED BY ONLY <1>1, <1>6, <1>8, <1>9 DEF Bytes, Sized

(* StoreConfig keeps the numbers.                                                *)
LEMMA StoreNum ==
  ASSUME Dutiful, NumInv, StoreConfig
  PROVE  NumInv'
<1>0. /\ pc = "options" /\ todo[1].k = "store" /\ TypeOk /\ ConfigOk
      /\ config' = [config EXCEPT !["checksum"] = Checksum(config), !["structsize"] = SizeOf,
                                    !["size_hi"] = 0]
      /\ unwritten' = {f \in Field : eeprom[f] # config'[f]}
      /\ pc' = "store" /\ todo' = Tail(todo)
      /\ UNCHANGED <<dev_cur, eeprom, msg, host>>
  BY DEF StoreConfig, NumInv, Bus
<1>1. msg.lun = "cmd" /\ Tail(todo) = <<>> /\ config["valid"] = 1
  BY <1>0, StoreTodo
<1>2. /\ config' \in Bytes /\ config'["valid"] = config["valid"] /\ Sized(config')
      /\ \A d \in Dev : config'[d] = config[d]
  <2>1. Checksum(config) \in 0 .. 255 /\ SizeOf \in 0 .. 255 /\ config \in Bytes
    BY <1>0, ChecksumIs DEF ConfigOk, SizeOf
  <2>2. /\ config' \in Bytes /\ Sized(config')
        /\ \A f \in Setting \cup {"valid"} : config'[f] = config[f]
    BY <1>0, <2>1, PutIs
  <2>3. Dev \subseteq Setting
    BY DEF Dev, Setting
  <2> QED BY <2>2, <2>3
<1>3. ConfigOk'
  BY <1>0, <1>1, <1>2 DEF ConfigOk, Numbered, Sized
<1>4. TypeOk'
  BY <1>0, <1>1 DEF TypeOk, Modes
<1>5. TodoOk'
  BY <1>0 DEF TodoOk
<1> QED BY <1>3, <1>4, <1>5 DEF NumInv

(* WriteByte keeps them, also those in the EEPROM: the block may be part old, part new. *)
LEMMA WriteByteNum ==
  ASSUME NumInv, WriteByte
  PROVE  NumInv'
<1>1. PICK f \in unwritten : eeprom' = [eeprom EXCEPT ![f] = config[f]] /\ unwritten' = unwritten \ {f}
  BY DEF WriteByte
<1>2. pc = "store" /\ ConfigOk /\ TypeOk /\ TodoOk /\ UNCHANGED <<dev_cur, config, pc, todo, msg, host>>
  BY DEF WriteByte, NumInv, Bus
<1>3. f \in Field /\ config["valid"] = 1 /\ Sized(config) /\ Numbered(config)
  BY <1>2 DEF ConfigOk, Numbered
<1>4. eeprom' \in Bytes /\ \A g \in Field : eeprom'[g] = eeprom[g] \/ eeprom'[g] = config[g]
  BY <1>1, <1>2, <1>3 DEF ConfigOk, Bytes
<1>5. eeprom'["valid"] = 1 /\ Sized(eeprom') /\ Numbered(eeprom')
  BY <1>2, <1>3, <1>4 DEF ConfigOk, Numbered, Field, Setting, Dev, Sized
<1>6. ConfigOk'
  BY <1>1, <1>2, <1>4, <1>5 DEF ConfigOk, Numbered, Sized
<1> QED BY <1>2, <1>6 DEF NumInv, TypeOk, TodoOk

(* The steps that neither set nor store anything.                              *)
LEMMA QuietNum ==
  ASSUME NumInv, Stored \/ Finish \/ WriteChunk \/ LoseChunk \/ EatRest \/ WriteEnds
  PROVE  NumInv'
<1>0. TypeOk /\ TodoOk /\ ConfigOk /\ DOMAIN host = Port
  BY DEF NumInv, TypeOk
<1>1. CASE Stored
  <2>1. todo = <<>> /\ pc' = "answer" /\ UNCHANGED <<dev_cur, config, todo, eeprom, unwritten, msg, host>> /\ pc = "store"
    BY <1>0, <1>1 DEF Stored, TypeOk, Bus
  <2>2. ConfigOk'
    BY <1>0, <2>1 DEF ConfigOk, Numbered
  <2> QED BY <1>0, <2>1, <2>2 DEF NumInv, TypeOk, TodoOk, Modes
<1>2. CASE Finish \/ EatRest
  <2>1. Kept /\ Finished /\ DOMAIN host' = Port /\ pc \in {"answer", "write"}
    BY <1>0, <1>2, ReplyIs DEF Finish, EatRest, Answer
  <2>2. ConfigOk'
    BY <1>0, <2>1, KeptOk DEF Finished
  <2> QED BY <1>0, <2>1, <2>2 DEF NumInv, TypeOk, TodoOk, Modes, Finished
<1>3. CASE WriteChunk \/ LoseChunk \/ WriteEnds
  <2>1. Kept /\ pc = "write" /\ msg' = msg /\ host' = host
        /\ (pc' = "write" \/ (pc' = "answer" /\ todo = <<>> /\ todo' = todo))
    BY <1>3 DEF WriteChunk, LoseChunk, WriteEnds, Bus
  <2>2. ConfigOk'
    BY <1>0, <2>1, KeptOk
  <2> QED BY <1>0, <2>1, <2>2 DEF NumInv, TypeOk, TodoOk, Modes
<1> QED BY <1>1, <1>2, <1>3

(* The defaults are numbers of the devices.                                       *)
LEMMA DefaultIs == Default \in [Dev -> Nat] /\ Numbered(Default) /\ \A d \in Dev : Default[d] \in 1 .. 255
BY DEF Default, Dev, Numbered, HasRange, Low, High

(* PowerCut keeps the numbers.                                                   *)
LEMMA PowerNum ==
  ASSUME NumInv, PowerCut
  PROVE  NumInv'
<1>1. config' \in Bytes /\ config'["valid"] = 0
  BY DEF PowerCut, ZeroConfig, Bytes, Field
<1>2. dev_cur' \in [Dev -> Nat]
  BY DEF PowerCut
<1>3. ConfigOk'
  BY <1>1, <1>2 DEF ConfigOk, PowerCut, NumInv, Numbered
<1>4. TypeOk' /\ TodoOk'
  BY DEF PowerCut, TypeOk, TodoOk, Modes
<1> QED BY <1>3, <1>4 DEF NumInv

(* A unit that has been set up is a start.                                         *)
LEMMA InitNum ==
  ASSUME Dutiful, Init
  PROVE  NumInv
<1>1. eeprom = Programmed
  BY DEF Init, Dutiful
<1> DEFINE c == [f \in Field |-> CASE f \in Dev -> Default[f] [] f = "structsize" -> SizeOf
                                   [] f \in DOMAIN Rate300 -> Rate300[f] [] f = "spacing" -> 2
                                   [] f = "size_hi" -> 0 [] OTHER -> 1]
<1>2. c \in Bytes
  <2>1. \A f \in Dev : Default[f] \in 0 .. 255
    BY DefaultIs
  <2>2. DOMAIN Rate300 = {"bps0", "bps1"} /\ \A f \in {"bps0", "bps1"} : Rate300[f] \in 0 .. 255
    BY DEF Rate300
  <2>3. SizeOf \in 0 .. 255
    BY DEF SizeOf
  <2> QED BY <2>1, <2>2, <2>3 DEF Bytes
<1>3. Checksum(c) \in 0 .. 255
  BY <1>2, ChecksumIs
<1>4. Programmed = [c EXCEPT !["checksum"] = Checksum(c)]
  BY DEF Programmed
<1>5. c["valid"] = 1 /\ Sized(c) /\ \A d \in Dev : c[d] = Default[d]
  <2>1. DOMAIN Rate300 = {"bps0", "bps1"}
    BY DEF Rate300
  <2> QED BY <2>1 DEF Field, Setting, Dev, Sized
<1> HIDE DEF c
<1>6. /\ eeprom \in Bytes /\ eeprom["valid"] = 1 /\ Sized(eeprom)
      /\ \A d \in Dev : eeprom[d] = Default[d]
  BY <1>1, <1>2, <1>3, <1>4, <1>5 DEF Bytes, Field, Setting, Dev, Sized
<1>7. Numbered(eeprom)
  BY <1>6, DefaultIs DEF Numbered
<1>8. config \in Bytes /\ config["valid"] = 0 /\ dev_cur \in [Dev -> Nat]
  BY DEF Init, ZeroConfig, Bytes, Field
<1>9. ConfigOk
  BY <1>6, <1>7, <1>8 DEF ConfigOk, Init
<1> QED BY <1>9 DEF NumInv, TypeOk, TodoOk, Init, Modes

(* Only a configuration that counts as one is taken, and all of it.               *)
LEMMA SetupIs ==
  ASSUME NumInv, Setup
  PROVE  /\ IF IsValid THEN config' = eeprom /\ dev_cur' = [d \in Dev |-> eeprom[d]]
            ELSE config' \in Bytes /\ config'["valid"] = 0 /\ dev_cur' = Default
         /\ pc = "boot" /\ pc' = "idle" /\ UNCHANGED <<opens, eeprom, unwritten, todo, out, msg, host, early>>
         /\ stored' = IF IsValid THEN {Contents(eeprom)} ELSE stored
<1> DEFINE c == IF IsValid THEN [eeprom EXCEPT !["valid"] = 1] ELSE ZeroConfig
           Ok(d) == c["valid"] = 1 /\ (d = "drv" \/ HasRange(d, c[d]))
<1>1. /\ dev_cur' = [d \in Dev |-> IF Ok(d) THEN c[d] ELSE Default[d]]
      /\ config' = [f \in Field |->
           CASE f \in {"bps0", "bps1"} /\ ~Ok("ser") -> Rate300[f]
             [] f \in {"line", "spacing"} /\ ~Ok("prn") -> 1
             [] OTHER -> c[f]]
      /\ stored' = IF IsValid THEN {Contents(eeprom)} ELSE stored
      /\ pc = "boot" /\ pc' = "idle" /\ UNCHANGED <<opens, eeprom, unwritten, todo, out, msg, host, early>>
  BY DEF Setup, Bus
<1>2. ConfigOk
  BY DEF NumInv
<1>3. CASE IsValid
  <2>1. c = eeprom
    BY <1>2, <1>3 DEF ConfigOk, Bytes, Field
  <2>2. \A d \in Dev : Ok(d)
    BY <1>2, <2>1 DEF ConfigOk, Numbered
  <2> HIDE DEF c, Ok
  <2>3. dev_cur' = [d \in Dev |-> eeprom[d]]
    BY <1>1, <2>1, <2>2
  <2>4. config' = [f \in Field |-> eeprom[f]]
    BY <1>1, <2>1, <2>2 DEF Dev
  <2>5. eeprom = [f \in Field |-> eeprom[f]]
    BY <1>2 DEF ConfigOk, Bytes
  <2> QED BY <1>1, <1>3, <2>3, <2>4, <2>5
<1>4. CASE ~IsValid
  <2>1. c = [f \in Field |-> 0]
    BY <1>4 DEF ZeroConfig
  <2>2. \A d : ~Ok(d)
    BY <2>1 DEF Field
  <2> HIDE DEF c, Ok
  <2>3. config' \in Bytes
    <3>1. \A f \in {"bps0", "bps1"} : Rate300[f] \in 0 .. 255
      BY DEF Rate300
    <3> QED BY <1>1, <2>1, <3>1 DEF Bytes
  <2>4. config'["valid"] = 0
    BY <1>1, <2>1 DEF Field
  <2>5. dev_cur' = [d \in Dev |-> Default[d]]
    BY <1>1, <2>2
  <2>6. Default = [d \in Dev |-> Default[d]]
    BY DefaultIs
  <2> QED BY <1>1, <1>4, <2>3, <2>4, <2>5, <2>6
<1> QED BY <1>3, <1>4

(* Setup keeps the numbers.                                                     *)
LEMMA SetupNum ==
  ASSUME NumInv, Setup
  PROVE  NumInv'
<1>1. /\ IF IsValid THEN config' = eeprom /\ dev_cur' = [d \in Dev |-> eeprom[d]]
         ELSE config' \in Bytes /\ config'["valid"] = 0 /\ dev_cur' = Default
      /\ pc = "boot" /\ pc' = "idle" /\ UNCHANGED <<eeprom, unwritten, todo, msg, host>>
      /\ ConfigOk /\ TypeOk
  BY SetupIs DEF NumInv
<1>2. dev_cur' \in [Dev -> Nat] /\ Numbered(dev_cur')
  <2>1. CASE IsValid
    <3>1. \A d \in Dev : eeprom[d] \in Nat /\ dev_cur'[d] = eeprom[d]
      BY <1>1, <2>1 DEF ConfigOk, Bytes, Field, Setting, Dev
    <3> QED BY <1>1, <2>1, <3>1 DEF ConfigOk, Numbered
  <2>2. CASE ~IsValid
    BY <1>1, <2>2, DefaultIs
  <2> QED BY <2>1, <2>2
<1>3. ConfigOk'
  BY <1>1, <1>2 DEF ConfigOk, Numbered, Sized
<1> QED BY <1>1, <1>3 DEF NumInv, TypeOk, TodoOk, Modes

(* Every step keeps the numbers,                                                 *)
LEMMA NumStep ==
  ASSUME Dutiful, NumInv, [Next]_vars
  PROVE  NumInv'
<1>1. CASE UNCHANGED vars
  BY <1>1 DEF vars, opens, rom, NumInv, TypeOk, TodoOk, ConfigOk, Numbered
<1> QED BY <1>1, ReceiveNum, ExecNum, StoreNum, WriteByteNum, QuietNum, PowerNum, SetupNum DEF Next, Unit

(* so NumInv is an invariant.                                                  *)
LEMMA NumInvariant == ASSUME Dutiful PROVE Spec => []NumInv
<1>1. Init => NumInv
  BY InitNum
<1>2. NumInv /\ [Next]_vars => NumInv'
  BY NumStep
<1> QED BY <1>1, <1>2, PTL DEF Spec

(* Each device answers to one number of its own range, the one in the configuration     *)
(* (hex_exec_cmd(), the inits): NumbersAgree, whatever the host does to one device on    *)
(* that device's own channel.                                                    *)
THEOREM NumbersStay == ASSUME Dutiful PROVE Spec => []NumbersAgree
<1>1. NumInv => NumbersAgree
  BY DEF NumInv, ConfigOk, NumbersAgree, Numbered
<1> QED BY <1>1, NumInvariant, PTL

-----------------------------------------------------------------------------
(* The host and the devices.                                                *)

(* It opens with options that are accepted.                                       *)
Agreeable == "badOpen" \notin Habits

(* After an answer the host and the devices agree, if it concludes what is so.            *)
LEMMA Answered ==
  ASSUME DOMAIN host = Port, NEW m, NEW r, NEW u, Reply(m, r, u),
         \A d \in Port \ {m.d} : host[d] \in {{"?"}, HowOpen(d)} /\ HowOpen(d)' = HowOpen(d),
         m.d \in Port => \A s \in {"none", r} : Concluded(m, s) \in {{"?"}, HowOpen(m.d)'}
  PROVE  HostOk'
<1>1. pc' = "idle"
  BY DEF Reply, Done
<1>2. PICK s \in {"none", r} : host' = IF m.d \in Port THEN [host EXCEPT ![m.d] = Concluded(m, s)] ELSE host
  BY DEF Reply
<1>3. \A d \in Port : host'[d] \in {{"?"}, HowOpen(d)'}
  <2>1. CASE m.d \in Port
    <3>1. host'[m.d] = Concluded(m, s)
      BY <1>2, <2>1
    <3>2. \A d \in Port \ {m.d} : host'[d] = host[d]
      BY <1>2, <2>1
    <3> QED BY <2>1, <3>1, <3>2
  <2>2. CASE m.d \notin Port
    BY <1>2, <2>2
  <2> QED BY <2>1, <2>2
<1> QED BY <1>1, <1>3 DEF HostOk, Opening

(* Every handler leaves them in agreement, or opening.                               *)
LEMMA HandleHost ==
  ASSUME NEW m, Handle(m), MsgOk(m), DOMAIN host = Port, pc = "idle",
         \A d \in Port : host[d] \in {{"?"}, HowOpen(d)}
  PROVE  HostOk'
<1>1. CASE Unsupported(m) \/ TooLong(m) \/ DataLost(m) \/ CloseCommand(m) \/ ReadDevice(m)
  <2>1. PICK r : Answer(m, r) /\ (r = "SUCCESS" => ~Is(m, "open", "data")) /\ ~Is(m, "close", "data")
    <3>1. CASE Unsupported(m)
      BY <3>1 DEF Unsupported, Is
    <3>2. CASE TooLong(m)
      BY <3>2 DEF TooLong, MsgOk, Is
    <3>3. CASE DataLost(m)
      BY <3>3 DEF DataLost, LostData, Is
    <3>4. CASE CloseCommand(m)
      BY <3>4 DEF CloseCommand, Is
    <3>5. CASE ReadDevice(m)
      BY <3>5 DEF ReadDevice, Is
    <3> QED BY <1>1, <3>1, <3>2, <3>3, <3>4, <3>5
  <2>2. UNCHANGED opens
    BY <1>1 DEF Unsupported, TooLong, DataLost, CloseCommand, ReadDevice
  <2>3. \A d : HowOpen(d)' = HowOpen(d)
    BY <2>2 DEF opens, HowOpen
  <2>4. m.d \in Port => \A s \in {"none", r} : Concluded(m, s) \in {{"?"}, HowOpen(m.d)'}
    BY <2>1, <2>3 DEF Concluded, Is
  <2> QED BY <2>1, <2>3, <2>4, Answered DEF Answer
<1>2. CASE SerClose(m) \/ PrnClose(m) \/ ClkClose(m)
  <2>1. PICK r : Answer(m, r) /\ Is(m, "close", "data") /\ m.d \in Port /\ HowOpen(m.d)' = {}
    BY <1>2 DEF SerClose, PrnClose, ClkClose, HowOpen, Port, Dev
  <2>2. \A d \in Port \ {m.d} : HowOpen(d)' = HowOpen(d)
    BY <1>2 DEF SerClose, PrnClose, ClkClose, HowOpen, Port, Dev
  <2>3. \A s \in {"none", r} : Concluded(m, s) \in {{"?"}, HowOpen(m.d)'}
    BY <2>1 DEF Concluded, Is
  <2> QED BY <2>1, <2>2, <2>3, Answered DEF Answer
<1>3. ASSUME NEW r, OpenRefused(m, r), r # "SUCCESS", Is(m, "open", "data")
      PROVE  HostOk'
  <2>1. \A d : HowOpen(d)' = HowOpen(d)
    BY <1>3 DEF OpenRefused, opens, HowOpen
  <2>2. m.d \in Port => \A s \in {"none", r} : Concluded(m, s) \in {{"?"}, HowOpen(m.d)'}
    BY <1>3, <2>1 DEF Concluded, Is
  <2> QED BY <1>3, <2>1, <2>2, Answered DEF OpenRefused, Answer
<1>4. CASE ClkOpen(m)
  <2>1. CASE rtc_open' = m.att /\ Answer(m, "SUCCESS") /\ UNCHANGED <<ser_open, prn_open, prn_cfg>>
    <3>1. \A d \in Port \ {m.d} : HowOpen(d)' = HowOpen(d)
      BY <1>4, <2>1 DEF ClkOpen, HowOpen, Port, Dev
    <3>2. HowOpen(m.d)' = m.att
      BY <1>4, <2>1 DEF ClkOpen, HowOpen
    <3>3. \A s \in {"none", "SUCCESS"} : Concluded(m, s) \in {{"?"}, HowOpen(m.d)'}
      BY <1>4, <3>2 DEF ClkOpen, Concluded, Is
    <3> QED BY <2>1, <3>1, <3>3, Answered DEF Answer
  <2> QED BY <1>3, <1>4, <2>1 DEF ClkOpen
<1>5. CASE ClkWrite(m)
  <2>1. PICK r, u : Reply(m, r, u)
    BY <1>5 DEF ClkWrite, Answer
  <2>2. \A d : HowOpen(d)' = HowOpen(d)
    BY <1>5 DEF ClkWrite, opens, HowOpen
  <2>3. m.d \in Port => \A s \in {"none", r} : Concluded(m, s) \in {{"?"}, HowOpen(m.d)'}
    BY <1>5, <2>2 DEF ClkWrite, Concluded, Is
  <2> QED BY <2>1, <2>2, <2>3, Answered
<1>6. CASE SerStatus(m)
  <2>1. host' = host /\ \A d : HowOpen(d)' = HowOpen(d)
    BY <1>6 DEF SerStatus, Silent, opens, HowOpen
  <2> QED BY <1>6, <2>1 DEF SerStatus, Silent, Done, HostOk, Opening
<1>7. CASE Reset(m)
  <2>1. \A d \in Port : HowOpen(d)' = IF m.d \in {d, "all"} THEN {} ELSE HowOpen(d)
    BY <1>7 DEF Reset, HowOpen, Port, Dev
  <2>2. \A d \in Port : host'[d] = IF m.d \in {d, "all"} THEN {} ELSE host[d]
    BY <1>7 DEF Reset
  <2> QED BY <1>7, <2>1, <2>2 DEF Reset, Done, HostOk, Opening
<1>8. CASE Command(m) \/ StartWrite(m)
  <2>1. PICK to, what : Begin(m, to, what)
    BY <1>8 DEF Command, Options, StartWrite
  <2>2. ~Is(m, "open", "data") /\ m.cmd \in {"open", "write"}
    BY <1>8 DEF Command, StartWrite, Is
  <2>3. host' = host /\ msg' = m /\ \A d : HowOpen(d)' = HowOpen(d)
    BY <1>8, <2>1, BeginIs DEF Command, StartWrite, opens, HowOpen
  <2> QED BY <2>2, <2>3 DEF HostOk, Opening
<1>9. ASSUME Options(m), Is(m, "open", "data"), m.d \in {"ser", "prn"}, HowOpen(m.d)' = m.att,
             \A d \in Port \ {m.d} : HowOpen(d)' = HowOpen(d)
      PROVE  HostOk'
  <2>1. Begin(m, IF m.opts = <<>> THEN "answer" ELSE "options", m.opts) /\ rc' = "SUCCESS"
    BY <1>9 DEF Options
  <2>2. pc' \in {"options", "answer"} /\ msg' = m /\ host' = host
    BY <2>1, BeginIs
  <2> QED BY <1>9, <2>1, <2>2 DEF HostOk, Opening, Is
<1>10. CASE SerOpen(m)
  <2>1. CASE ser_open' = m.att /\ Options(m) /\ UNCHANGED <<prn_open, rtc_open, prn_cfg>>
    <3>1. HowOpen(m.d)' = m.att /\ \A d \in Port \ {m.d} : HowOpen(d)' = HowOpen(d)
      BY <1>10, <2>1 DEF SerOpen, HowOpen, Port, Dev
    <3> QED BY <1>9, <1>10, <2>1, <3>1 DEF SerOpen
  <2> QED BY <1>3, <1>10, <2>1 DEF SerOpen
<1>11. CASE PrnOpen(m)
  <2>1. CASE m.att = {"W"} /\ prn_open' = {"W"} /\ Options(m) /\ UNCHANGED <<ser_open, rtc_open>>
    <3>1. HowOpen(m.d)' = m.att /\ \A d \in Port \ {m.d} : HowOpen(d)' = HowOpen(d)
      BY <1>11, <2>1 DEF PrnOpen, HowOpen, Port, Dev
    <3> QED BY <1>9, <1>11, <2>1, <3>1 DEF PrnOpen
  <2> QED BY <1>3, <1>11, <2>1 DEF PrnOpen
<1> QED BY <1>1, <1>2, <1>4, <1>5, <1>6, <1>7, <1>8, <1>10, <1>11 DEF Handle

(* The options of an OPEN are accepted.                                        *)
LEMMA OptionAccepted ==
  ASSUME Agreeable, NumInv, HostOk, ExecOption, Opening
  PROVE  rc' = "SUCCESS"
<1>1. todo # <<>> /\ (todo \in OpenOptions(msg.d) \/ (msg.d = "ser" /\ todo = <<Opt("value", 600)>>))
  BY DEF NumInv, TypeOk, TodoOk, ExecOption, Opening, Is
<1>2. /\ msg.lun # "cmd"
      /\ \/ msg.d = "ser" /\ todo[1] \in {Opt("lenient", 0), Opt("value", 600)}
         \/ msg.d = "prn" /\ todo[1] = Opt("line", 0)
  <2>1. \A a, b : <<a>>[1] = a /\ <<a, b>>[1] = a
    BY ONLY SequenceIs
  <2> QED BY <1>1, <2>1, OpenTodo DEF Agreeable, Opening, Is
<1>3. ExecOne(todo[1])
  BY DEF ExecOption
<1>4. CASE msg.d = "ser"
  <2>1. todo[1].k \in {"lenient", "value"} /\ (todo[1].k = "value" => todo[1].n = 600)
    BY <1>2, <1>4 DEF Opt
  <2>2. SetSer(todo[1])
    BY <1>3, <1>4, <2>1 DEF ExecOne
  <2> QED BY <2>1, <2>2 DEF SetSer
<1>5. CASE msg.d = "prn"
  <2>1. todo[1].k = "line" /\ todo[1].n = 0
    BY <1>2, <1>5 DEF Opt
  <2>2. SetPrn(todo[1])
    BY <1>3, <1>5, <2>1 DEF ExecOne
  <2> QED BY <2>1, <2>2 DEF SetPrn
<1> QED BY <1>2, <1>4, <1>5

(* Every step keeps HostOk.                                                     *)
LEMMA HostStep ==
  ASSUME Dutiful, Agreeable, NumInv, HostOk, [Next]_vars
  PROVE  HostOk'
<1>0. DOMAIN host = Port
  BY DEF NumInv, TypeOk
<1>1. CASE Receive
  <2>1. dev_cur \in [Dev -> Nat] /\ Numbered(dev_cur) /\ pc = "idle"
    BY <1>1 DEF NumInv, ConfigOk, Receive
  <2>2. PICK m : Handle(m) /\ MsgOk(m)
    BY <1>1, <2>1, ReceivedIs
  <2>3. \A d \in Port : host[d] \in {{"?"}, HowOpen(d)}
    BY <2>1 DEF HostOk, Opening
  <2> QED BY <1>0, <2>1, <2>2, <2>3, HandleHost
<1>2. CASE ExecOption
  <2>1. /\ pc = "options" /\ pc' \in {"options", "answer"}
        /\ msg' = msg /\ host' = host /\ \A d : HowOpen(d)' = HowOpen(d)
    BY <1>2 DEF ExecOption, Bus, opens, HowOpen
  <2>2. Opening => rc' = "SUCCESS"
    BY <1>2, OptionAccepted
  <2>3. msg.cmd \in {"open", "write"}
    BY <2>1 DEF NumInv, TypeOk
  <2> QED BY <2>1, <2>2, <2>3 DEF HostOk, Opening
<1>3. CASE StoreConfig \/ WriteByte \/ Stored
  <2>1. /\ msg' = msg /\ host' = host /\ \A d : HowOpen(d)' = HowOpen(d)
    BY <1>3 DEF StoreConfig, WriteByte, Stored, Bus, opens, HowOpen
  <2>2. msg.lun = "cmd" /\ msg.cmd \in {"open", "write"}
    BY <1>3, StoreTodo DEF StoreConfig, WriteByte, Stored, NumInv, TypeOk
  <2> QED BY <2>1, <2>2 DEF HostOk, Opening, Is
<1>4. CASE Finish
  <2>0. PICK m : m = msg
    OBVIOUS
  <2>1. Reply(m, rc, todo # <<>> \/ msg.long) /\ pc = "answer" /\ UNCHANGED opens
    BY <1>4, <2>0 DEF Finish
  <2>2. \A d : HowOpen(d)' = HowOpen(d)
    BY <2>1 DEF opens, HowOpen
  <2>3. \A d \in Port \ {m.d} : host[d] \in {{"?"}, HowOpen(d)}
    BY <2>0 DEF HostOk
  <2>4. m.d \in Port => \A s \in {"none", rc} : Concluded(m, s) \in {{"?"}, HowOpen(m.d)'}
    <3>1. CASE Opening
      BY <2>0, <2>2, <3>1 DEF Concluded, Opening, HostOk, Is
    <3>2. CASE ~Opening
      <4>1. ~Is(m, "open", "data") /\ ~Is(m, "close", "data") /\ m.cmd # "close"
        BY <2>0, <2>1, <3>2 DEF Opening, HostOk, Is
      <4>2. m.d \in Port => host[m.d] \in {{"?"}, HowOpen(m.d)}
        BY <2>0, <3>2 DEF HostOk
      <4> QED BY <2>2, <4>1, <4>2 DEF Concluded, Is
    <3> QED BY <3>1, <3>2
  <2> QED BY <1>0, <2>1, <2>2, <2>3, <2>4, Answered
<1>5. CASE WriteChunk \/ LoseChunk \/ WriteEnds
  <2>1. /\ msg' = msg /\ host' = host /\ pc = "write" /\ \A d : HowOpen(d)' = HowOpen(d)
    BY <1>5 DEF WriteChunk, LoseChunk, WriteEnds, Bus, opens, HowOpen
  <2>2. Is(msg, "write", "data")
    BY <2>1 DEF NumInv, TypeOk
  <2> QED BY <2>1, <2>2 DEF HostOk, Opening, Is
<1>6. CASE EatRest
  <2>0. PICK m : m = msg
    OBVIOUS
  <2>1. Reply(m, rc, FALSE) /\ pc = "write" /\ UNCHANGED opens
    BY <1>6, <2>0 DEF EatRest, Answer
  <2>2. \A d : HowOpen(d)' = HowOpen(d)
    BY <2>1 DEF opens, HowOpen
  <2>3. Is(m, "write", "data") /\ \A d \in Port : host[d] \in {{"?"}, HowOpen(d)}
    BY <2>0, <2>1 DEF NumInv, TypeOk, HostOk, Opening
  <2>4. m.d \in Port => \A s \in {"none", rc} : Concluded(m, s) \in {{"?"}, HowOpen(m.d)'}
    BY <2>2, <2>3 DEF Concluded, Is
  <2> QED BY <1>0, <2>1, <2>2, <2>3, <2>4, Answered
<1>7. CASE Setup
  <2>1. pc' = "idle" /\ pc = "boot" /\ UNCHANGED <<opens, host>>
    BY <1>7 DEF Setup, Bus
  <2> QED BY <2>1 DEF HostOk, Opening, opens, HowOpen
<1>8. CASE PowerCut
  BY <1>8 DEF PowerCut, HostOk, Opening, HowOpen, Port, Dev
<1>9. CASE UNCHANGED vars
  BY <1>9 DEF vars, opens, HostOk, Opening, HowOpen
<1> QED BY <1>1, <1>2, <1>3, <1>4, <1>5, <1>6, <1>7, <1>8, <1>9 DEF Next, Unit

(* A device is open exactly as the host can tell from the answers it got: HostAgrees      *)
(* (ser_open(), prn_open(), clk_open() and the closes).                              *)
THEOREM HostKnows == ASSUME Dutiful, Agreeable PROVE Spec => []HostAgrees
<1>1. Init => HostOk
  BY DEF Init, HostOk, Opening, HowOpen, Port, Dev
<1>2. NumInv /\ HostOk /\ [Next]_vars => HostOk'
  BY HostStep
<1>3. HostOk => HostAgrees
  BY DEF HostOk, Opening, HostAgrees
<1> QED BY <1>1, <1>2, <1>3, NumInvariant, PTL DEF Spec

-----------------------------------------------------------------------------
(* The data.                                                                *)

(* It writes to a clock it has open for writing, and sends no more than fits.            *)
Patient == {"clockWrite", "long"} \cap Habits = {}

(* What the host writes is a sequence of numbers.                                   *)
LEMMA DataIs ==
  ASSUME NEW s \in Data
  PROVE  s \in Seq(Nat) /\ Len(s) \in Nat /\ (s = <<>> <=> Len(s) = 0)
<1>1. PICK n \in 0 .. TextLen : s = [i \in 1 .. n |-> 64 + i]
  BY DEF Data
<1>2. s \in [1 .. n -> Nat] /\ n \in Nat
  BY <1>1, DevicesAssumption
<1> QED BY <1>2, EmptySeq, LenProperties

(* The arithmetic of the next lemma.                                              *)
LEMMA Sums ==
  \A n, k, b, t \in Int :
    (n + 1) + 1 - 1 = n + 1 /\ (n + 1) + k - 1 = n + k /\ (t <= b \/ t > b)
OBVIOUS

(* A part of a part.                                                          *)
LEMMA Within ==
  ASSUME NEW s \in Seq(Nat), NEW i \in 1 .. Len(s), NEW j \in 1 .. Len(s),
         NEW m \in 1 .. j - i + 1, NEW n \in 1 .. j - i + 1
  PROVE  SubSeq(SubSeq(s, i, j), m, n) = SubSeq(s, i + m - 1, i + n - 1)
BY SubSeqOfSubSeq

(* What is sent of what is left, and what that makes.                              *)
Piece(t) == IF Len(t) < BUFSIZE THEN Len(t) ELSE BUFSIZE
Cut(s, n, t, k) ==
         /\ Len(t) = Len(s) - n /\ k \in 1 .. Len(t) /\ k <= BUFSIZE
         /\ SubSeq(t, 1, k) = SubSeq(s, n + 1, n + k) /\ Len(SubSeq(t, 1, k)) = k
         /\ SubSeq(s, 1, n) \o SubSeq(t, 1, k) = SubSeq(s, 1, n + k)
         /\ SubSeq(t, BUFSIZE + 1, Len(t)) = SubSeq(s, n + k + 1, Len(s))
(* A buffer's worth of what is left is the next of the text, and the rest is left.         *)
LEMMA Pieces ==
  ASSUME NEW s \in Seq(Nat), NEW n \in 0 .. Len(s), NEW t, t = SubSeq(s, n + 1, Len(s)), t # <<>>
  PROVE  Cut(s, n, t, Piece(t))
<1> DEFINE k == Piece(t)
<1>0. Len(s) \in Nat /\ n \in Nat /\ BUFSIZE \in Nat \ {0}
  BY LenProperties, DevicesAssumption
<1> k = IF Len(t) < BUFSIZE THEN Len(t) ELSE BUFSIZE
  BY DEF Piece
<1> HIDE DEF k
<1>1. n < Len(s)
  BY <1>0, SubSeqEmpty
<1>2. \A i \in n + 1 .. Len(s) : s[i] \in Nat
  BY <1>0, ElementOfSeq
<1>3. t \in Seq(Nat) /\ Len(t) = Len(s) - n
  BY <1>0, <1>1, <1>2, SubSeqProperties
<1>4. k \in 1 .. Len(t) /\ k <= BUFSIZE /\ k \in Nat
  BY <1>0, <1>1, <1>3
<1>5. SubSeq(t, 1, k) = SubSeq(s, n + 1, n + k)
  <2>1. SubSeq(t, 1, k) = SubSeq(s, (n + 1) + 1 - 1, (n + 1) + k - 1)
    <3>1. /\ n + 1 \in 1 .. Len(s) /\ Len(s) \in 1 .. Len(s)
          /\ 1 \in 1 .. Len(s) - (n + 1) + 1 /\ k \in 1 .. Len(s) - (n + 1) + 1
      BY <1>0, <1>1, <1>3, <1>4
    <3> QED BY <1>3, <3>1, SubSeqOfSubSeq
  <2>2. (n + 1) + 1 - 1 = n + 1 /\ (n + 1) + k - 1 = n + k
    <3>1. n \in Int /\ k \in Int
      BY <1>0, <1>4
    <3> QED BY <3>1, Sums
  <2> QED BY <2>1, <2>2
<1>6. Len(SubSeq(t, 1, k)) = k
  <2>1. \A i \in 1 .. k : t[i] \in Nat
    BY <1>3, <1>4, ElementOfSeq
  <2> QED BY <1>4, <2>1, SubSeqProperties
<1>7. SubSeq(s, 1, n) \o SubSeq(s, n + 1, n + k) = SubSeq(s, 1, n + k)
  <2>1. 1 \in 1 .. Len(s) + 1 /\ n \in 1 - 1 .. Len(s) /\ n + k \in n .. Len(s)
    BY <1>0, <1>1, <1>3, <1>4
  <2> QED BY <2>1, ConcatAdjacentSubSeq
<1>8. SubSeq(t, BUFSIZE + 1, Len(t)) = SubSeq(s, n + k + 1, Len(s))
  <2>1. CASE Len(t) <= BUFSIZE
    <3>1. k = Len(t)
      BY <1>0, <1>3, <1>4, <2>1
    <3>2. SubSeq(t, BUFSIZE + 1, Len(t)) = <<>>
      BY <1>0, <1>3, <2>1, SubSeqEmpty
    <3>3. SubSeq(s, n + k + 1, Len(s)) = <<>>
      <4>1. n + k + 1 \in Int /\ Len(s) \in Int /\ Len(s) < n + k + 1
        BY <1>0, <1>3, <1>4, <3>1
      <4> QED BY <4>1, SubSeqEmpty
    <3> QED BY <3>2, <3>3
  <2>2. CASE Len(t) > BUFSIZE
    <3>1. k = BUFSIZE
      BY <1>0, <1>3, <2>2
    <3>2. PICK i, j, b : i = n + 1 /\ j = Len(s) /\ b = BUFSIZE + 1
      OBVIOUS
    <3>3. /\ i \in 1 .. Len(s) /\ j \in 1 .. Len(s)
          /\ b \in 1 .. j - i + 1 /\ Len(t) \in 1 .. j - i + 1
      BY <1>0, <1>1, <1>3, <2>2, <3>2
    <3>4. SubSeq(SubSeq(s, i, j), b, Len(t)) = SubSeq(s, i + b - 1, i + Len(t) - 1)
      BY <3>3, Within
    <3>5. i + b - 1 = n + k + 1 /\ i + Len(t) - 1 = j
      <4>1. /\ n \in Int /\ Len(s) \in Int /\ Len(t) \in Int /\ BUFSIZE \in Int
            /\ Len(t) = Len(s) - n
        BY <1>0, <1>3
      <4> QED BY ONLY <3>1, <3>2, <4>1
    <3> QED BY <3>2, <3>4, <3>5
  <2>3. Len(t) \in Int /\ BUFSIZE \in Int
    BY <1>0, <1>3
  <2> QED BY <2>1, <2>2, <2>3, Sums
<1> QED BY <1>3, <1>4, <1>5, <1>6, <1>7, <1>8 DEF Cut, k

(* The beginning and the end of a text.                                            *)
LEMMA StartOf ==
  ASSUME NEW s \in Seq(Nat)
  PROVE  /\ SubSeq(s, 1, 0) = <<>> /\ SubSeq(s, 0 + 1, Len(s)) = s /\ SubSeq(s, 1, Len(s)) = s
         /\ \A n \in 0 .. Len(s) : SubSeq(s, 1, n) \o <<>> = SubSeq(s, 1, n)
         /\ \A n \in 0 .. Len(s) : SubSeq(s, n + 1, Len(s)) = <<>> => n = Len(s)
<1>0. Len(s) \in Nat
  BY LenProperties
<1>1. SubSeq(s, 1, 0) = <<>> /\ SubSeq(s, 1, Len(s)) = s
  BY SubSeqEmpty, SubSeqFull
<1>2. ASSUME NEW n \in 0 .. Len(s)
      PROVE  SubSeq(s, 1, n) \o <<>> = SubSeq(s, 1, n)
  <2>1. \A i \in 1 .. n : s[i] \in Nat
    BY <1>0, ElementOfSeq
  <2>2. SubSeq(s, 1, n) \in Seq(Nat)
    BY <1>0, <2>1, SubSeqProperties
  <2> QED BY <2>2, ConcatEmptySeq
<1>3. ASSUME NEW n \in 0 .. Len(s), SubSeq(s, n + 1, Len(s)) = <<>>
      PROVE  n = Len(s)
  <2>1. \A i \in n + 1 .. Len(s) : s[i] \in Nat
    BY <1>0, ElementOfSeq
  <2>2. Len(SubSeq(s, n + 1, Len(s))) = IF n + 1 <= Len(s) THEN Len(s) - (n + 1) + 1 ELSE 0
    BY <1>0, <2>1, SubSeqProperties
  <2>3. Len(<<>>) = 0
    BY EmptySeq
  <2>4. ~(n + 1 <= Len(s))
    <3>1. CASE n + 1 <= Len(s)
      <4>1. Len(s) - (n + 1) + 1 = 0
        BY <1>3, <2>2, <2>3, <3>1
      <4> QED BY <1>0, <3>1, <4>1
    <3> QED BY <3>1
  <2> QED BY <1>0, <2>4
<1>4. 0 + 1 = 1
  OBVIOUS
<1> QED BY <1>1, <1>2, <1>3, <1>4

(* No answer comes before the message has been read. *)
LEMMA HandleData ==
  ASSUME NEW m, Handle(m), MsgOk(m), m.d = "clk" /\ m.long => "long" \in Habits,
         Is(m, "write", "data") /\ m.d = "clk" => "W" \in rtc_open \/ "clockWrite" \in Habits,
         Patient
  PROVE  ~early' /\ (Finished \/ (out' = <<>> /\ ~m.long))
<1>1. ASSUME NEW r, Answer(m, r)
      PROVE  ~early' /\ Finished
  BY <1>1 DEF Answer, Reply, Done, Finished
<1>2. ASSUME NEW to, NEW what, Begin(m, to, what), ~m.long
      PROVE  ~early' /\ out' = <<>> /\ ~m.long
  BY <1>2 DEF Begin
<1>3. CASE Unsupported(m) \/ TooLong(m) \/ DataLost(m) \/ CloseCommand(m) \/ ReadDevice(m)
  BY <1>1, <1>3 DEF Unsupported, TooLong, DataLost, CloseCommand, ReadDevice
<1>4. CASE SerClose(m) \/ PrnClose(m) \/ ClkClose(m) \/ ClkOpen(m)
  BY <1>1, <1>4 DEF SerClose, PrnClose, ClkClose, ClkOpen, OpenRefused
<1>5. CASE ClkWrite(m)
  BY <1>1, <1>5 DEF ClkWrite, Patient
<1>6. CASE SerStatus(m)
  BY <1>6 DEF SerStatus, Silent, Done, Finished
<1>7. CASE Reset(m)
  BY <1>7 DEF Reset, Done, Finished
<1>8. CASE Command(m)
  <2>1. ~m.long
    BY <1>8 DEF Command, Got, CutShort, Patient
  <2> QED BY <1>2, <1>8, <2>1 DEF Command, Options
<1>9. CASE SerOpen(m) \/ PrnOpen(m)
  <2>1. ~m.long
    BY <1>9 DEF SerOpen, PrnOpen, MsgOk, Is
  <2>2. Options(m) \/ \E r : Answer(m, r)
    BY <1>9 DEF SerOpen, PrnOpen, OpenRefused
  <2>3. CASE Options(m)
    BY <1>2, <2>1, <2>3 DEF Options
  <2> QED BY <1>1, <2>2, <2>3
<1>10. CASE StartWrite(m)
  <2>1. ~m.long
    BY <1>10 DEF StartWrite, MsgOk, Is
  <2> QED BY <1>2, <1>10, <2>1 DEF StartWrite
<1> QED BY <1>3, <1>4, <1>5, <1>6, <1>7, <1>8, <1>9, <1>10 DEF Handle

(* When the unit is ready there are no data.                                         *)
LEMMA AtRest ==
  ASSUME ~early', pc' \in {"idle", "boot"}, msg' = NoMsg
  PROVE  DataOk'
<1>1. ~Is(msg, "write", "data")'
  BY DEF NoMsg, Msg, Is
<1> QED BY <1>1 DEF DataOk, Carried

(* A message that begins a write has all of its data before it.                       *)
LEMMA ReceiveData ==
  ASSUME Patient, NumInv, Receive
  PROVE  DataOk'
<1>1. dev_cur \in [Dev -> Nat] /\ Numbered(dev_cur) /\ pc = "idle" /\ DOMAIN host = Port
  BY DEF NumInv, TypeOk, ConfigOk, Receive
<1>2. PICK m : /\ Handle(m) /\ MsgOk(m) /\ (m.d = "clk" /\ m.long => "long" \in Habits)
               /\ Is(m, "write", "data") => m.data \in Data
               /\ Is(m, "write", "data") /\ m.d = "clk" => "W" \in rtc_open \/ "clockWrite" \in Habits
               /\ Is(m, "write", "data") /\ m.d = "ser" => Len(m.data) <= BUFSIZE \/ "long" \in Habits
               /\ m.lun = "cmd" /\ m.cmd \in {"open", "write"} => m.opts # <<>>
  BY <1>1, ReceivedIs
<1>3. ~early' /\ (Finished \/ (out' = <<>> /\ ~m.long))
  BY <1>2, HandleData
<1>4. Finished \/ Begun(m)
  BY <1>1, <1>2, HandleIs
<1>5. CASE Finished
  BY <1>3, <1>5, AtRest DEF Finished
<1>6. CASE ~Finished /\ Begun(m) /\ pc' = "write"
  <2>1. /\ msg' = m /\ todo' = m.data /\ out' = <<>> /\ ~m.long /\ Is(m, "write", "data") /\ m.data \in Data
        /\ m.d = "ser" => Len(m.data) <= BUFSIZE
    BY <1>2, <1>3, <1>6 DEF Begun, Patient
  <2>2. m.data \in Seq(Nat) /\ 0 \in 0 .. Len(m.data)
    BY <2>1, DataIs
  <2>3. SubSeq(m.data, 1, 0) = <<>> /\ SubSeq(m.data, 0 + 1, Len(m.data)) = m.data /\ <<>> \o <<>> = <<>>
    BY <2>2, StartOf
  <2>4. Taken'
    BY <2>1, <2>2, <2>3 DEF Taken
  <2>5. Carried'
    BY <1>6, <2>1, <2>2, <2>3 DEF Carried
  <2> QED BY <1>3, <1>6, <2>1, <2>4, <2>5 DEF DataOk
<1>7. CASE ~Finished /\ Begun(m) /\ pc' # "write"
  <2>1. msg' = m /\ ~m.long /\ ~Is(m, "write", "data")
    BY <1>3, <1>7 DEF Begun, Is
  <2> QED BY <1>3, <1>7, <2>1 DEF DataOk, Carried
<1> QED BY <1>4, <1>5, <1>6, <1>7

(* One buffer more of the data has gone, and it is the next.                    *)
LEMMA ChunkData ==
  ASSUME NumInv, DataOk, WriteChunk \/ LoseChunk
  PROVE  DataOk'
<1>1. /\ pc = "write" /\ pc' = "write" /\ todo # <<>> /\ rc = "SUCCESS" /\ todo' = Rest
      /\ UNCHANGED <<msg, early>>
      /\ \/ rc' = "SUCCESS" /\ out' = out \o Sent
         \/ rc' = "DATA_ERR" /\ out' = out
  BY DEF WriteChunk, LoseChunk, Bus
<1>2. PICK s : s = msg.data
  OBVIOUS
<1>3. s \in Data /\ s \in Seq(Nat) /\ Len(s) \in Nat /\ (msg.d = "ser" => Len(s) <= BUFSIZE)
  BY <1>1, <1>2, DataIs DEF DataOk
<1>4. PICK n \in 0 .. Len(s) : out = SubSeq(s, 1, n) /\ todo = SubSeq(s, n + 1, Len(s))
  BY <1>1, <1>2 DEF DataOk, Taken
<1>5. PICK k : k = IF Len(todo) < BUFSIZE THEN Len(todo) ELSE BUFSIZE
  OBVIOUS
<1>6. /\ Len(todo) = Len(s) - n /\ k \in 1 .. Len(todo) /\ k <= BUFSIZE
      /\ Len(Chunk) = k /\ out \o Chunk = SubSeq(s, 1, n + k) /\ Rest = SubSeq(s, n + k + 1, Len(s))
      /\ Chunk = SubSeq(s, n + 1, n + k)
  <2>1. Chunk = SubSeq(todo, 1, k) /\ Rest = SubSeq(todo, BUFSIZE + 1, Len(todo))
    BY <1>5 DEF Chunk, Rest
  <2>2. PICK t : t = todo
    OBVIOUS
  <2>3. t = SubSeq(s, n + 1, Len(s)) /\ t # <<>> /\ k = Piece(t)
    BY <1>1, <1>4, <1>5, <2>2 DEF Piece
  <2>4. Cut(s, n, t, Piece(t))
    BY <1>3, <2>3, Pieces
  <2> QED BY <1>4, <2>1, <2>2, <2>3, <2>4 DEF Cut
<1>7. n + k \in 0 .. Len(s)
  BY <1>3, <1>6
<1>8. Sent = Chunk
  <2>1. CASE msg.d = "ser"
    <3>1. Len(todo) - Len(Chunk) = 0
      BY <1>3, <1>5, <1>6, <2>1, DevicesAssumption
    <3>2. [i \in 1 .. Len(todo) - Len(Chunk) |-> 256] = <<>>
      BY <3>1
    <3>3. Chunk \in Seq(Nat)
      BY <1>3, <1>6, <1>7
    <3>4. Chunk \o <<>> = Chunk
      BY <3>3, ConcatEmptySeq
    <3> QED BY <2>1, <3>2, <3>4 DEF Sent
  <2> QED BY <2>1 DEF Sent
<1>9. Taken'
  <2>1. CASE rc' = "SUCCESS" /\ out' = out \o Sent
    BY <1>1, <1>2, <1>6, <1>7, <1>8, <2>1 DEF Taken
  <2>2. CASE rc' = "DATA_ERR" /\ out' = out
    BY <1>1, <1>2, <1>4, <2>2 DEF Taken
  <2> QED BY <1>1, <2>1, <2>2
<1>10. Carried'
  <2>1. PICK j \in 0 .. Len(s) : out' = SubSeq(s, 1, j)
    BY <1>1, <1>2, <1>9 DEF Taken
  <2>2. out' = SubSeq(s, 1, j) \o <<>>
    BY <1>3, <2>1, StartOf
  <2> QED BY <1>1, <1>2, <2>1, <2>2 DEF Carried
<1> QED BY <1>1, <1>9, <1>10 DEF DataOk

(* All of the data has gone if the answer is SUCCESS. *)
LEMMA EndData ==
  ASSUME NumInv, DataOk, WriteEnds
  PROVE  DataOk'
<1>1. /\ pc = "write" /\ pc' = "answer" /\ todo = <<>> /\ UNCHANGED <<msg, early, rc, prn_cfg>>
      /\ out' = IF out # <<>> THEN out \o Line ELSE out
  BY DEF WriteEnds, Bus
<1>2. PICK s : s = msg.data
  OBVIOUS
<1>3. s \in Seq(Nat) /\ Len(s) \in Nat
  BY <1>1, <1>2, DataIs DEF DataOk
<1>4. PICK n \in 0 .. Len(s) :
        out = SubSeq(s, 1, n) /\ (rc = "SUCCESS" => todo = SubSeq(s, n + 1, Len(s)))
  BY <1>1, <1>2 DEF DataOk, Taken
<1>5. Line' = Line
  BY <1>1 DEF Line
<1>6. out' \in {SubSeq(s, 1, n) \o <<>>, SubSeq(s, 1, n) \o Line}
  <2>1. out = SubSeq(s, 1, n) \o <<>>
    BY <1>3, <1>4, StartOf
  <2> QED BY <1>1, <1>4, <2>1
<1>7. rc = "SUCCESS" /\ s # <<>> => out' = s \o Line
  BY <1>1, <1>3, <1>4, StartOf
<1>8. Carried'
  BY <1>1, <1>2, <1>5, <1>6, <1>7 DEF Carried
<1> QED BY <1>1, <1>8 DEF DataOk

(* Every step keeps DataOk.                                                      *)
LEMMA DataStep ==
  ASSUME Patient, Dutiful, NumInv, DataOk, [Next]_vars
  PROVE  DataOk'
<1>1. CASE ExecOption \/ StoreConfig \/ WriteByte \/ Stored
  <2>1. UNCHANGED <<out, msg, early>> /\ pc \in {"options", "store"} /\ pc' \in {"options", "store", "answer"}
    BY <1>1 DEF ExecOption, StoreConfig, WriteByte, Stored, Bus
  <2>2. ~Is(msg, "write", "data") /\ msg' = msg
    BY <2>1 DEF DataOk
  <2>3. ~Is(msg, "write", "data")'
    BY <2>2 DEF Is
  <2> QED BY <2>1, <2>3 DEF DataOk, Carried
<1>2. CASE Finish
  <2>1. Reply(msg, rc, todo # <<>> \/ msg.long) /\ todo = <<>> /\ ~msg.long
    BY <1>2 DEF Finish, NumInv, TypeOk, DataOk
  <2>2. ~early' /\ pc' = "idle" /\ msg' = NoMsg
    BY <2>1 DEF Reply, Done
  <2> QED BY <2>2, AtRest
<1>3. CASE EatRest
  <2>1. ~early' /\ pc' = "idle" /\ msg' = NoMsg
    BY <1>3 DEF EatRest, Answer, Reply, Done
  <2> QED BY <2>1, AtRest
<1>4. CASE Setup
  <2>1. pc = "boot" /\ pc' = "idle" /\ UNCHANGED <<msg, early>>
    BY <1>4, SetupIs
  <2> QED BY <2>1, AtRest DEF DataOk, NumInv, TypeOk
<1>5. CASE PowerCut
  BY <1>5, AtRest DEF PowerCut
<1>6. CASE UNCHANGED vars
  BY <1>6 DEF vars, DataOk, Taken, Carried, Line
<1> QED BY <1>1, <1>2, <1>3, <1>4, <1>5, <1>6, ReceiveData, ChunkData, EndData DEF Next, Unit

(* A message is taken to its end before the answer, and what is sent is its data, all of  *)
(* it if the answer is SUCCESS: DataTaken (hex_get_data(), hex_eat_it(), ser_write(),      *)
(* prn_write()).                                                              *)
THEOREM DataIsTaken == ASSUME Dutiful, Patient PROVE Spec => []DataTaken
<1>1. Init => DataOk
  <2>1. ~Is(NoMsg, "write", "data")
    BY DEF NoMsg, Msg, Is
  <2> QED BY <2>1 DEF Init, DataOk, Carried
<1>2. NumInv /\ DataOk /\ [Next]_vars => DataOk'
  BY DataStep
<1>3. DataOk => DataTaken
  BY DEF DataOk, DataTaken, TakenFirst
<1> QED BY <1>1, <1>2, <1>3, NumInvariant, PTL DEF Spec

-----------------------------------------------------------------------------
(* The configuration: what a cut leaves of a store.                         *)

(* A sum modulo 256 tells two bytes apart.                                          *)
LEMMA ModCancel ==
  ASSUME NEW x \in Nat, NEW y \in Nat, NEW r \in Nat, x < 256, y < 256,
         (x + r) % 256 = (y + r) % 256
  PROVE  x = y
<1>1. \A a, b \in Nat : a % 256 = b % 256 /\ a - b < 256 /\ b - a < 256 => a = b
  OBVIOUS
<1>2. x + r \in Nat /\ y + r \in Nat /\ (x + r) - (y + r) < 256 /\ (y + r) - (x + r) < 256
  OBVIOUS
<1>3. x + r = y + r
  BY <1>1, <1>2
<1> QED BY <1>3

(* A checksum tells a record from one that differs in one byte.                       *)
LEMMA OneField ==
  ASSUME NEW c \in Bytes, NEW d \in Bytes, NEW f \in Setting, c["structsize"] = d["structsize"],
         c["size_hi"] = d["size_hi"], \A g \in Setting \ {f} : c[g] = d[g], Checksum(c) = Checksum(d)
  PROVE  c[f] = d[f]
<1> DEFINE Sum(a) == a["structsize"] + a["size_hi"] + a["drv"] + a["clk"] + a["ser"]
                     + a["bps0"] + a["bps1"] + a["prn"] + a["line"] + a["spacing"]
<1>1. \A g \in Setting \cup {"structsize", "size_hi"} : c[g] \in 0 .. 255 /\ d[g] \in 0 .. 255
  BY DEF Bytes, Field
<1>0. /\ c["structsize"] \in Nat /\ c["size_hi"] \in Nat /\ c["drv"] \in Nat /\ c["clk"] \in Nat
      /\ c["ser"] \in Nat /\ c["bps0"] \in Nat /\ c["bps1"] \in Nat
      /\ c["prn"] \in Nat /\ c["line"] \in Nat /\ c["spacing"] \in Nat
      /\ d["structsize"] \in Nat /\ d["size_hi"] \in Nat /\ d["drv"] \in Nat /\ d["clk"] \in Nat
      /\ d["ser"] \in Nat /\ d["bps0"] \in Nat /\ d["bps1"] \in Nat
      /\ d["prn"] \in Nat /\ d["line"] \in Nat /\ d["spacing"] \in Nat
  <2>0. \A n \in 0 .. 255 : n \in Nat
    OBVIOUS
  <2>1. \A g \in Setting \cup {"structsize", "size_hi"} : c[g] \in Nat /\ d[g] \in Nat
    BY ONLY <1>1, <2>0, Zenon
  <2>2. {"structsize", "size_hi", "drv", "clk", "ser", "bps0", "bps1", "prn", "line", "spacing"}
        = Setting \cup {"structsize", "size_hi"}
    BY DEF Setting
  <2>3. \A g \in {"structsize", "size_hi", "drv", "clk", "ser", "bps0", "bps1", "prn", "line", "spacing"} :
          c[g] \in Nat /\ d[g] \in Nat
    BY <2>1, <2>2
  <2> QED BY ONLY <2>3
<1>2. PICK r \in Nat : Sum(c) = c[f] + r /\ Sum(d) = d[f] + r
  <2>1. CASE f = "drv"
    <3> DEFINE r == c["structsize"] + c["size_hi"] + c["clk"] + c["ser"] + c["bps0"]
                    + c["bps1"] + c["prn"] + c["line"] + c["spacing"]
    <3>1. r \in Nat /\ Sum(c) = c["drv"] + r
      BY ONLY <1>0
    <3>2. /\ d["structsize"] = c["structsize"] /\ d["size_hi"] = c["size_hi"] /\ d["clk"] = c["clk"] /\ d["ser"] = c["ser"]
          /\ d["bps0"] = c["bps0"] /\ d["bps1"] = c["bps1"] /\ d["prn"] = c["prn"]
          /\ d["line"] = c["line"] /\ d["spacing"] = c["spacing"]
      BY <2>1 DEF Setting
    <3>3. Sum(d) = d["drv"] + r
      BY ONLY <1>0, <3>2
    <3> QED BY <2>1, <3>1, <3>3
  <2>2. CASE f = "clk"
    <3> DEFINE r == c["structsize"] + c["size_hi"] + c["drv"] + c["ser"] + c["bps0"]
                    + c["bps1"] + c["prn"] + c["line"] + c["spacing"]
    <3>1. r \in Nat /\ Sum(c) = c["clk"] + r
      BY ONLY <1>0
    <3>2. /\ d["structsize"] = c["structsize"] /\ d["size_hi"] = c["size_hi"] /\ d["drv"] = c["drv"] /\ d["ser"] = c["ser"]
          /\ d["bps0"] = c["bps0"] /\ d["bps1"] = c["bps1"] /\ d["prn"] = c["prn"]
          /\ d["line"] = c["line"] /\ d["spacing"] = c["spacing"]
      BY <2>2 DEF Setting
    <3>3. Sum(d) = d["clk"] + r
      BY ONLY <1>0, <3>2
    <3> QED BY <2>2, <3>1, <3>3
  <2>3. CASE f = "ser"
    <3> DEFINE r == c["structsize"] + c["size_hi"] + c["drv"] + c["clk"] + c["bps0"]
                    + c["bps1"] + c["prn"] + c["line"] + c["spacing"]
    <3>1. r \in Nat /\ Sum(c) = c["ser"] + r
      BY ONLY <1>0
    <3>2. /\ d["structsize"] = c["structsize"] /\ d["size_hi"] = c["size_hi"] /\ d["drv"] = c["drv"] /\ d["clk"] = c["clk"]
          /\ d["bps0"] = c["bps0"] /\ d["bps1"] = c["bps1"] /\ d["prn"] = c["prn"]
          /\ d["line"] = c["line"] /\ d["spacing"] = c["spacing"]
      BY <2>3 DEF Setting
    <3>3. Sum(d) = d["ser"] + r
      BY ONLY <1>0, <3>2
    <3> QED BY <2>3, <3>1, <3>3
  <2>4. CASE f = "bps0"
    <3> DEFINE r == c["structsize"] + c["size_hi"] + c["drv"] + c["clk"] + c["ser"] + c["bps1"]
                    + c["prn"] + c["line"] + c["spacing"]
    <3>1. r \in Nat /\ Sum(c) = c["bps0"] + r
      BY ONLY <1>0
    <3>2. /\ d["structsize"] = c["structsize"] /\ d["size_hi"] = c["size_hi"] /\ d["drv"] = c["drv"] /\ d["clk"] = c["clk"]
          /\ d["ser"] = c["ser"] /\ d["bps1"] = c["bps1"] /\ d["prn"] = c["prn"]
          /\ d["line"] = c["line"] /\ d["spacing"] = c["spacing"]
      BY <2>4 DEF Setting
    <3>3. Sum(d) = d["bps0"] + r
      BY ONLY <1>0, <3>2
    <3> QED BY <2>4, <3>1, <3>3
  <2>5. CASE f = "bps1"
    <3> DEFINE r == c["structsize"] + c["size_hi"] + c["drv"] + c["clk"] + c["ser"] + c["bps0"]
                    + c["prn"] + c["line"] + c["spacing"]
    <3>1. r \in Nat /\ Sum(c) = c["bps1"] + r
      BY ONLY <1>0
    <3>2. /\ d["structsize"] = c["structsize"] /\ d["size_hi"] = c["size_hi"] /\ d["drv"] = c["drv"] /\ d["clk"] = c["clk"]
          /\ d["ser"] = c["ser"] /\ d["bps0"] = c["bps0"] /\ d["prn"] = c["prn"]
          /\ d["line"] = c["line"] /\ d["spacing"] = c["spacing"]
      BY <2>5 DEF Setting
    <3>3. Sum(d) = d["bps1"] + r
      BY ONLY <1>0, <3>2
    <3> QED BY <2>5, <3>1, <3>3
  <2>6. CASE f = "prn"
    <3> DEFINE r == c["structsize"] + c["size_hi"] + c["drv"] + c["clk"] + c["ser"] + c["bps0"]
                    + c["bps1"] + c["line"] + c["spacing"]
    <3>1. r \in Nat /\ Sum(c) = c["prn"] + r
      BY ONLY <1>0
    <3>2. /\ d["structsize"] = c["structsize"] /\ d["size_hi"] = c["size_hi"] /\ d["drv"] = c["drv"] /\ d["clk"] = c["clk"]
          /\ d["ser"] = c["ser"] /\ d["bps0"] = c["bps0"] /\ d["bps1"] = c["bps1"]
          /\ d["line"] = c["line"] /\ d["spacing"] = c["spacing"]
      BY <2>6 DEF Setting
    <3>3. Sum(d) = d["prn"] + r
      BY ONLY <1>0, <3>2
    <3> QED BY <2>6, <3>1, <3>3
  <2>7. CASE f = "line"
    <3> DEFINE r == c["structsize"] + c["size_hi"] + c["drv"] + c["clk"] + c["ser"] + c["bps0"]
                    + c["bps1"] + c["prn"] + c["spacing"]
    <3>1. r \in Nat /\ Sum(c) = c["line"] + r
      BY ONLY <1>0
    <3>2. /\ d["structsize"] = c["structsize"] /\ d["size_hi"] = c["size_hi"] /\ d["drv"] = c["drv"] /\ d["clk"] = c["clk"]
          /\ d["ser"] = c["ser"] /\ d["bps0"] = c["bps0"] /\ d["bps1"] = c["bps1"]
          /\ d["prn"] = c["prn"] /\ d["spacing"] = c["spacing"]
      BY <2>7 DEF Setting
    <3>3. Sum(d) = d["line"] + r
      BY ONLY <1>0, <3>2
    <3> QED BY <2>7, <3>1, <3>3
  <2>8. CASE f = "spacing"
    <3> DEFINE r == c["structsize"] + c["size_hi"] + c["drv"] + c["clk"] + c["ser"] + c["bps0"]
                    + c["bps1"] + c["prn"] + c["line"]
    <3>1. r \in Nat /\ Sum(c) = c["spacing"] + r
      BY ONLY <1>0
    <3>2. /\ d["structsize"] = c["structsize"] /\ d["size_hi"] = c["size_hi"] /\ d["drv"] = c["drv"] /\ d["clk"] = c["clk"]
          /\ d["ser"] = c["ser"] /\ d["bps0"] = c["bps0"] /\ d["bps1"] = c["bps1"]
          /\ d["prn"] = c["prn"] /\ d["line"] = c["line"]
      BY <2>8 DEF Setting
    <3>3. Sum(d) = d["spacing"] + r
      BY ONLY <1>0, <3>2
    <3> QED BY <2>8, <3>1, <3>3
  <2> QED BY <2>1, <2>2, <2>3, <2>4, <2>5, <2>6, <2>7, <2>8 DEF Setting
<1>3. (c[f] + r) % 256 = (d[f] + r) % 256
  <2>1. Checksum(c) = Sum(c) % 256 /\ Checksum(d) = Sum(d) % 256
    BY DEF Checksum
  <2> HIDE DEF Sum
  <2> QED BY <1>2, <2>1
<1>4. c[f] \in 0 .. 255 /\ d[f] \in 0 .. 255
  BY <1>1
<1>5. c[f] \in Nat /\ d[f] \in Nat /\ c[f] < 256 /\ d[f] < 256
  <2>1. \A n \in 0 .. 255 : n \in Nat /\ n < 256
    OBVIOUS
  <2> QED BY ONLY <1>4, <2>1, Zenon
<1>6. PICK x \in Nat, y \in Nat : x = c[f] /\ y = d[f]
  BY ONLY <1>5
<1>7. (x + r) % 256 = (y + r) % 256 /\ x < 256 /\ y < 256
  BY ONLY <1>3, <1>5, <1>6
<1> HIDE DEF Sum
<1>8. x = y
  BY ONLY <1>7, ModCancel
<1> QED BY ONLY <1>6, <1>8

(* What a cut leaves of a store that changes two bytes at most: if its checksum is right, *)
(* it is one of the two configurations.                                             *)
LEMMA MixedIs ==
  ASSUME NEW old \in Bytes, NEW new \in Bytes, Good(old), Good(new), AtMostTwo(Differ(old, new)),
         NEW U \in SUBSET Field, NEW m, m = Mixed(old, new, U), m["checksum"] = Checksum(m)
  PROVE  Contents(m) \in {Contents(old), Contents(new)}
<1>1. \A f \in Field : m[f] = IF f \in U THEN old[f] ELSE new[f]
  BY DEF Mixed
<1>2. m \in Bytes
  BY DEF Mixed, Bytes
<1>3. Sized(m) /\ (m["checksum"] = old["checksum"] \/ m["checksum"] = new["checksum"])
  BY <1>1 DEF Good, Field, Sized
<1>4. SUFFICES ASSUME Contents(m) # Contents(old), Contents(m) # Contents(new)
               PROVE  FALSE
  OBVIOUS
<1>5. PICK f \in Setting : m[f] # old[f]
  BY <1>4 DEF Contents
<1>6. PICK g \in Setting : m[g] # new[g]
  BY <1>4 DEF Contents
<1>7. m[f] = new[f] /\ m[g] = old[g] /\ f # g /\ f \in Differ(old, new) /\ g \in Differ(old, new)
  BY <1>1, <1>5, <1>6 DEF Field, Differ
<1>8. \A h \in Setting \ {f, g} : old[h] = new[h] /\ m[h] = old[h] /\ m[h] = new[h]
  BY <1>1, <1>7 DEF Field, Differ, AtMostTwo
<1>9. CASE m["checksum"] = old["checksum"]
  <2>1. \A h \in Setting \ {f} : m[h] = old[h]
    BY <1>7, <1>8
  <2>2. /\ m["structsize"] = old["structsize"] /\ m["size_hi"] = old["size_hi"]
        /\ Checksum(m) = Checksum(old)
    BY <1>3, <1>9 DEF Good, Sized
  <2>3. m[f] = old[f]
    BY <1>2, <2>1, <2>2, OneField
  <2> QED BY <1>5, <2>3
<1>10. CASE m["checksum"] = new["checksum"]
  <2>1. \A h \in Setting \ {g} : m[h] = new[h]
    BY <1>7, <1>8
  <2>2. /\ m["structsize"] = new["structsize"] /\ m["size_hi"] = new["size_hi"]
        /\ Checksum(m) = Checksum(new)
    BY <1>3, <1>10 DEF Good, Sized
  <2>3. m[g] = new[g]
    BY <1>2, <2>1, <2>2, OneField
  <2> QED BY <1>6, <2>3
<1> QED BY <1>3, <1>9, <1>10

(* There are finitely many settings,                                               *)
LEMMA SettingFinite == IsFiniteSet(Setting)
<1>1. IsFiniteSet({})
  BY FS_EmptySet
<1>2. \A S, x : IsFiniteSet(S) => IsFiniteSet(S \cup {x})
  BY FS_AddElement
<1>3. Setting = {} \cup {"drv"} \cup {"clk"} \cup {"ser"} \cup {"bps0"} \cup {"bps1"}
                \cup {"prn"} \cup {"line"} \cup {"spacing"}
  BY DEF Setting
<1> QED BY <1>1, <1>2, <1>3

(* and two of them are at most two.                                               *)
LEMMA TwoAtMost ==
  ASSUME NEW S \in SUBSET Setting, Cardinality(S) <= 2
  PROVE  AtMostTwo(S)
<1>1. IsFiniteSet(S) /\ Cardinality(S) \in Nat
  BY SettingFinite, FS_Subset, FS_CardinalityType
<1>2. SUFFICES ASSUME NEW a \in S, NEW b \in S, NEW c \in S, a # b, b # c, a # c
               PROVE  FALSE
  BY DEF AtMostTwo
<1>3. IsFiniteSet({a}) /\ Cardinality({a}) = 1
  BY FS_Singleton
<1>4. IsFiniteSet({a} \cup {b}) /\ Cardinality({a} \cup {b}) = 2
  <2>1. b \notin {a}
    BY <1>2
  <2>2. IsFiniteSet({a} \cup {b}) /\ Cardinality({a} \cup {b}) = Cardinality({a}) + 1
    BY ONLY <1>3, <2>1, FS_AddElement
  <2> QED BY ONLY <1>3, <2>2
<1>5. c \notin {a} \cup {b}
  BY <1>2
<1>6. Cardinality(({a} \cup {b}) \cup {c}) = 3
  BY <1>4, <1>5, FS_AddElement
<1>7. ({a} \cup {b}) \cup {c} \in SUBSET S
  BY <1>2
<1>8. Cardinality(({a} \cup {b}) \cup {c}) <= Cardinality(S)
  BY <1>1, <1>7, FS_Subset
<1> QED BY <1>1, <1>6, <1>8

(* The same contents are the same settings.                                          *)
LEMMA SameContents ==
  ASSUME NEW a, NEW b, Contents(a) = Contents(b)
  PROVE  \A f \in Setting : a[f] = b[f]
BY DEF Contents

(* If the two are the same there is nothing to be cut. *)
LEMMA CutIs ==
  ASSUME Storing, NumInv
  PROVE  /\ IsValid => Contents(eeprom) \in stored \/ Torn(eeprom)
         /\ ~IsValid => Cardinality(stored) = 2
<1>1. PICK old \in Bytes :
        /\ Good(old) /\ Good(config)
        /\ stored = {Contents(old), Contents(config)}
        /\ eeprom = Mixed(old, config, unwritten)
  BY DEF Storing
<1>2. config \in Bytes /\ eeprom \in Bytes /\ unwritten \in SUBSET Field
  BY DEF NumInv, ConfigOk
<1>3. ASSUME IsValid
      PROVE  Contents(eeprom) \in stored \/ Torn(eeprom)
  <2>1. CASE AtMostTwo(Differ(old, config))
    BY <1>1, <1>2, <1>3, <2>1, MixedIs DEF IsValid
  <2>2. CASE ~AtMostTwo(Differ(old, config))
    <3>1. PICK a, b : a = Contents(old) /\ b = Contents(config) /\ a \in stored /\ b \in stored
      BY <1>1
    <3>2. \A f \in Setting : a[f] = old[f] /\ b[f] = config[f] /\ eeprom[f] \in {a[f], b[f]}
      BY <1>1, <3>1 DEF Contents, Mixed, Field
    <3>3. {f \in Setting : a[f] # b[f]} = Differ(old, config)
      BY <3>2 DEF Differ
    <3>4. Cardinality(Differ(old, config)) \in Nat /\ Differ(old, config) \in SUBSET Setting
      BY SettingFinite, FS_Subset, FS_CardinalityType DEF Differ
    <3>5. Cardinality(Differ(old, config)) > 2
      BY <2>2, <3>4, TwoAtMost
    <3>6. \A f \in Setting : eeprom[f] \in {a[f], b[f]}
      BY <3>2
    <3>7. Cardinality({f \in Setting : a[f] # b[f]}) > 2
      BY ONLY <3>3, <3>5
    <3>8. Torn(eeprom)
      BY ONLY <3>1, <3>6, <3>7, Zenon DEF Torn
    <3> QED BY <3>8
  <2> QED BY <2>1, <2>2
<1>4. ASSUME ~IsValid
      PROVE  Cardinality(stored) = 2
  <2>1. CASE Contents(old) = Contents(config)
    <3>1. \A f \in Setting : old[f] = config[f]
      BY <2>1, SameContents
    <3>2. Checksum(old) = Checksum(config)
      BY <1>1, <3>1 DEF Checksum, Good, Setting, Sized
    <3>3. \A f \in Field : old[f] = config[f]
      BY <1>1, <3>1, <3>2 DEF Good, Field, Sized
    <3>4. \A f \in Field : eeprom[f] = config[f]
      BY <1>1, <3>3 DEF Mixed
    <3>5. eeprom = config
      BY <1>2, <3>4 DEF Bytes
    <3> QED BY <1>1, <1>4, <3>5 DEF IsValid, Good
  <2>2. CASE Contents(old) # Contents(config)
    <3>1. PICK a, b : a = Contents(old) /\ b = Contents(config)
      OBVIOUS
    <3>2. IsFiniteSet({a}) /\ Cardinality({a}) = 1
      BY FS_Singleton
    <3>3. Cardinality({a} \cup {b}) = 2
      BY <2>2, <3>1, <3>2, FS_AddElement
    <3>4. {a} \cup {b} = stored
      BY <1>1, <3>1
    <3> QED BY <3>3, <3>4
  <2> QED BY <2>1, <2>2
<1> QED BY <1>3, <1>4

(* A step that leaves the memory alone, and whether there is a configuration.            *)
LEMMA StoreKept ==
  ASSUME StoreOk, config'["valid"] = config["valid"], UNCHANGED <<eeprom, stored>>,
         pc # "store", pc' # "store"
  PROVE  StoreOk'
BY DEF StoreOk, IsValid, Torn

(* A message that comes in does so,                                                *)
LEMMA ReceiveStore ==
  ASSUME NumInv, StoreOk, Receive
  PROVE  StoreOk'
<1>1. dev_cur \in [Dev -> Nat] /\ Numbered(dev_cur) /\ pc = "idle" /\ DOMAIN host = Port
  BY DEF NumInv, TypeOk, ConfigOk, Receive
<1>2. PICK m : /\ Handle(m) /\ MsgOk(m)
               /\ m.lun = "cmd" /\ m.cmd \in {"open", "write"} => m.opts # <<>>
  BY <1>1, ReceivedIs
<1>3. Kept /\ (Finished \/ Begun(m))
  BY <1>1, <1>2, HandleIs
<1>4. pc # "store" /\ pc' # "store" /\ UNCHANGED <<config, eeprom, stored>>
  BY <1>1, <1>3 DEF Kept, rom, Finished, Begun
<1> QED BY <1>4, StoreKept

(* and so does an option of a command.                                             *)
LEMMA ExecStore ==
  ASSUME Dutiful, NumInv, StoreOk, ExecOption
  PROVE  StoreOk'
<1>0. /\ pc = "options" /\ todo[1].k # "store" /\ ExecOne(todo[1])
      /\ pc' = (IF todo' = <<>> THEN "answer" ELSE "options")
      /\ UNCHANGED <<eeprom, stored>>
      /\ MsgOk(msg) /\ msg.cmd \in {"open", "write"} /\ TodoOk /\ config \in Bytes
  BY DEF ExecOption, rom, NumInv, TypeOk, ConfigOk
<1>1. config'["valid"] = config["valid"]
  <2>1. CASE msg.lun # "cmd"
    BY <1>0, <2>1, ExecOpen
  <2>2. CASE msg.lun = "cmd"
    <3>1. \A o : <<o>>[1] = o /\ <<o, Store>>[1] = o
      BY ONLY SequenceIs
    <3>2. msg.d \in Dev /\ todo # <<Store>>
      BY <1>0, <2>2, <3>1 DEF MsgOk, Store, Opt
    <3>3. PICK o \in DevOptions(msg.d) \cup SetOptions(msg.d) : todo[1] = o
      BY <1>0, <2>2, <3>1, <3>2 DEF TodoOk
    <3> QED BY <1>0, <2>2, <3>2, <3>3, ExecIs
  <2> QED BY <2>1, <2>2
<1> QED BY <1>0, <1>1, StoreKept

(* StoreConfig begins a store.                                                   *)
LEMMA ConfigStore ==
  ASSUME Dutiful, NumInv, StoreOk, StoreConfig
  PROVE  StoreOk'
<1>0. /\ pc = "options" /\ todo[1].k = "store" /\ ConfigOk
      /\ config' = [config EXCEPT !["checksum"] = Checksum(config), !["structsize"] = SizeOf,
                                    !["size_hi"] = 0]
      /\ unwritten' = {f \in Field : eeprom[f] # config'[f]}
      /\ stored' = stored \cup {Contents(config)}
      /\ pc' = "store" /\ eeprom' = eeprom
  BY DEF StoreConfig, NumInv
<1>1. msg.lun = "cmd" /\ todo = <<Store>> /\ config["valid"] = 1
  BY <1>0, StoreTodo
<1>2. IsValid /\ stored = {Contents(eeprom)}
  BY <1>0, <1>1 DEF StoreOk
<1>3. config \in Bytes /\ eeprom \in Bytes /\ Good(eeprom) /\ Sized(config)
  BY <1>0, <1>1, <1>2 DEF ConfigOk, IsValid, Good
<1>4. Checksum(config) \in 0 .. 255 /\ SizeOf \in 0 .. 255
  BY <1>3, ChecksumIs DEF SizeOf
<1>5. /\ config' \in Bytes /\ config'["valid"] = 1 /\ config'["checksum"] = Checksum(config)
      /\ Sized(config') /\ \A f \in Setting : config'[f] = config[f]
  <2>1. /\ config' \in Bytes /\ config'["checksum"] = Checksum(config) /\ Sized(config')
        /\ \A f \in Setting \cup {"valid"} : config'[f] = config[f]
    BY ONLY <1>0, <1>3, <1>4, PutIs, Zenon
  <2> QED BY <1>1, <2>1
<1>6. Checksum(config') = Checksum(config)
  BY <1>3, <1>5 DEF Checksum, Setting, Sized
<1>7. Good(config')
  BY <1>5, <1>6 DEF Good
<1>8. Contents(config') = Contents(config)
  BY <1>5 DEF Contents
<1>10. eeprom = Mixed(eeprom, config', unwritten')
  <2>1. \A f \in Field : eeprom[f] = IF f \in unwritten' THEN eeprom[f] ELSE config'[f]
    BY <1>0
  <2>2. eeprom = [f \in Field |-> eeprom[f]]
    BY <1>3 DEF Bytes
  <2> QED BY <2>1, <2>2 DEF Mixed
<1>11. stored' = {Contents(eeprom), Contents(config')}
  BY <1>0, <1>2, <1>8
<1>12. Storing'
  <2>1. PICK old : old = eeprom
    OBVIOUS
  <2>2. /\ old \in Bytes /\ Good(old) /\ Good(config')
        /\ stored' = {Contents(old), Contents(config')} /\ eeprom' = Mixed(old, config', unwritten')
    BY <1>0, <1>3, <1>7, <1>10, <1>11, <2>1
  <2> QED BY <2>2 DEF Storing, Good, Contents, Mixed, Sized
<1> QED BY <1>0, <1>12 DEF StoreOk

(* Every byte written leaves a mix of the old and the new.                           *)
LEMMA ByteStore ==
  ASSUME NumInv, StoreOk, WriteByte
  PROVE  StoreOk'
<1>1. PICK f \in unwritten : eeprom' = [eeprom EXCEPT ![f] = config[f]] /\ unwritten' = unwritten \ {f}
  BY DEF WriteByte
<1>2. pc = "store" /\ UNCHANGED <<pc, config, stored>> /\ Storing /\ eeprom \in Bytes
  BY DEF WriteByte, StoreOk, NumInv, ConfigOk
<1>3. PICK old \in Bytes :
        /\ Good(old) /\ Good(config)
        /\ stored = {Contents(old), Contents(config)}
        /\ eeprom = Mixed(old, config, unwritten)
  BY <1>2 DEF Storing
<1>4. eeprom' = Mixed(old, config, unwritten')
  <2>1. eeprom' = [g \in Field |-> IF g = f THEN config[f] ELSE eeprom[g]]
    BY <1>1, <1>2 DEF Bytes
  <2>2. \A g \in Field : eeprom[g] = IF g \in unwritten THEN old[g] ELSE config[g]
    BY <1>3 DEF Mixed
  <2>3. \A g \in Field : (IF g = f THEN config[f] ELSE eeprom[g]) = IF g \in unwritten' THEN old[g] ELSE config[g]
    BY <1>1, <2>2
  <2> QED BY <2>1, <2>3 DEF Mixed
<1>5. Storing'
  <2>1. /\ Good(config)'
        /\ (stored = {Contents(old), Contents(config)})'
        /\ (eeprom = Mixed(old, config, unwritten))'
    BY <1>2, <1>3, <1>4 DEF Mixed
  <2> QED BY <1>3, <2>1 DEF Storing
<1> QED BY <1>2, <1>5 DEF StoreOk

(* When all of them are written it is the new.                                       *)
LEMMA StoredStore ==
  ASSUME NumInv, StoreOk, Stored
  PROVE  StoreOk'
<1>1. /\ pc = "store" /\ unwritten = {} /\ stored' = {Contents(config)} /\ Storing
      /\ pc' \in {"answer", "options"} /\ UNCHANGED <<config, eeprom, todo, msg>> /\ todo = <<>>
      /\ pc' = "answer" /\ config \in Bytes
  BY DEF Stored, StoreOk, NumInv, TypeOk, ConfigOk, Bus
<1>2. Good(config) /\ eeprom = config
  <2>1. PICK old \in Bytes : Good(config) /\ eeprom = Mixed(old, config, unwritten)
    BY <1>1 DEF Storing
  <2>2. eeprom = [f \in Field |-> config[f]]
    BY <1>1, <2>1 DEF Mixed
  <2> QED BY <1>1, <2>1, <2>2 DEF Bytes
<1>3. IsValid' /\ stored' = {Contents(eeprom)}'
  BY <1>1, <1>2 DEF IsValid, Good
<1> QED BY <1>1, <1>3 DEF StoreOk

(* Every step keeps StoreOk.                                                     *)
LEMMA StoreStep ==
  ASSUME Dutiful, NumInv, StoreOk, [Next]_vars
  PROVE  StoreOk'
<1>1. CASE Finish \/ EatRest
  <2>1. Kept /\ Finished /\ pc \in {"answer", "write"}
    BY <1>1 DEF Finish, EatRest, Answer, Reply, Done, Finished
  <2> QED BY <2>1, StoreKept DEF Kept, rom, Finished
<1>2. CASE WriteChunk \/ LoseChunk \/ WriteEnds
  <2>1. Kept /\ pc = "write" /\ pc' \in {"write", "answer"}
    BY <1>2 DEF WriteChunk, LoseChunk, WriteEnds
  <2> QED BY <2>1, StoreKept DEF Kept, rom
<1>3. CASE Setup
  <2>1. /\ pc' = "idle" /\ pc = "boot" /\ eeprom' = eeprom
        /\ stored' = IF IsValid THEN {Contents(eeprom)} ELSE stored
        /\ ~IsValid => config'["valid"] = 0
    BY <1>3, SetupIs
  <2>2. IsValid' = IsValid
    BY <2>1 DEF IsValid
  <2>3. Contents(eeprom)' = Contents(eeprom)
    BY <2>1
  <2> QED BY <2>1, <2>2, <2>3 DEF StoreOk
<1>4. CASE PowerCut
  <2>1. pc' = "boot" /\ config'["valid"] = 0 /\ UNCHANGED <<eeprom, stored>>
    BY <1>4 DEF PowerCut, ZeroConfig, Field
  <2>2. /\ IsValid => Contents(eeprom) \in stored \/ Torn(eeprom)
        /\ ~IsValid => Cardinality(stored) = 2
    BY CutIs DEF StoreOk
  <2>3. IsValid' = IsValid /\ (Contents(eeprom) \in stored \/ Torn(eeprom))' = (Contents(eeprom) \in stored \/ Torn(eeprom))
    BY <2>1 DEF IsValid, Torn
  <2>4. (IsValid => Contents(eeprom) \in stored \/ Torn(eeprom))' /\ (~IsValid => Cardinality(stored) = 2)'
    BY ONLY <2>1, <2>2, <2>3
  <2> QED BY <2>1, <2>4 DEF StoreOk
<1>5. CASE UNCHANGED vars
  BY <1>5 DEF vars, rom, StoreOk, Storing, IsValid, Torn
<1> QED BY <1>1, <1>2, <1>3, <1>4, <1>5, ReceiveStore, ExecStore, ConfigStore, ByteStore, StoredStore
    DEF Next, Unit

(* A unit that has been set up has its configuration.                                 *)
LEMMA InitStore ==
  ASSUME Dutiful, Init
  PROVE  StoreOk
<1>1. eeprom = Programmed /\ stored = {Contents(eeprom)} /\ pc = "boot" /\ config["valid"] = 0
  BY DEF Init, Dutiful, ZeroConfig, Field
<1> DEFINE c == [f \in Field |-> CASE f \in Dev -> Default[f] [] f = "structsize" -> SizeOf
                                   [] f \in DOMAIN Rate300 -> Rate300[f] [] f = "spacing" -> 2
                                   [] f = "size_hi" -> 0 [] OTHER -> 1]
<1>2. Programmed = [c EXCEPT !["checksum"] = Checksum(c)]
  BY DEF Programmed
<1>3. DOMAIN c = Field /\ Sized(c)
  <2>1. DOMAIN Rate300 = {"bps0", "bps1"}
    BY DEF Rate300
  <2> QED BY <2>1 DEF Field, Dev, Setting, Sized
<1> HIDE DEF c
<1>4. /\ Sized(eeprom) /\ eeprom["checksum"] = Checksum(c)
      /\ \A f \in Setting \cup {"structsize", "size_hi"} : eeprom[f] = c[f]
  BY <1>1, <1>2, <1>3 DEF Field, Setting, Sized
<1>5. Checksum(eeprom) = Checksum(c)
  BY <1>4 DEF Checksum, Setting
<1> QED BY <1>1, <1>4, <1>5 DEF StoreOk, IsValid

(* What comes back after a power cut.                                             *)
LEMMA BackStep ==
  ASSUME NumInv, StoreOk, Next, pc = "boot", pc' = "idle"
  PROVE  \/ Contents(config') \in stored \/ Torn(config')
         \/ Cardinality(stored) > 1 /\ config'["valid"] = 0 /\ dev_cur' = Default
<1>1. Setup
  BY DEF Next, Receive, PowerCut, Unit, ExecOption, StoreConfig, WriteByte, Stored, Finish,
         WriteChunk, LoseChunk, EatRest, WriteEnds
<1>2. /\ IsValid => Contents(eeprom) \in stored \/ Torn(eeprom)
      /\ ~IsValid => Cardinality(stored) = 2
  BY DEF StoreOk
<1>3. IF IsValid THEN config' = eeprom ELSE config'["valid"] = 0 /\ dev_cur' = Default
  BY <1>1, SetupIs
<1> QED BY <1>2, <1>3

(* Only a command changes a setting.                                              *)
LEMMA CommandStep ==
  ASSUME NumInv, Next, Contents(config') # Contents(config), pc # "boot", pc' # "boot"
  PROVE  msg.lun = "cmd"
<1>1. config' # config
  OBVIOUS
<1>2. CASE Receive
  <2>1. dev_cur \in [Dev -> Nat] /\ Numbered(dev_cur) /\ DOMAIN host = Port
    BY DEF NumInv, TypeOk, ConfigOk
  <2>2. PICK m : /\ Handle(m) /\ MsgOk(m)
                 /\ m.lun = "cmd" /\ m.cmd \in {"open", "write"} => m.opts # <<>>
    BY <1>2, <2>1, ReceivedIs
  <2> QED BY <1>1, <2>1, <2>2, HandleIs DEF Kept
<1>3. CASE ExecOption
  BY <1>1, <1>3, ExecOpen DEF ExecOption
<1>4. CASE StoreConfig
  <2>1. \A f \in Setting : config'[f] = config[f]
    BY <1>4 DEF StoreConfig, NumInv, ConfigOk, Bytes, Field, Setting
  <2> QED BY <2>1 DEF Contents
<1>5. CASE Finish \/ WriteChunk \/ LoseChunk \/ EatRest \/ WriteEnds \/ WriteByte \/ Stored
  BY <1>1, <1>5 DEF Finish, WriteChunk, LoseChunk, EatRest, WriteEnds, WriteByte, Stored, Kept
<1>6. CASE Setup \/ PowerCut
  BY <1>6 DEF Setup, PowerCut
<1> QED BY <1>2, <1>3, <1>4, <1>5, <1>6 DEF Next, Unit

(* After a power cut at any byte of a store the unit has the configuration stored last or  *)
(* the one before it, all of it, or the defaults, and only commands change it: ConfigKept   *)
(* (ee_set_config(), ee_get_config()).  It may believe a mix of the two only if they differ  *)
(* in more than two bytes.                                                         *)
THEOREM ConfigIsKept == ASSUME Dutiful PROVE Spec => ConfigKept
<1>1. Init => StoreOk
  BY InitStore
<1>2. NumInv /\ StoreOk /\ [Next]_vars => StoreOk'
  BY StoreStep
<1>3. NumInv /\ StoreOk /\ [Next]_vars =>
        [pc = "boot" /\ pc' = "idle" =>
           \/ Contents(config') \in stored \/ Torn(config')
           \/ Cardinality(stored) > 1 /\ config'["valid"] = 0 /\ dev_cur' = Default]_vars
  BY BackStep
<1>4. NumInv /\ StoreOk /\ [Next]_vars =>
        [Contents(config') # Contents(config) /\ pc # "boot" /\ pc' # "boot" => msg.lun = "cmd"]_vars
  BY CommandStep
<1> QED BY <1>1, <1>2, <1>3, <1>4, NumInvariant, PTL DEF Spec, ConfigKept, ComesBack, OnlyCommandsConfigure

=============================================================================
