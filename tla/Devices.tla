------------------------------ MODULE Devices ------------------------------
(***************************************************************************)
(* The serial port, the printer and the clock as the host uses them, and     *)
(* what they share with the drive: the command channel (hexops.cpp), the       *)
(* registry of device numbers (registry.cpp) and the configuration kept in     *)
(* EEPROM (eeprom.c).  A step is a message, one option of a message, a buffer   *)
(* of data, or one byte of the configuration written; power may fail between    *)
(* any two.  How a message goes over the bus is in HexBus, how characters leave  *)
(* the UARTs in Uarts.                                                       *)
(***************************************************************************)
EXTENDS Integers, SequencesExt

CONSTANTS
  BUFSIZE,   \* size of the buffer; 255 in the code
  TextLen,   \* characters the host writes at most
  Numbers,   \* device numbers the host sets
  MaxOpen,   \* devices the host has open at a time
  GoesOn,    \* whether it goes on with a unit that has lost its configuration
  Habits     \* what the host does besides its duty

Dev == {"clk", "drv", "ser", "prn"}
Port == Dev \ {"drv"}
Low     == [clk |-> 230, drv |-> 100, ser |-> 20, prn |-> 10]    \* DEV_..._START
High    == [clk |-> 239, drv |-> 117, ser |-> 23, prn |-> 19]    \* DEV_..._END
Default == [clk |-> 230, drv |-> 100, ser |-> 20, prn |-> 12]    \* DEV_..._DEFAULT
HasRange(d, n) == n \in Low[d] .. High[d]

(* config_t, byte by byte, and its size.  Of serialcfg_t there are the two low   *)
(* bytes of the rate; the bytes left out are alike.                            *)
Setting == {"drv", "clk", "ser", "bps0", "bps1", "prn", "line", "spacing"}
Field == {"valid", "checksum", "structsize", "size_hi"} \cup Setting
SizeOf == 12

AllHabits == {
  "foreign",     \* sets a number on the command channel of another device
  "blank",       \* stores a configuration when there is none to be read
  "clockWrite",  \* writes to a clock it has not open for writing
  "long",        \* sends more than BUFSIZE to the serial port, or options to the clock
  "badOpen"}     \* opens with options that are refused

ASSUME DevicesAssumption ==
  /\ BUFSIZE \in Nat \ {0} /\ TextLen \in Nat /\ MaxOpen \in Nat
  /\ Numbers \subseteq 0 .. 255 /\ GoesOn \in BOOLEAN /\ Habits \subseteq AllHabits

VARIABLES
  dev_cur,          \* registry: the number each device answers to
  config, eeprom,   \* _config, _eeconfig
  ser_open, prn_open, rtc_open,
  prn_cfg,          \* _cfg of the open printer; that of the serial port is left out
  pc, msg,          \* what the unit does, with which message
  todo, rc,         \* options or characters still to be dealt with, what to answer
  unwritten,        \* bytes of the configuration still to be written to EEPROM
  out,              \* what this message has sent to the port or the printer
  waiting,          \* what the host waits to be answered
  early,            \* it got the last one before the unit had read all of its message
  host,             \* how the host has each device open, as far as it can tell
  stored            \* the configurations the EEPROM may hold

opens == <<ser_open, prn_open, rtc_open>>
rom == <<eeprom, unwritten, stored>>
vars == <<dev_cur, config, opens, prn_cfg, pc, msg, todo, rc, rom, out, waiting, early, host>>

-----------------------------------------------------------------------------
(* The messages of the host.  An option is a kind and a value; 0 is a value    *)
(* that cannot be parsed.                                                    *)

Opt(k, n) == [k |-> k, n |-> n]
Store == Opt("store", 0)
Msg(d, c, l) == [d |-> d, cmd |-> c, lun |-> l, att |-> {}, opts |-> <<>>, data |-> <<>>,
                 long |-> FALSE, lost |-> "no"]
NoMsg == Msg("clk", "none", "data")

DevOptions(d) == {Opt("dev", n) : n \in {n \in Numbers : "foreign" \in Habits \/ HasRange(d, n)}}
SetOptions(d) == CASE d = "ser" -> {Opt("value", 600)}
                   [] d = "prn" -> {Opt("line", 0), Opt("line", 2)}
                   [] OTHER -> {}
CmdOptions(d) == {<<o>> : o \in DevOptions(d) \cup SetOptions(d) \cup {Store}}
                 \cup {<<o, Store>> : o \in DevOptions(d) \cup SetOptions(d)}
OpenOptions(d) ==
  {<<>>} \cup {o \in {<<Opt("lenient", 0), Opt("value", 600)>>} : d = "ser"}
         \cup {o \in {<<Opt("line", 0)>>} : d = "prn"}
         \cup {o \in {<<Opt("dev", Default[d])>>} : d # "clk" /\ "badOpen" \in Habits}
Att == {{}, {"W"}, {"R", "W"}, {"fixed"}}          \* "fixed": neither input nor output
Data == {[i \in 1 .. n |-> 64 + i] : n \in 0 .. TextLen}

OpenMsg(d, a, o) == [Msg(d, "open", "data") EXCEPT !.att = a, !.opts = o]
WriteMsg(d, x) == [Msg(d, "write", "data") EXCEPT !.data = x]
CmdMsg(d, c, o, b) == [Msg(d, c, "cmd") EXCEPT !.opts = o, !.long = b]
(* OPEN and WRITE of LUN 255 do the same; the host sends one option with OPEN.   *)
Commands(d, longs) ==
  {CmdMsg(d, IF Len(o) = 1 THEN "open" ELSE "write", o, b) : o \in CmdOptions(d), b \in longs}
MessagesTo(d) ==
  {OpenMsg(d, a, o) : a \in Att, o \in OpenOptions(d)} \cup {WriteMsg(d, x) : x \in Data}
    \cup Commands(d, BOOLEAN)
    \cup {Msg(d, c, l) : c \in {"close", "read", "reset", "restore"}, l \in {"data", "cmd"}}
    \cup {Msg(d, "status", "data")}
Message == (UNION {MessagesTo(d) : d \in Port}) \cup Commands("drv", {FALSE})
             \cup {Msg("all", "reset", "data")}

Is(m, c, l) == m.cmd = c /\ m.lun = l
Sends(m) ==
  /\ config["valid"] = 1 \/ GoesOn
  /\ Is(m, "open", "data") => Cardinality({d \in Port \ {m.d} : host[d] # {}}) < MaxOpen
  /\ m.d = "clk" /\ m.cmd = "write" /\ m.lun = "data" =>
       Len(m.data) <= BUFSIZE /\ ("W" \in rtc_open \/ "clockWrite" \in Habits)
  /\ m.d = "ser" /\ m.cmd = "write" => Len(m.data) <= BUFSIZE \/ "long" \in Habits
  /\ m.d = "clk" /\ m.long => "long" \in Habits
  /\ m.lun = "cmd" /\ m.opts # <<>> /\ Last(m.opts) = Store =>
       config["valid"] = 1 \/ "blank" \in Habits

-----------------------------------------------------------------------------
(* A message arrives.  execute_command() looks for its device, in the order    *)
(* in which setup() has registered them; the host may have given up on it.     *)

Order == [clk |-> 1, drv |-> 2, ser |-> 3, prn |-> 4]
First(S) == CHOOSE d \in S : \A e \in S : Order[d] <= Order[e]
WhoAnswers(d) == IF d = "all" \/ dev_cur[d] = 0 THEN "all"      \* hex_null()
                 ELSE First({e \in Dev : dev_cur[e] = dev_cur[d]})

LostData(m) == m.lost = "inData" /\ m.cmd \in {"open", "write"}
Bus == <<msg, waiting, early, host>>
Kept == UNCHANGED <<dev_cur, config, rom>>

AwaitedBy(m) == IF m.lost = "no" THEN m.cmd ELSE "none"
(* What the host makes of an answer, or of its absence.                      *)
Concluded(m, r) ==
  CASE Is(m, "open", "data") /\ r = "SUCCESS" -> m.att
    [] Is(m, "close", "data") /\ r # "none" -> {}
    [] m.cmd \in {"open", "close"} /\ m.lun = "data" /\ r = "none" -> {"?"}
    [] OTHER -> host[m.d]
Done == pc' = "idle" /\ msg' = NoMsg /\ todo' = <<>> /\ rc' = "none" /\ out' = <<>>
(* hex_send_final_response() and the like: no answer if BAV has gone high.     *)
Reply(m, r, unread) ==
  LET s == IF m.lost = "no" THEN r ELSE "none" IN
  /\ Done /\ waiting' = "none" /\ early' = (s # "none" /\ unread)
  /\ host' = IF m.d \in Port THEN [host EXCEPT ![m.d] = Concluded(m, s)] ELSE host
Answer(m, r) == Reply(m, r, FALSE)
(* The handler returns to main() and has not answered.                       *)
Silent(m) == Done /\ waiting' = AwaitedBy(m) /\ early' = FALSE /\ UNCHANGED host
(* The message takes more than one step.                                     *)
Begin(m, to, what) ==
  /\ pc' = to /\ msg' = m /\ todo' = what /\ out' = <<>>
  /\ waiting' = AwaitedBy(m) /\ early' = FALSE /\ UNCHANGED host

Unsupported(m) ==                                      \* hex_unsupported()
  /\ m.cmd = "restore" \/ (m.cmd = "status" /\ m.d # "ser")
  /\ m.d \in Port /\ Answer(m, "UNSUPP_CMD")
  /\ UNCHANGED <<opens, prn_cfg>> /\ Kept
SerStatus(m) ==                                        \* ser_rtn_sta(), ser_set_opts()
  /\ m.d = "ser" /\ m.cmd = "status"
  /\ Silent(m) /\ UNCHANGED <<opens, prn_cfg>> /\ Kept

Reset(m) ==    \* hex_reset_bus(), ser_reset_dev(), prn_reset_dev(), clk_reset_dev()
  /\ m.cmd = "reset"
  /\ LET Closes(d) == m.d \in {d, "all"} IN
     /\ ser_open' = IF Closes("ser") THEN {} ELSE ser_open
     /\ prn_open' = IF Closes("prn") THEN {} ELSE prn_open
     /\ rtc_open' = IF Closes("clk") THEN {} ELSE rtc_open
     /\ host' = [d \in Port |-> IF Closes(d) THEN {} ELSE host[d]]
  /\ Done /\ waiting' = "none" /\ early' = FALSE
  /\ UNCHANGED prn_cfg /\ Kept

-----------------------------------------------------------------------------
(* The command channel.                                                     *)

(* hex_write_cmd() of the clock keeps 8 bits of the length, and reads as much    *)
(* of the message.                                                          *)
CutShort(m) == m.long /\ m.d = "clk" /\ m.cmd = "write"

(* The message has been read, or could not be: hex_open_helper(),             *)
(* hex_write_cmd_helper().                                                   *)
TooLong_Silent(m) ==
  /\ m.long /\ ~CutShort(m)
  /\ Silent(m) /\ UNCHANGED <<opens, prn_cfg>> /\ Kept
TooLong(m) ==
  /\ m.long /\ ~CutShort(m)
  /\ Answer(m, "TOO_LONG")
  /\ UNCHANGED <<opens, prn_cfg>> /\ Kept
DataLost(m) ==
  /\ LostData(m) /\ ~m.long /\ (m.cmd = "open" \/ m.lun = "cmd")
  /\ Answer(m, "none")
  /\ UNCHANGED <<opens, prn_cfg>> /\ Kept
Got(m) == ~LostData(m) /\ (~m.long \/ CutShort(m))

Options(m) == Begin(m, IF m.opts = <<>> THEN "answer" ELSE "options", m.opts) /\ rc' = "SUCCESS"
Command(m) ==            \* OPEN or WRITE of LUN 255, any device
  /\ Got(m) /\ m.lun = "cmd" /\ m.cmd \in {"open", "write"}
  /\ Options(m) /\ UNCHANGED <<opens, prn_cfg>> /\ Kept
CloseCommand(m) ==       \* hex_close_cmd(), hex_read_status()
  /\ m.lun = "cmd" /\ m.cmd \in {"close", "read"} /\ m.d \in Port
  /\ Answer(m, "SUCCESS")
  /\ UNCHANGED <<opens, prn_cfg>> /\ Kept

(* hex_exec_cmd(): the first device of the registry with the number in its     *)
(* range; 0 is in the range of the bus itself.  Only the command channel may    *)
(* renumber.                                                                *)
InRange_High(n) == {d \in Dev : n <= High[d]}
InRange(n) == {d \in Dev : HasRange(d, n)}
SetDev(n) ==
  IF msg.lun = "cmd" /\ (n = 0 \/ InRange(n) # {})
    THEN /\ dev_cur' = IF n = 0 THEN dev_cur ELSE [dev_cur EXCEPT ![First(InRange(n))] = n]
         /\ config' = [config EXCEPT ![msg.d] = n] /\ rc' = "SUCCESS"
    ELSE rc' = "DATA_INVALID" /\ UNCHANGED <<dev_cur, config>>

(* ser_exec_cmd(): a value, here the rate, goes to the configuration or to the    *)
(* open port; one that does not parse is an error, but for NULLS and STOP.        *)
WithRate(c, n) == [c EXCEPT !["bps0"] = n % 256, !["bps1"] = n \div 256]
SetSer_Config(o) ==
  /\ rc' = IF o.n = 0 /\ o.k = "value" THEN "DATA_ERR" ELSE "SUCCESS"
  /\ config' = IF o.n # 0 THEN WithRate(config, o.n) ELSE config
  /\ UNCHANGED <<dev_cur, prn_cfg>>
SetSer(o) ==
  /\ rc' = IF o.n = 0 /\ o.k = "value" THEN "DATA_ERR" ELSE "SUCCESS"
  /\ config' = IF o.n # 0 /\ msg.lun = "cmd" THEN WithRate(config, o.n) ELSE config
  /\ UNCHANGED <<dev_cur, prn_cfg>>
(* prn_exec_cmd() *)
SetPrn(o) ==
  LET ok == o.n \in 0 .. 1 IN
  /\ rc' = IF ok THEN "SUCCESS" ELSE "DATA_ERR"
  /\ config' = IF ok /\ msg.lun = "cmd" THEN [config EXCEPT !["line"] = o.n] ELSE config
  /\ prn_cfg' = IF ok /\ msg.lun = "data" THEN [prn_cfg EXCEPT !.line = o.n] ELSE prn_cfg
  /\ UNCHANGED dev_cur

ExecOne(o) ==
  CASE msg.d = "ser" /\ o.k \in {"value", "lenient"} -> SetSer(o)
    [] msg.d = "prn" /\ o.k = "line" -> SetPrn(o)
    [] o.k = "dev" -> SetDev(o.n) /\ UNCHANGED prn_cfg
    [] OTHER -> rc' = "OPTION_ERR" /\ UNCHANGED <<dev_cur, config, prn_cfg>>
(* One round of hex_exec_cmds(), ser_exec_cmds(), prn_exec_cmds().             *)
ExecOption_Again ==      \* split_cmd() leaves len2 as it was
  /\ pc = "options" /\ todo[1].k # "store"
  /\ ExecOne(todo[1])
  /\ todo' = IF rc' = "SUCCESS" THEN todo ELSE <<>>
  /\ pc' = IF todo' = <<>> THEN "answer" ELSE "options"
  /\ UNCHANGED <<opens, rom, out, Bus>>
ExecOption ==
  /\ pc = "options" /\ todo[1].k # "store"
  /\ ExecOne(todo[1])
  /\ todo' = IF rc' = "SUCCESS" THEN Tail(todo) ELSE <<>>
  /\ pc' = IF todo' = <<>> THEN "answer" ELSE "options"
  /\ UNCHANGED <<opens, rom, out, Bus>>

Finish == /\ pc = "answer"      \* hex_finish_open(), hex_send_final_response()
          /\ Reply(msg, rc, todo # <<>> \/ msg.long)
          /\ UNCHANGED <<opens, prn_cfg>> /\ Kept

-----------------------------------------------------------------------------
(* ee_set_config() and ee_get_config().                                      *)

Checksum(c) == (c["structsize"] + c["size_hi"] + c["drv"] + c["clk"] + c["ser"] + c["bps0"]
                + c["bps1"] + c["prn"] + c["line"] + c["spacing"]) % 256
Sized(c) == c["structsize"] = SizeOf /\ c["size_hi"] = 0
Contents(c) == [f \in Setting |-> c[f]]

(* The checksum is computed before structsize is set.  The library writes the   *)
(* block in an order of its own; a byte that is what it was makes no step.      *)
StoreConfig ==
  /\ pc = "options" /\ todo[1].k = "store"
  /\ config' = [config EXCEPT !["checksum"] = Checksum(config), !["structsize"] = SizeOf, !["size_hi"] = 0]
  /\ unwritten' = {f \in Field : eeprom[f] # config'[f]}
  /\ stored' = stored \cup {Contents(config)}
  /\ pc' = "store" /\ todo' = Tail(todo) /\ rc' = "SUCCESS"
  /\ UNCHANGED <<dev_cur, opens, prn_cfg, eeprom, out, Bus>>
WriteByte ==
  /\ pc = "store"
  /\ \E f \in unwritten : /\ eeprom' = [eeprom EXCEPT ![f] = config[f]]
                          /\ unwritten' = unwritten \ {f}
  /\ UNCHANGED <<dev_cur, config, opens, prn_cfg, pc, todo, rc, stored, out, Bus>>
Stored ==
  /\ pc = "store" /\ unwritten = {}
  /\ stored' = {Contents(config)}
  /\ pc' = IF todo = <<>> THEN "answer" ELSE "options"
  /\ UNCHANGED <<dev_cur, config, opens, prn_cfg, todo, rc, eeprom, unwritten, out, Bus>>

ZeroConfig == [f \in Field |-> 0]
IsValid_SizeOnly == Sized(eeprom)
IsValid == Sized(eeprom) /\ eeprom["checksum"] = Checksum(eeprom)

Rate300 == [bps0 |-> 44, bps1 |-> 1]

PowerCut ==
  /\ pc' = "boot" /\ config' = ZeroConfig /\ msg' = NoMsg /\ unwritten' = {}
  /\ ser_open' = {} /\ prn_open' = {} /\ rtc_open' = {} /\ host' = [d \in Port |-> {}]
  /\ prn_cfg' = [line |-> 0, spacing |-> 0] /\ dev_cur' = [d \in Dev |-> 0]
  /\ todo' = <<>> /\ rc' = "none" /\ out' = <<>> /\ waiting' = "none" /\ early' = FALSE
  /\ UNCHANGED <<eeprom, stored>>

(* ee_get_config(), and clk_init() to prn_init(): a device whose number is not  *)
(* in its range takes the default, but for the drive, which takes any.          *)
Setup ==
  /\ pc = "boot"
  /\ LET c == IF IsValid THEN [eeprom EXCEPT !["valid"] = 1] ELSE ZeroConfig
         Ok(d) == c["valid"] = 1 /\ (d = "drv" \/ HasRange(d, c[d])) IN
     /\ dev_cur' = [d \in Dev |-> IF Ok(d) THEN c[d] ELSE Default[d]]
     /\ config' = [f \in Field |->
          CASE f \in {"bps0", "bps1"} /\ ~Ok("ser") -> Rate300[f]
            [] f \in {"line", "spacing"} /\ ~Ok("prn") -> 1
            [] OTHER -> c[f]]
  /\ stored' = IF IsValid THEN {Contents(eeprom)} ELSE stored
  /\ pc' = "idle"
  /\ UNCHANGED <<opens, prn_cfg, todo, rc, eeprom, unwritten, out, Bus>>

-----------------------------------------------------------------------------
(* Open and close.  The options of an OPEN are for this opening.              *)

Mode(m) == m.att \cap {"R", "W"}
OpenRefused(m, r) == Answer(m, r) /\ UNCHANGED <<opens, prn_cfg>>

SerOpen(m) ==
  /\ m.d = "ser" /\ Is(m, "open", "data") /\ Got(m)
  /\ IF m.att = {} THEN OpenRefused(m, "ATTR_ERR")
     ELSE IF Mode(m) = {} THEN OpenRefused(m, "APPEND_MODE_ERR")
     ELSE /\ ser_open' = m.att /\ Options(m) /\ UNCHANGED <<prn_open, rtc_open, prn_cfg>>
  /\ Kept
PrnOpen(m) ==
  /\ m.d = "prn" /\ Is(m, "open", "data") /\ Got(m)
  /\ IF prn_open # {} THEN OpenRefused(m, "ALREADY_OPEN")
     ELSE IF m.att # {"W"} THEN OpenRefused(m, "OPTION_ERR")
     ELSE /\ prn_open' = {"W"}
          /\ prn_cfg' = [line |-> config["line"], spacing |-> config["spacing"]]
          /\ Options(m) /\ UNCHANGED <<ser_open, rtc_open>>
  /\ Kept
ClkOpen_Reopens(m) ==
  /\ m.d = "clk" /\ Is(m, "open", "data") /\ Got(m)
  /\ rtc_open' = m.att
  /\ Answer(m, IF Mode(m) = {} THEN "ATTR_ERR" ELSE "SUCCESS")
  /\ UNCHANGED <<ser_open, prn_open, prn_cfg>> /\ Kept
ClkOpen(m) ==
  /\ m.d = "clk" /\ Is(m, "open", "data") /\ Got(m)
  /\ IF rtc_open # {} THEN OpenRefused(m, "ALREADY_OPEN")
     ELSE IF Mode(m) = {} THEN OpenRefused(m, "ATTR_ERR")
     ELSE rtc_open' = m.att /\ Answer(m, "SUCCESS") /\ UNCHANGED <<ser_open, prn_open, prn_cfg>>
  /\ Kept

WasOpen(how) == IF how = {} THEN "NOT_OPEN" ELSE "SUCCESS"
SerClose(m) ==
  /\ m.d = "ser" /\ Is(m, "close", "data")
  /\ Answer(m, WasOpen(ser_open)) /\ ser_open' = {}
  /\ UNCHANGED <<prn_open, rtc_open, prn_cfg>> /\ Kept
PrnClose(m) ==
  /\ m.d = "prn" /\ Is(m, "close", "data")
  /\ Answer(m, WasOpen(prn_open)) /\ prn_open' = {}
  /\ UNCHANGED <<ser_open, rtc_open, prn_cfg>> /\ Kept
ClkClose(m) ==
  /\ m.d = "clk" /\ Is(m, "close", "data")
  /\ Answer(m, WasOpen(rtc_open)) /\ rtc_open' = {}
  /\ UNCHANGED <<ser_open, prn_open, prn_cfg>> /\ Kept

-----------------------------------------------------------------------------
(* Read and write.                                                          *)

Permission(mode, how, wrong) ==
  IF mode \in how THEN "SUCCESS" ELSE IF how # {} THEN wrong ELSE "NOT_OPEN"
ReadDevice(m) ==         \* ser_read(), prn_read(), clk_read()
  /\ Is(m, "read", "data") /\ m.d \in Port
  /\ Answer(m, CASE m.d = "ser" -> Permission("R", ser_open, "INPUT_MODE_ERR")
                 [] m.d = "prn" -> "INPUT_MODE_ERR"
                 [] m.d = "clk" -> Permission("R", rtc_open, "ATTR_ERR"))
  /\ UNCHANGED <<opens, prn_cfg>> /\ Kept

MayWrite(d) == IF d = "ser" THEN Permission("W", ser_open, "OUTPUT_MODE_ERR")
               ELSE IF prn_open # {} THEN "SUCCESS" ELSE "NOT_OPEN"
StartWrite_Refuses(m) == \* leaves the data on the bus
  /\ Is(m, "write", "data") /\ m.d \in {"ser", "prn"}
  /\ rc' = MayWrite(m.d)
  /\ Begin(m, IF rc' = "SUCCESS" THEN "write" ELSE "answer", m.data)
  /\ UNCHANGED <<opens, prn_cfg>> /\ Kept
StartWrite(m) ==         \* ser_write(), prn_write()
  /\ Is(m, "write", "data") /\ m.d \in {"ser", "prn"}
  /\ rc' = MayWrite(m.d)
  /\ Begin(m, "write", m.data)
  /\ UNCHANGED <<opens, prn_cfg>> /\ Kept

(* A buffer is read and sent.  The serial port is sent as many characters as    *)
(* are left of the message, not as the buffer holds; 256 is what lies behind.   *)
Chunk == SubSeq(todo, 1, IF Len(todo) < BUFSIZE THEN Len(todo) ELSE BUFSIZE)
Sent == IF msg.d = "ser" THEN Chunk \o [i \in 1 .. Len(todo) - Len(Chunk) |-> 256] ELSE Chunk
Rest == SubSeq(todo, BUFSIZE + 1, Len(todo))
WriteChunk ==
  /\ pc = "write" /\ todo # <<>> /\ rc = "SUCCESS"
  /\ out' = out \o Sent /\ todo' = Rest
  /\ UNCHANGED <<opens, prn_cfg, pc, rc, Bus>> /\ Kept
LoseChunk_Sends ==
  /\ pc = "write" /\ todo # <<>> /\ rc = "SUCCESS" /\ msg.lost = "inData"
  /\ out' = out \o [i \in 1 .. Len(Chunk) |-> 256] /\ rc' = "DATA_ERR" /\ todo' = Rest
  /\ UNCHANGED <<opens, prn_cfg, pc, Bus>> /\ Kept
LoseChunk ==
  /\ pc = "write" /\ todo # <<>> /\ rc = "SUCCESS" /\ msg.lost = "inData"
  /\ rc' = "DATA_ERR" /\ todo' = Rest
  /\ UNCHANGED <<opens, prn_cfg, pc, out, Bus>> /\ Kept

EatRest ==            \* the device is not open for it, or the host has given up
  /\ pc = "write" /\ todo # <<>> /\ rc # "SUCCESS"
  /\ Answer(msg, rc)
  /\ UNCHANGED <<opens, prn_cfg>> /\ Kept
CrLf == <<13, 10>>
Ending(n) == FlattenSeq([i \in 1 .. n |-> CrLf])
Line == IF msg.d = "prn" /\ prn_cfg.line = 1 THEN Ending(prn_cfg.spacing) ELSE <<>>
WriteEnds ==
  /\ pc = "write" /\ todo = <<>> /\ pc' = "answer"
  /\ out' = IF out # <<>> THEN out \o Line ELSE out
  /\ UNCHANGED <<opens, prn_cfg, todo, rc, Bus>> /\ Kept

(* clk_write() reads the message only if the clock is open for writing; it is    *)
(* the time, or not.                                                        *)
ClkWrite(m) ==
  /\ m.d = "clk" /\ Is(m, "write", "data")
  /\ IF "W" \notin rtc_open
       THEN Reply(m, Permission("W", rtc_open, "OUTPUT_MODE_ERR"), m.data # <<>>)
     ELSE IF LostData(m) \/ Len(m.data) >= BUFSIZE THEN Answer(m, "DATA_ERR")
     ELSE \E r \in {"SUCCESS", "DATA_INVALID"} : Answer(m, r)
  /\ UNCHANGED <<opens, prn_cfg>> /\ Kept

-----------------------------------------------------------------------------
(* A unit that has been set up and stored.                                   *)
Programmed ==
  LET c == [f \in Field |-> CASE f \in Dev -> Default[f] [] f = "structsize" -> SizeOf
                              [] f \in DOMAIN Rate300 -> Rate300[f] [] f = "spacing" -> 2
                              [] f = "size_hi" -> 0 [] OTHER -> 1]
  IN [c EXCEPT !["checksum"] = Checksum(c)]
NewUnit == [f \in Field |-> 255]

Init ==
  /\ eeprom = IF "blank" \in Habits THEN NewUnit ELSE Programmed
  /\ stored = {Contents(eeprom)}
  /\ pc = "boot" /\ config = ZeroConfig /\ msg = NoMsg /\ unwritten = {}
  /\ ser_open = {} /\ prn_open = {} /\ rtc_open = {} /\ host = [d \in Port |-> {}]
  /\ prn_cfg = [line |-> 0, spacing |-> 0] /\ dev_cur = [d \in Dev |-> 0]
  /\ todo = <<>> /\ rc = "none" /\ out = <<>> /\ waiting = "none" /\ early = FALSE

Handle(m) ==
  \/ Unsupported(m) \/ SerStatus(m) \/ Reset(m) \/ TooLong(m) \/ DataLost(m) \/ Command(m)
  \/ CloseCommand(m) \/ SerOpen(m) \/ PrnOpen(m) \/ ClkOpen(m) \/ SerClose(m) \/ PrnClose(m)
  \/ ClkClose(m) \/ ReadDevice(m) \/ StartWrite(m) \/ ClkWrite(m)

(* "lost" is when the host gives up: not at all, in the data, before the answer. *)
Receive ==
  /\ pc = "idle"
  /\ \E m \in Message, l \in {"no", "inData", "late"} :
       Sends(m) /\ Handle([m EXCEPT !.d = WhoAnswers(m.d), !.lost = l])

Unit == \/ Setup \/ ExecOption \/ StoreConfig \/ WriteByte \/ Stored \/ Finish
        \/ WriteChunk \/ LoseChunk \/ EatRest \/ WriteEnds

Next == Receive \/ Unit \/ PowerCut

Spec == Init /\ [][Next]_vars /\ WF_vars(Unit)

-----------------------------------------------------------------------------
(* Properties.                                                              *)

HowOpen(d) == CASE d = "ser" -> ser_open [] d = "prn" -> prn_open [] d = "clk" -> rtc_open

(* A device is open exactly as the host can tell from the answers it got, so an *)
(* OPEN that was refused has opened nothing (ser_open(), prn_open(), clk_open()).*)
HostAgrees == pc = "idle" => \A d \in Port : host[d] \in {{"?"}, HowOpen(d)}

(* Each device answers to one number of its own range, which is the number in    *)
(* the configuration that is stored next (hex_exec_cmd(), the inits).          *)
NumbersAgree ==
  pc # "boot" =>
    \A d \in Dev : HasRange(d, dev_cur[d]) /\ (config["valid"] = 1 => config[d] = dev_cur[d])

(* A mix, byte by byte, of two configurations that differ in more than two bytes.   *)
Torn(c) ==
  \E old, new \in stored :
    /\ Cardinality({f \in Setting : old[f] # new[f]}) > 2
    /\ \A f \in Setting : c[f] \in {old[f], new[f]}

(* After a power cut the unit has the configuration that was stored last, all of *)
(* it; if power failed while it was stored, that one, the one before it or the   *)
(* defaults.  Only when the two differ in more than two bytes may the checksum    *)
(* be right for a part of each (ee_set_config(), ee_get_config()).             *)
ComesBack ==
  [][pc = "boot" /\ pc' = "idle" =>
       \/ Contents(config') \in stored \/ Torn(config')
       \/ Cardinality(stored) > 1 /\ config'["valid"] = 0 /\ dev_cur' = Default]_vars

(* Only a command changes the configuration: the options of an OPEN of the port   *)
(* or the printer are for that opening (ser_open(), prn_open()).               *)
OnlyCommandsConfigure ==
  [][Contents(config') # Contents(config) /\ pc # "boot" /\ pc' # "boot" => msg.lun = "cmd"]_vars

(* So the configuration is what commands have made it, before and after a power   *)
(* cut (eeprom.c, ser_exec_cmd(), prn_exec_cmd()).                             *)
ConfigKept == ComesBack /\ OnlyCommandsConfigure

(* A message that the host has not given up has been answered when the unit is    *)
(* ready for the next (execute_command() and every handler), unless it is a reset *)
(* or asks the serial port for its status; and the unit is ready in the end.     *)
EveryOneAnswered ==
  /\ [][pc' = "idle" => waiting' \in {"none", "status"}]_vars
  /\ []<>(pc = "idle")

(* No answer before the whole message has been read: the host would still be     *)
(* sending ("safe to turn around now", hexops.cpp:130).                        *)
TakenFirst == ~early

(* What is sent to the port or the printer is the data of the message from its   *)
(* beginning, and the line ending; all of the data, if the answer is SUCCESS     *)
(* (ser_write(), prn_write()).                                               *)
Carried ==
  Is(msg, "write", "data") =>
    /\ \E n \in 0 .. Len(msg.data), end \in {<<>>, Line} : out = SubSeq(msg.data, 1, n) \o end
    /\ pc = "answer" /\ rc = "SUCCESS" /\ msg.data # <<>> => out = msg.data \o Line

(* A message is taken off the bus to its end and then, if it says so, has been    *)
(* carried on (hex_get_data(), hex_eat_it()).                                  *)
DataTaken == TakenFirst /\ Carried

=============================================================================
