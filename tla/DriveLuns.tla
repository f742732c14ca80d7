----------------------------- MODULE DriveLuns -----------------------------
(***************************************************************************)
(* The drive's table of open files (drive.cpp, catalog.cpp): a few slots,   *)
(* each with a logical unit number (LUN) and a FatFS file object, and the   *)
(* commands that fill, use and empty them.  The host opens, writes, closes  *)
(* and deletes; a card may be swapped, which main() answers with            *)
(* drv_init().                                                             *)
(*                                                                         *)
(* Of a file only this is kept: whether its object is bound to a mounted    *)
(* file system (fp->fs), the card it was opened on, and whether it holds     *)
(* data that is not on the card yet (FA__WRITTEN).                          *)
(***************************************************************************)
EXTENDS Naturals, FiniteSets

CONSTANTS
  MaxOpen,   \* MAX_OPEN_FILES, 8 in the code
  Lun,       \* the LUNs the host uses for files
  CmdLun,    \* LUN_CMD, 255: always the command channel
  Card,      \* the cards that may be in the slot
  Habits     \* what this host, its user and its cards may do

AllHabits ==
  {"reopen",      \* opens a LUN it has open
   "overflow",    \* opens more files than there are slots
   "catalog",     \* opens directories for reading
   "badCatalog",  \* opens directories that are not there, or not for reading
   "command",     \* opens a LUN with an empty name as a second command channel
   "relative",    \* opens files for relative access
   "stray",       \* writes to a LUN it has not opened
   "ioError",     \* the card fails
   "swap"}        \* the card is changed

ASSUME DriveAssumption ==
  /\ MaxOpen \in Nat \ {0}
  /\ CmdLun \notin Lun
  /\ Card # {}
  /\ Habits \subseteq AllHabits

Slot == 1 .. MaxOpen

VARIABLES
  used, lun, catalog,   \* files[s].used, .lun and FILEATTR_CATALOG
  fp,                   \* files[s].file.fp
  open_files, cmd_lun, fs_initialized,
  card,                 \* the card in the slot
  host,                 \* the LUNs the host has opened and not closed
  reply,                \* the last command, its LUN and status; did it do its work?
  clobbered,            \* a file was written to another card than its own
  nullWrite             \* a member of a NULL file_t was assigned to

table == <<used, lun, catalog, open_files>>
ghost == <<host, reply, clobbered, nullWrite>>
vars == <<used, lun, catalog, fp, open_files, cmd_lun, fs_initialized, card,
          host, reply, clobbered, nullWrite>>

FileType == [open : BOOLEAN, writable : BOOLEAN, dirty : BOOLEAN, card : Card]
Closed(f)  == [open |-> FALSE, writable |-> f.writable, dirty |-> FALSE, card |-> f.card]
Written(f) == [open |-> f.open, writable |-> f.writable, dirty |-> TRUE, card |-> f.card]

Reply(op, l, rc, done) == reply' = [op |-> op, lun |-> l, rc |-> rc, done |-> done]

(* find_lun() and the loop of reserve_lun(): the first slot that fits.      *)
First(S) == CHOOSE s \in S : \A t \in S : s <= t
Holding(l) == {s \in Slot : used[s] /\ lun[s] = l}
Free == {s \in Slot : ~used[s]}

(* reserve_lun(), when a slot is free; isCatalog is what the caller then     *)
(* makes of attr.  The file object keeps what it held.                      *)
Reserve_NoCount(s, l, isCatalog) ==
  /\ used' = [used EXCEPT ![s] = TRUE]
  /\ lun' = [lun EXCEPT ![s] = l]
  /\ catalog' = [catalog EXCEPT ![s] = isCatalog]
  /\ UNCHANGED open_files
Reserve(s, l, isCatalog) ==
  /\ used' = [used EXCEPT ![s] = TRUE]
  /\ lun' = [lun EXCEPT ![s] = l]
  /\ catalog' = [catalog EXCEPT ![s] = isCatalog]
  /\ open_files' = open_files + 1

(* free_lun(): every slot with this LUN.                                    *)
FreeAll_CountOnce(S) ==
  /\ used' = [s \in Slot |-> used[s] /\ s \notin S]
  /\ open_files' = open_files - 1
  /\ UNCHANGED <<lun, catalog>>
FreeAll_NoCount(S) ==
  /\ used' = [s \in Slot |-> used[s] /\ s \notin S]
  /\ UNCHANGED <<lun, catalog, open_files>>
FreeAll(S) ==
  /\ used' = [s \in Slot |-> used[s] /\ s \notin S]
  /\ open_files' = open_files - Cardinality(S)
  /\ UNCHANGED <<lun, catalog>>

(* f_close() of the slots in S.  An object bound to a file system writes     *)
(* what it holds to whatever card is mounted; FatFS does not compare.       *)
Bound(S) == {s \in S : fp[s].open}
CloseFiles(S) ==
  /\ fp' = [s \in Slot |-> IF s \in Bound(S) THEN Closed(fp[s]) ELSE fp[s]]
  /\ clobbered' = (clobbered \/ \E s \in Bound(S) : fp[s].dirty /\ fp[s].card # card)

(* drv_start(): mount the card if it is not mounted; it may fail.           *)
Start == fs_initialized' \in (IF fs_initialized \/ "ioError" \notin Habits
                              THEN {TRUE} ELSE BOOLEAN)

(* May a directory fail to open?                                            *)
CatalogsFail == "badCatalog" \in Habits \/ {"catalog", "ioError"} \subseteq Habits

(* May the host open l now?                                                 *)
HostOpens(l) == /\ l \notin host \/ "reopen" \in Habits
                /\ Free # {} \/ "overflow" \in Habits
Opened(l) == host' = host \cup {l}

-----------------------------------------------------------------------------
(* drv_open() of a file. *)

(* The card cannot be mounted: no slot is taken.  OPENMODE_RELATIVE sets a    *)
(* bit of file->attr whatever came of file.                                *)
OpenNoCard(l) ==
  /\ HostOpens(l) /\ Start /\ ~fs_initialized'
  /\ nullWrite' \in {nullWrite, nullWrite \/ "relative" \in Habits}
  /\ Reply("open", l, "DEVICE_ERR", FALSE)
  /\ UNCHANGED <<table, fp, cmd_lun, card, host, clobbered>>

(* No slot is free: file->pattern is assigned to before file is tested.     *)
OpenNoSlot(l) ==
  /\ HostOpens(l) /\ Start /\ fs_initialized' /\ Free = {}
  /\ nullWrite' = TRUE
  /\ Reply("open", l, "MAX_LUNS", FALSE)
  /\ UNCHANGED <<table, fp, cmd_lun, card, host, clobbered>>

(* f_open() succeeds.  It clears the object first; creating or truncating    *)
(* the file sets FA__WRITTEN.                                              *)
OpenFile(l, mode) ==
  /\ HostOpens(l) /\ Start /\ fs_initialized' /\ Free # {}
  /\ Reserve(First(Free), l, FALSE)
  /\ fp' = [fp EXCEPT ![First(Free)] = 
                [open |-> TRUE, writable |-> mode # "read", dirty |-> mode = "create",
                 card |-> card]]
  /\ Opened(l) /\ Reply("open", l, "SUCCESS", TRUE)
  /\ UNCHANGED <<cmd_lun, card, clobbered, nullWrite>>

(* f_open() fails: free_lun() frees every slot of the LUN, the new one and   *)
(* any older one.                                                          *)
OpenFails_KeepsSlot(l) ==
  /\ HostOpens(l) /\ Start /\ fs_initialized' /\ Free # {}
  /\ fp' = [fp EXCEPT ![First(Free)] = Closed(@)]
  /\ Reserve(First(Free), l, FALSE)
  /\ Reply("open", l, "NOT_FOUND", FALSE)
  /\ UNCHANGED <<cmd_lun, card, host, clobbered, nullWrite>>
OpenFails_SaysSuccess(l) ==
  /\ HostOpens(l) /\ Start /\ fs_initialized' /\ Free # {}
  /\ fp' = [fp EXCEPT ![First(Free)] = Closed(@)]
  /\ Opened(l) /\ Reply("open", l, "SUCCESS", FALSE)
  /\ UNCHANGED <<table, cmd_lun, card, clobbered, nullWrite>>
OpenFails(l) ==
  /\ HostOpens(l) /\ Start /\ fs_initialized' /\ Free # {}
  /\ fp' = [fp EXCEPT ![First(Free)] = Closed(@)]
  /\ used' = [s \in Slot |-> used[s] /\ s \notin Holding(l)]
  /\ lun' = [lun EXCEPT ![First(Free)] = l]
  /\ catalog' = [catalog EXCEPT ![First(Free)] = FALSE]
  /\ open_files' = open_files + 1 - Cardinality(Holding(l) \cup {First(Free)})
  /\ Reply("open", l, "NOT_FOUND", FALSE)
  /\ UNCHANGED <<cmd_lun, card, host, clobbered, nullWrite>>

(* drv_open() of "$...": hex_open_catalog() looks whether it got a slot.    *)
OpenCatalog(l) ==
  /\ "catalog" \in Habits /\ HostOpens(l) /\ Start /\ fs_initialized' /\ Free # {}
  /\ Reserve(First(Free), l, TRUE)
  /\ Opened(l) /\ Reply("open", l, "SUCCESS", TRUE)
  /\ UNCHANGED <<fp, cmd_lun, card, clobbered, nullWrite>>
OpenCatalogNoSlot(l) ==
  /\ "catalog" \in Habits /\ HostOpens(l) /\ Start /\ Free = {}
  /\ Reply("open", l, "MAX_LUNS", FALSE)
  /\ UNCHANGED <<table, fp, cmd_lun, card, host, clobbered, nullWrite>>

(* It is not opened for reading, or the card cannot be mounted or f_opendir()  *)
(* fails: the slot is kept.                                                 *)
OpenCatalogFails(l) ==
  /\ CatalogsFail /\ HostOpens(l) /\ Start /\ Free # {}
  /\ \E forReading \in BOOLEAN :
       /\ forReading \/ "badCatalog" \in Habits
       /\ Reserve(First(Free), l, forReading)
  /\ Reply("open", l, "NOT_FOUND", FALSE)
  /\ UNCHANGED <<fp, cmd_lun, card, host, clobbered, nullWrite>>

(* drv_open() of an empty name.                                             *)
OpenCommand(l) ==
  /\ "command" \in Habits /\ HostOpens(l) /\ Start
  /\ cmd_lun' = l
  /\ Opened(l) /\ Reply("open", l, "SUCCESS", TRUE)
  /\ UNCHANGED <<table, fp, card, clobbered, nullWrite>>

-----------------------------------------------------------------------------
(* drv_close(): the first slot of the LUN is closed, all of them are freed. *)
Close_NoSync(l) ==
  /\ l # cmd_lun /\ Holding(l) # {}
  /\ FreeAll(Holding(l)) /\ host' = host \ {l}
  /\ Reply("close", l, "SUCCESS", TRUE)
  /\ UNCHANGED <<fp, clobbered, cmd_lun, fs_initialized, card, nullWrite>>
Close(l) ==
  /\ l # cmd_lun /\ Holding(l) # {}
  /\ FreeAll(Holding(l)) /\ host' = host \ {l}
  /\ LET s == First(Holding(l)) IN
       IF catalog[s] THEN /\ Reply("close", l, "SUCCESS", TRUE)
                          /\ UNCHANGED <<fp, clobbered>>
       ELSE \/ /\ CloseFiles({s})
               /\ Reply("close", l, IF fp[s].open THEN "SUCCESS" ELSE "DEVICE_ERR", fp[s].open)
            \/ /\ "ioError" \in Habits
               /\ Reply("close", l, "DEVICE_ERR", FALSE)
               /\ UNCHANGED <<fp, clobbered>>
  /\ UNCHANGED <<cmd_lun, fs_initialized, card, nullWrite>>
CloseNone(l) ==
  /\ l # cmd_lun /\ Holding(l) = {}
  /\ host' = host \ {l}
  /\ Reply("close", l, IF fs_initialized THEN "NOT_OPEN" ELSE "DEVICE_ERR", FALSE)
  /\ UNCHANGED <<table, fp, cmd_lun, fs_initialized, card, clobbered, nullWrite>>
CloseCommand(l) ==
  /\ l = cmd_lun /\ cmd_lun' = CmdLun
  /\ host' = host \ {l} /\ Reply("close", l, "SUCCESS", TRUE)
  /\ UNCHANGED <<table, fp, fs_initialized, card, clobbered, nullWrite>>

(* drv_write() to the first slot of the LUN.  f_write() refuses an object    *)
(* that is not bound or not opened for writing.  When it fails with data     *)
(* left on the bus, the rest is eaten and the reply says SUCCESS (moreData). *)
Write(l) ==
  /\ l # cmd_lun /\ Holding(l) # {}
  /\ LET s == First(Holding(l)) IN
       \/ /\ fp[s].open /\ fp[s].writable
          /\ ~catalog[s] \/ "stray" \in Habits
          /\ fp' = [fp EXCEPT ![s] = Written(@)]
          /\ clobbered' = (clobbered \/ fp[s].card # card)
          /\ Reply("write", l, "SUCCESS", TRUE)
       \/ /\ \/ ~(fp[s].open /\ fp[s].writable) /\ "stray" \in Habits
             \/ "ioError" \in Habits
          /\ \E moreData \in BOOLEAN :
               Reply("write", l, IF moreData THEN "SUCCESS" ELSE "DEVICE_ERR", FALSE)
          /\ UNCHANGED <<fp, clobbered>>
  /\ UNCHANGED <<table, cmd_lun, fs_initialized, card, host, nullWrite>>
WriteNone(l) ==     \* NOT_FOUND if the message carries no data
  /\ l # cmd_lun /\ Holding(l) = {}
  /\ l \in host \/ "stray" \in Habits
  /\ \E rc \in {IF fs_initialized THEN "SUCCESS" ELSE "DEVICE_ERR", "NOT_FOUND"} :
       Reply("write", l, rc, FALSE)
  /\ UNCHANGED <<table, fp, cmd_lun, fs_initialized, card, host, clobbered, nullWrite>>
WriteCommand(l) ==
  /\ l = cmd_lun /\ Reply("command", l, "SUCCESS", TRUE)
  /\ UNCHANGED <<table, fp, cmd_lun, fs_initialized, card, host, clobbered, nullWrite>>

(* drv_delete_open(): close the first slot, unlink, free all of them.  It    *)
(* does not look at FILEATTR_CATALOG.                                      *)
DeleteOpen_KeepsSlot(l) ==
  /\ Start /\ Holding(l) # {}
  /\ CloseFiles({First(Holding(l))})
  /\ host' = host \ {l} /\ Reply("delete", l, "SUCCESS", TRUE)
  /\ UNCHANGED <<table, cmd_lun, card, nullWrite>>
DeleteOpen(l) ==
  /\ Start /\ Holding(l) # {}
  /\ FreeAll(Holding(l)) /\ host' = host \ {l}
  /\ LET s == First(Holding(l)) IN
       \/ /\ CloseFiles({s})
          /\ Reply("delete", l, IF fp[s].open THEN "SUCCESS" ELSE "DEVICE_ERR", fp[s].open)
       \/ /\ "ioError" \in Habits
          /\ Reply("delete", l, "DEVICE_ERR", FALSE)
          /\ CloseFiles({s}) \/ UNCHANGED <<fp, clobbered>>
  /\ UNCHANGED <<cmd_lun, card, nullWrite>>
DeleteNone(l) ==
  /\ Start /\ Holding(l) = {}
  /\ Reply("delete", l, "NOT_OPEN", FALSE)
  /\ UNCHANGED <<table, fp, cmd_lun, card, host, clobbered, nullWrite>>

(* Only drv_start(): drv_restore(), drv_delete(), and drv_open() when the     *)
(* message is refused by hex_open_helper().                                *)
OnlyMounts(l) ==
  /\ Start
  /\ \E rc \in {"SUCCESS", "NOT_FOUND"} : Reply("mount", l, rc, rc = "SUCCESS")
  /\ UNCHANGED <<table, fp, cmd_lun, card, host, clobbered, nullWrite>>

(* LUN 255 is opened, which mounts, or closed.                              *)
CommandChannel ==
  /\ Start \/ UNCHANGED fs_initialized
  /\ cmd_lun' = CmdLun
  /\ Reply("command", CmdLun, "SUCCESS", TRUE)
  /\ UNCHANGED <<table, fp, card, host, clobbered, nullWrite>>

(* hex_reset_bus() and drv_reset(): close the first slot of each LUN in use    *)
(* and free all of them, if any is.  What f_close() says is not looked at.    *)
(* The catalogs' objects are closed too; cmd_lun stays.                      *)
InUse == {s \in Slot : used[s]}
FirstOfEach == {First(Holding(lun[s])) : s \in InUse}
Reset_KeepsFiles ==
  /\ fs_initialized' = TRUE /\ open_files > 0
  /\ FreeAll(InUse)
  /\ host' = {} /\ Reply("reset", CmdLun, "SUCCESS", TRUE)
  /\ UNCHANGED <<fp, clobbered, cmd_lun, card, nullWrite>>
Reset ==
  /\ Start
  /\ IF open_files > 0
       THEN /\ FreeAll(InUse)
            /\ \/ /\ fs_initialized'
                  /\ \E S \in SUBSET FirstOfEach :
                       (S = FirstOfEach \/ "ioError" \in Habits) /\ CloseFiles(S)
               \/ ~fs_initialized' /\ UNCHANGED <<fp, clobbered>>
       ELSE UNCHANGED <<table, fp, clobbered>>
  /\ host' = {} /\ Reply("reset", CmdLun, "SUCCESS", TRUE)
  /\ UNCHANGED <<cmd_lun, card, nullWrite>>

(* Another card, noticed by main(): drv_init() forgets the table, and does   *)
(* not touch the file objects.                                             *)
SwapCard_KeepsTable ==
  /\ "swap" \in Habits
  /\ card' \in Card
  /\ fs_initialized' = FALSE
  /\ UNCHANGED <<table, fp, cmd_lun, ghost>>
SwapCard ==
  /\ "swap" \in Habits
  /\ card' \in Card
  /\ used' = [s \in Slot |-> FALSE] /\ open_files' = 0
  /\ fs_initialized' = FALSE
  /\ UNCHANGED <<lun, catalog, fp, cmd_lun, ghost>>

-----------------------------------------------------------------------------
Init == /\ used = [s \in Slot |-> FALSE] /\ lun = [s \in Slot |-> CmdLun]
        /\ catalog = [s \in Slot |-> FALSE]
        /\ card \in Card
        /\ fp = [s \in Slot |-> [open |-> FALSE, writable |-> FALSE, dirty |-> FALSE,
                               card |-> card]]
        /\ open_files = 0 /\ cmd_lun = CmdLun /\ fs_initialized = FALSE
        /\ host = {}
        /\ reply = [op |-> "reset", lun |-> CmdLun, rc |-> "SUCCESS", done |-> TRUE]
        /\ clobbered = FALSE /\ nullWrite = FALSE

Open(l) == \/ OpenNoCard(l) \/ OpenNoSlot(l) \/ OpenFails(l) \/ OpenCommand(l)
           \/ \E mode \in {"read", "update", "create"} : OpenFile(l, mode)
           \/ OpenCatalog(l) \/ OpenCatalogNoSlot(l) \/ OpenCatalogFails(l)
Use(l) == \/ Close(l) \/ CloseNone(l) \/ CloseCommand(l)
          \/ Write(l) \/ WriteNone(l) \/ WriteCommand(l) \/ DeleteOpen(l) \/ DeleteNone(l)
          \/ OnlyMounts(l)

Next == \/ \E l \in Lun : Open(l) \/ Use(l)
        \/ CommandChannel
        \/ Reset
        \/ SwapCard

Spec == Init /\ [][Next]_vars

-----------------------------------------------------------------------------
Status == {"SUCCESS", "NOT_FOUND", "NOT_OPEN", "MAX_LUNS", "DEVICE_ERR"}

(* Every variable keeps its type.                                           *)
TypeOk ==
  /\ used \in [Slot -> BOOLEAN] /\ lun \in [Slot -> Lun \cup {CmdLun}]
  /\ catalog \in [Slot -> BOOLEAN] /\ fp \in [Slot -> FileType]
  /\ open_files \in 0 .. MaxOpen /\ cmd_lun \in Lun \cup {CmdLun}
  /\ fs_initialized \in BOOLEAN /\ card \in Card
  /\ host \subseteq Lun
  /\ reply \in [op : {"open", "close", "write", "command", "delete", "mount", "reset"},
                lun : Lun \cup {CmdLun}, rc : Status, done : BOOLEAN]
  /\ clobbered \in BOOLEAN /\ nullWrite \in BOOLEAN

(* open_files counts the slots in use, whatever the host does: drv_reset()   *)
(* and the busy LED go by it.                                              *)
CountOk == open_files = Cardinality(InUse)

(* A LUN has one slot: find_lun() finds the only file of that LUN.           *)
OneSlotPerLun == \A s, t \in InUse : lun[s] = lun[t] => s = t

(* No slot is held for a LUN that the host was told is not open, or closed.  *)
HostAgrees == \A s \in InUse : lun[s] \in host

(* So the table is the host's view of what is open (reserve_lun(), free_lun()). *)
TableAgrees == OneSlotPerLun /\ HostAgrees

(* A file with unsaved data still has its slot, so that CLOSE and reset       *)
(* reach it: "If the file is open, it is closed and data is sync'd".        *)
Synced == \A s \in Slot : fp[s].dirty => used[s]

(* A WRITE that is answered SUCCESS has been written to the file: drv_write() *)
(* "writes data to the open file associated with the LUN number".           *)
AckedWrites == reply.op = "write" /\ reply.rc = "SUCCESS" => reply.done

(* What the host was told is written is written, or has a slot that a CLOSE or   *)
(* a reset will find (drv_write(), drv_close(), drv_reset()).                 *)
NothingLost == Synced /\ AckedWrites

(* After a bus reset no file is open, whatever went before: "ensure our file  *)
(* lun tables are reset".                                                  *)
ResetEmpties == reply.op = "reset" => InUse = {}

(* The count can be relied on, and drv_reset() does (drive.cpp:1036).            *)
ResetReachesAll == CountOk /\ ResetEmpties

(* A file is written only to the card it was opened on.                      *)
NoClobber == ~clobbered

(* The fields of a file_t are assigned only when there is one.               *)
NoNullWrite == ~nullWrite

(* The slots implement LunTable.                                            *)
Files == INSTANCE LunTable WITH
  opened  <- {lun[s] : s \in InUse},
  unsaved <- {lun[s] : s \in {t \in Slot : fp[t].dirty}}
LunsAreFiles == Files!Spec
=============================================================================
