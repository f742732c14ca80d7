------------------------------ MODULE Hotplug ------------------------------
(***************************************************************************)
(* How a change of the SD card reaches the drive.  A pin-change interrupt   *)
(* writes disk_state, the SD driver writes it too, and main() polls it       *)
(* after each byte of a PAB: it compares it with the value of the last poll, *)
(* switches on it and remembers it, in three reads of a volatile variable.  *)
(* When main() notices a change, drv_init() forgets the mounted file system *)
(* and the LUN table.                                                      *)
(***************************************************************************)
EXTENDS Naturals

CONSTANTS
  PabLen,    \* bytes of a PAB, 9 in the code: as many polls per command
  Hands,     \* the states of main() in which the user takes out or puts in a card
  Settled,   \* the user takes the card out only when main() has polled since the
             \* driver last wrote disk_state
  Flaky      \* the card may fail

MainStates == {"sleep", "recv", "compare", "switch", "assign", "exec", "init", "access"}

ASSUME HotplugAssumption ==
  /\ PabLen \in Nat \ {0}
  /\ Hands \subseteq MainStates
  /\ Settled \in BOOLEAN /\ Flaky \in BOOLEAN

VARIABLES
  present,          \* a card is in the slot: sdcard_detect()
  ready,            \* it has been initialised since it was put in
  mounted,          \* fs_initialized
  disk_state, disk_state_old,
  pc, i             \* where main() is, and the bytes of the PAB it has

card == <<present, ready>>
vars == <<present, ready, mounted, disk_state, disk_state_old, pc, i>>

DiskStates == {"OK", "CHANGED", "REMOVED", "ERROR"}

Go(from, to) == pc = from /\ pc' = to

-----------------------------------------------------------------------------
(* The user.  Either edge of the card-detect pin runs SD_CHANGE_HANDLER.    *)

TakeOut == /\ present /\ pc \in Hands
           /\ Settled => disk_state_old = disk_state
           /\ present' = FALSE /\ ready' = FALSE /\ disk_state' = "REMOVED"
           /\ UNCHANGED <<mounted, disk_state_old, pc, i>>

PutIn == /\ ~present /\ pc \in Hands
         /\ present' = TRUE /\ disk_state' = "CHANGED"
         /\ UNCHANGED <<ready, mounted, disk_state_old, pc, i>>

-----------------------------------------------------------------------------
(* main(): a PAB arrives. *)

Wake_KeepsCount == /\ Go("sleep", "recv") /\ i' = i
                   /\ UNCHANGED <<card, mounted, disk_state, disk_state_old>>
Wake == /\ Go("sleep", "recv") /\ i' = 0
        /\ UNCHANGED <<card, mounted, disk_state, disk_state_old>>

Receive == /\ Go("recv", "compare")
           /\ UNCHANGED <<card, mounted, disk_state, disk_state_old, i>>

CompareOld == /\ IF disk_state_old # disk_state THEN Go("compare", "switch")
                                                ELSE Go("compare", "assign")
              /\ UNCHANGED <<card, mounted, disk_state, disk_state_old, i>>

Switch_OnError == /\ Go("switch", "assign")
                  /\ mounted' = (mounted /\ disk_state = "OK")
                  /\ UNCHANGED <<card, disk_state, disk_state_old, i>>
Switch_OnlyRemoved == /\ Go("switch", "assign")
                      /\ mounted' = (mounted /\ disk_state # "REMOVED")
                      /\ UNCHANGED <<card, disk_state, disk_state_old, i>>
Switch == /\ Go("switch", "assign")
          /\ mounted' = (mounted /\ disk_state \notin {"CHANGED", "REMOVED"})
          /\ UNCHANGED <<card, disk_state, disk_state_old, i>>

(* The PAB may be given up, or name another device, or a command that does    *)
(* not need the card.                                                      *)
Assign == /\ pc = "assign"
          /\ pc' \in {"sleep", IF i + 1 = PabLen THEN "exec" ELSE "recv"}
          /\ disk_state_old' = disk_state /\ i' = i + 1
          /\ UNCHANGED <<card, mounted, disk_state>>

-----------------------------------------------------------------------------
(* A command of the drive: drv_start() mounts, which initialises the card;   *)
(* then FatFS reads or writes, or finds what it needs in its buffer.        *)

NoCard == /\ ~mounted /\ ~present /\ Go("exec", "sleep")
          /\ UNCHANGED <<card, mounted, disk_state, disk_state_old, i>>

StartInit == /\ ~mounted /\ present /\ Go("exec", "init")
             /\ disk_state' = "ERROR"
             /\ UNCHANGED <<card, mounted, disk_state_old, i>>

InitOk == /\ present /\ Go("init", "access")
          /\ disk_state' = "OK" /\ ready' = TRUE /\ mounted' = TRUE
          /\ UNCHANGED <<present, disk_state_old, i>>

(* sd_initialize() fails, or it succeeds and mount_drv() fails.             *)
InitFails == /\ ~present \/ Flaky
             /\ Go("init", "sleep")
             /\ \/ UNCHANGED <<disk_state, ready>>
                \/ present /\ disk_state' = "OK" /\ ready' = TRUE
             /\ UNCHANGED <<present, mounted, disk_state_old, i>>

AccessOk == /\ mounted /\ present /\ pc \in {"exec", "access"} /\ pc' = "sleep"
            /\ UNCHANGED <<card, mounted, disk_state, disk_state_old, i>>

(* validate() asks sd_status() first; sd_read() and sd_write() set DISK_ERROR *)
(* if the card does not take the command, not if the retries are used up.   *)
AccessFails == /\ mounted /\ pc \in {"exec", "access"} /\ pc' = "sleep"
               /\ \/ ~present /\ UNCHANGED disk_state
                  \/ present /\ (~ready \/ Flaky) /\ disk_state' \in {"ERROR", disk_state}
               /\ UNCHANGED <<card, mounted, disk_state_old, i>>

-----------------------------------------------------------------------------
Init == /\ present \in BOOLEAN /\ ready = FALSE /\ mounted = FALSE
        /\ disk_state = "OK" /\ disk_state_old = "OK"
        /\ pc = "sleep" /\ i = 0

Poll    == Receive \/ CompareOld \/ Switch \/ Assign
Command == NoCard \/ StartInit \/ InitOk \/ InitFails \/ AccessOk \/ AccessFails
User    == TakeOut \/ PutIn

Next == Wake \/ Poll \/ Command \/ User

Spec == Init /\ [][Next]_vars

-----------------------------------------------------------------------------
(* Every variable keeps its type.                                           *)
TypeOk == /\ present \in BOOLEAN /\ ready \in BOOLEAN /\ mounted \in BOOLEAN
          /\ disk_state \in DiskStates /\ disk_state_old \in DiskStates
          /\ pc \in MainStates /\ i \in 0 .. PabLen

(* A command never runs on a file system mounted from a card that was taken  *)
(* out since: "If the disk was changed the buffer contents are useless".    *)
FreshMount == pc \in {"exec", "init", "access"} /\ mounted => ready

(* Open files are thrown away only when the card was taken out: drv_init() is *)
(* not called for an error of the card or for a change dealt with before.   *)
NoNeedlessInit == [][mounted /\ ~mounted' => ~ready]_vars
=============================================================================
