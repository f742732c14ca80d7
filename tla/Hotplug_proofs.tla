--------------------------- MODULE Hotplug_proofs ---------------------------
(***************************************************************************)
(* Why main() notices every change of the card, for a PAB of any length,    *)
(* when the user changes it between two polls and gives main() one poll      *)
(* after each write of disk_state.                                         *)
(***************************************************************************)
EXTENDS Hotplug, TLAPS

(* i counts the bytes of the PAB: there is room for another one while main() *)
(* is in its loop.                                                         *)
ByteCount == pc \in {"recv", "compare", "switch", "assign"} => i < PabLen
TInv == TypeOk /\ ByteCount

(* The user changes the card between two polls of main(), and only after a    *)
(* poll that followed the driver's last write of disk_state.               *)
Careful == Settled /\ Hands \subseteq {"sleep", "recv"}

(* While a file system is mounted, its card is still there and disk_state     *)
(* reports no change, or it is gone, disk_state says so and the last poll     *)
(* saw something else: the next one will switch.                           *)
Pending == \/ ready /\ disk_state \in {"OK", "ERROR"}
           \/ /\ disk_state \in {"CHANGED", "REMOVED"}
              /\ disk_state_old \in {"OK", "ERROR"}
              /\ pc \in {"sleep", "recv", "compare", "switch"}
Noticed == /\ mounted => Pending
           /\ pc = "init" => ~mounted

(* drv_init() runs only while the mounted card is out: the poll that switches *)
(* on CHANGED or REMOVED does so because of a change not dealt with.        *)
Gone == /\ mounted /\ disk_state \in {"CHANGED", "REMOVED"} => ~ready
        /\ ready => present

-----------------------------------------------------------------------------
(* A poll adds one byte and goes on only while bytes are missing.            *)
LEMMA TypeStep == TInv /\ [Next]_vars => TInv'
<1> SUFFICES ASSUME TInv, [Next]_vars PROVE TInv'
  OBVIOUS
<1> USE HotplugAssumption DEF TInv, TypeOk, ByteCount, Go, card, MainStates, DiskStates
<1>1. CASE Wake  BY <1>1 DEF Wake
<1>2. CASE Receive  BY <1>2 DEF Receive
<1>3. CASE CompareOld  BY <1>3 DEF CompareOld
<1>4. CASE Switch  BY <1>4 DEF Switch
<1>5. CASE Assign
  <2>1. i + 1 \in 1 .. PabLen /\ (i + 1 # PabLen => i + 1 < PabLen)
    BY <1>5 DEF Assign
  <2> QED  BY <1>5, <2>1 DEF Assign
<1>6. CASE Command
  BY <1>6 DEF Command, NoCard, StartInit, InitOk, InitFails, AccessOk, AccessFails
<1>7. CASE User  BY <1>7 DEF User, TakeOut, PutIn
<1>8. CASE UNCHANGED vars  BY <1>8 DEF vars
<1> QED  BY <1>1, <1>2, <1>3, <1>4, <1>5, <1>6, <1>7, <1>8 DEF Next, Poll

(* Every variable keeps its type; in particular main() never reads more bytes *)
(* than a PAB has, however the card is changed (main.cpp, the inner loop).  *)
THEOREM PollsPerPab == Spec => []TypeOk
<1>1. Init => TInv
  <2> SUFFICES ASSUME Init PROVE TInv
    OBVIOUS
  <2>1. i \in 0 .. PabLen /\ i < PabLen
    BY HotplugAssumption DEF Init
  <2>2. /\ present \in BOOLEAN /\ ready \in BOOLEAN /\ mounted \in BOOLEAN
        /\ disk_state \in DiskStates /\ disk_state_old \in DiskStates /\ pc \in MainStates
    BY Zenon DEF Init, DiskStates, MainStates
  <2> QED  BY <2>1, <2>2 DEF TInv, TypeOk, ByteCount
<1>2. TInv => TypeOk  BY DEF TInv
<1> QED  BY <1>1, <1>2, TypeStep, PTL DEF Spec

-----------------------------------------------------------------------------
LEMMA NoticedStep ==
  ASSUME Careful
  PROVE  TypeOk /\ Noticed /\ Gone /\ [Next]_vars => Noticed' /\ Gone'
<1> SUFFICES ASSUME TypeOk, Noticed, Gone, [Next]_vars PROVE Noticed' /\ Gone'
  OBVIOUS
<1> USE DEF TypeOk, Noticed, Pending, Gone, Go, card, MainStates, DiskStates
<1>1. CASE Wake  BY <1>1 DEF Wake
<1>2. CASE Receive  BY <1>2 DEF Receive
<1>3. CASE CompareOld  BY <1>3 DEF CompareOld
<1>4. CASE Switch  BY <1>4 DEF Switch
<1>5. CASE Assign  BY <1>5 DEF Assign
<1>6. CASE Command
  BY <1>6 DEF Command, NoCard, StartInit, InitOk, InitFails, AccessOk, AccessFails
<1>7. CASE User  BY <1>7, Careful DEF User, TakeOut, PutIn, Careful
<1>8. CASE UNCHANGED vars  BY <1>8 DEF vars
<1> QED  BY <1>1, <1>2, <1>3, <1>4, <1>5, <1>6, <1>7, <1>8 DEF Next, Poll

LEMMA NoticedAlways == ASSUME Careful PROVE Spec => [](TypeOk /\ Noticed /\ Gone)
<1>1. Init => Noticed /\ Gone  BY DEF Init, Noticed, Gone
<1> QED  BY <1>1, PollsPerPab, NoticedStep, PTL DEF Spec

(* No command runs on a file system mounted from a card that was taken out    *)
(* since.                                                                  *)
THEOREM ChangesAreNoticed == ASSUME Careful PROVE Spec => []FreshMount
<1>1. TypeOk /\ Noticed => FreshMount
  BY DEF TypeOk, Noticed, Pending, FreshMount
<1> QED  BY <1>1, NoticedAlways, PTL

(* Files are thrown away only when their card was taken out.                 *)
THEOREM FilesAreKept == ASSUME Careful PROVE Spec => NoNeedlessInit
<1>1. TypeOk /\ Gone /\ [Next]_vars => [mounted /\ ~mounted' => ~ready]_vars
  BY DEF TypeOk, Gone, Next, vars, card, Wake, Poll, Command, User, TakeOut, PutIn, Receive,
         CompareOld, Switch, Assign, NoCard, StartInit, InitOk, InitFails, AccessOk,
         AccessFails, Go
<1> QED  BY <1>1, NoticedAlways, PTL DEF Spec, NoNeedlessInit
=============================================================================
