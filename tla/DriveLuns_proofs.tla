-------------------------- MODULE DriveLuns_proofs --------------------------
(* What holds of the drive's LUN table for any number of slots, LUNs and     *)
(* cards.                                                                  *)
EXTENDS DriveLuns, FiniteSetTheorems, WellFoundedInduction, TLAPS

-----------------------------------------------------------------------------
(* The slots are finitely many. *)

LEMMA SlotFinite == IsFiniteSet(Slot) /\ Cardinality(Slot) = MaxOpen
BY DriveAssumption, FS_Interval DEF Slot

LEMMA SubsetOfSlots ==
  ASSUME NEW S \in SUBSET Slot
  PROVE  IsFiniteSet(S) /\ Cardinality(S) \in 0 .. MaxOpen
BY SlotFinite, FS_Subset, FS_CardinalityType, DriveAssumption

(* A search that finds a slot finds one of those it looks for.              *)
LEMMA FirstIsMember ==
  ASSUME NEW S \in SUBSET Slot, S # {}
  PROVE  First(S) \in S
<1> DEFINE Less == OpToRel(<, Nat)
<1>1. \A a, b \in Nat : a < b => <<a, b>> \in Less
  BY DEF OpToRel
<1>2. IsWellFoundedOn(Less, Nat)
  BY NatLessThanWellFounded
<1> HIDE DEF Less
<1>3. S \in SUBSET Nat
  BY DEF Slot
<1>4. PICK x \in S : \A y \in S : <<y, x>> \notin Less
  BY <1>2, <1>3, WFMin
<1>5. \A y \in S : x <= y
  <2> TAKE y \in S
  <2>1. x \in Nat /\ y \in Nat
    BY <1>3
  <2>2. ~(y < x)
    BY <1>1, <1>4, <2>1, Zenon
  <2> QED
    BY <2>1, <2>2
<1> QED
  BY <1>5 DEF First

-----------------------------------------------------------------------------
(* The count of open files.  The invariant has two halves: the table, which *)
(* few actions touch, and everything else, which only needs its type.       *)

TableOk ==
  /\ used \in [Slot -> BOOLEAN] /\ lun \in [Slot -> Lun \cup {CmdLun}]
  /\ catalog \in [Slot -> BOOLEAN] /\ open_files \in 0 .. MaxOpen
  /\ CountOk

Ops == {"open", "close", "write", "command", "delete", "mount", "reset"}
ReplyType == [op : Ops, lun : Lun \cup {CmdLun}, rc : Status, done : BOOLEAN]

OthersOk ==
  /\ fp \in [Slot -> FileType]
  /\ cmd_lun \in Lun \cup {CmdLun} /\ fs_initialized \in BOOLEAN /\ card \in Card
  /\ host \subseteq Lun
  /\ reply \in ReplyType
  /\ clobbered \in BOOLEAN /\ nullWrite \in BOOLEAN

LEMMA Halves == TypeOk /\ CountOk <=> TableOk /\ OthersOk
BY DEF TypeOk, TableOk, OthersOk, ReplyType, Ops

LEMMA ReserveKeepsTable ==
  ASSUME TableOk, NEW s \in Free, NEW l \in Lun, NEW isCatalog \in BOOLEAN,
         Reserve(s, l, isCatalog)
  PROVE  TableOk'
<1>1. s \in Slot /\ s \notin InUse /\ InUse \in SUBSET Slot
  BY DEF Free, InUse
<1>2. /\ used' \in [Slot -> BOOLEAN] /\ lun' \in [Slot -> Lun \cup {CmdLun}]
      /\ catalog' \in [Slot -> BOOLEAN]
  BY <1>1 DEF TableOk, Reserve
<1>3. InUse' = InUse \cup {s}
  BY <1>1 DEF InUse, TableOk, Reserve
<1>4. Cardinality(InUse') = Cardinality(InUse) + 1
  BY <1>1, <1>3, SubsetOfSlots, FS_AddElement
<1>5. CountOk'
  BY <1>4 DEF CountOk, TableOk, Reserve
<1>6. InUse' \in SUBSET Slot
  BY <1>1, <1>3
<1> QED
  BY <1>2, <1>5, <1>6, SubsetOfSlots DEF TableOk, CountOk

LEMMA FreeAllKeepsTable ==
  ASSUME TableOk, NEW S \in SUBSET InUse, FreeAll(S)
  PROVE  TableOk'
<1>1. InUse \in SUBSET Slot /\ S \in SUBSET Slot
  BY DEF InUse
<1>2. /\ used' \in [Slot -> BOOLEAN] /\ lun' \in [Slot -> Lun \cup {CmdLun}]
      /\ catalog' \in [Slot -> BOOLEAN]
  BY DEF TableOk, FreeAll
<1>3. InUse' = InUse \ S
  BY <1>1 DEF InUse, TableOk, FreeAll
<1>4. InUse \cap S = S
  OBVIOUS
<1>5. Cardinality(InUse') = Cardinality(InUse) - Cardinality(S)
  BY <1>1, <1>3, <1>4, SubsetOfSlots, FS_Difference
<1>6. CountOk'
  BY <1>5 DEF CountOk, TableOk, FreeAll
<1>7. InUse' \in SUBSET Slot
  BY <1>1, <1>3
<1> QED
  BY <1>2, <1>6, <1>7, SubsetOfSlots DEF TableOk, CountOk

LEMMA HoldingInUse == \A l : Holding(l) \in SUBSET InUse
BY DEF Holding, InUse

LEMMA FirstFree == Free # {} => First(Free) \in Free /\ First(Free) \in Slot
BY FirstIsMember DEF Free

LEMMA FirstHolding ==
  \A l : Holding(l) # {} => First(Holding(l)) \in Holding(l) /\ First(Holding(l)) \in Slot
BY FirstIsMember DEF Holding

LEMMA SameTable == TableOk /\ UNCHANGED table => TableOk'
BY DEF TableOk, table, CountOk, InUse

(* A failed open gives its own slot back, and those of the same LUN.        *)
LEMMA OpenFailsKeepsTable ==
  ASSUME TableOk, NEW l \in Lun, OpenFails(l)
  PROVE  TableOk'
<1> DEFINE s == First(Free)
<1>1. s \in Free /\ s \in Slot
  BY FirstFree DEF OpenFails
<1>2. Holding(l) \in SUBSET InUse /\ InUse \in SUBSET Slot /\ s \notin Holding(l)
  BY <1>1 DEF Holding, InUse, Free
<1>3. InUse' = InUse \ Holding(l)
  BY DEF OpenFails, InUse, Holding, TableOk
<1>4. Cardinality(InUse') = Cardinality(InUse) - Cardinality(Holding(l))
  <2>1. InUse \cap Holding(l) = Holding(l)
    BY <1>2
  <2> QED
    BY <1>2, <1>3, <2>1, SubsetOfSlots, FS_Difference
<1>5. Cardinality(Holding(l) \cup {s}) = Cardinality(Holding(l)) + 1
  BY <1>1, <1>2, SubsetOfSlots, FS_AddElement
<1>6. open_files' = open_files + 1 - Cardinality(Holding(l) \cup {s})
  BY DEF OpenFails
<1>7. Cardinality(InUse) \in Nat /\ Cardinality(Holding(l)) \in Nat
  BY <1>2, SubsetOfSlots, DriveAssumption
<1>8. CountOk'
  BY <1>4, <1>5, <1>6, <1>7 DEF CountOk, TableOk
<1>9. /\ used' \in [Slot -> BOOLEAN] /\ lun' \in [Slot -> Lun \cup {CmdLun}]
      /\ catalog' \in [Slot -> BOOLEAN]
  BY <1>1 DEF OpenFails, TableOk, Holding
<1> QED
  BY <1>3, <1>8, <1>9, <1>2, SubsetOfSlots DEF TableOk, CountOk

LEMMA OpenKeepsTable ==
  ASSUME TableOk, NEW l \in Lun, Open(l)
  PROVE  TableOk'
<1>1. CASE OpenNoCard(l) \/ OpenNoSlot(l) \/ OpenCatalogNoSlot(l) \/ OpenCommand(l)
  BY <1>1, SameTable DEF OpenNoCard, OpenNoSlot, OpenCatalogNoSlot, OpenCommand
<1>2. CASE OpenFails(l)
  BY <1>2, OpenFailsKeepsTable
<1>3. CASE \E mode \in {"read", "update", "create"} : OpenFile(l, mode)
  BY <1>3, FirstFree, ReserveKeepsTable DEF OpenFile
<1>4. CASE OpenCatalog(l)
  BY <1>4, FirstFree, ReserveKeepsTable DEF OpenCatalog
<1>5. CASE OpenCatalogFails(l)
  BY <1>5, FirstFree, ReserveKeepsTable DEF OpenCatalogFails
<1> QED
  BY <1>1, <1>2, <1>3, <1>4, <1>5 DEF Open

LEMMA UseKeepsTable ==
  ASSUME TableOk, NEW l \in Lun, Use(l)
  PROVE  TableOk'
<1>1. CASE Close(l)
  BY <1>1, HoldingInUse, FreeAllKeepsTable DEF Close
<1>2. CASE DeleteOpen(l)
  BY <1>2, HoldingInUse, FreeAllKeepsTable DEF DeleteOpen
<1>3. CASE \/ CloseNone(l) \/ CloseCommand(l) \/ Write(l) \/ WriteNone(l)
           \/ WriteCommand(l) \/ DeleteNone(l) \/ OnlyMounts(l)
  BY <1>3, SameTable DEF CloseNone, CloseCommand, Write, WriteNone, WriteCommand, DeleteNone, OnlyMounts
<1> QED
  BY <1>1, <1>2, <1>3 DEF Use

LEMMA ResetKeepsTable == TableOk /\ Reset => TableOk'
BY FreeAllKeepsTable, SameTable DEF Reset

LEMMA CommandKeepsTable == TableOk /\ CommandChannel => TableOk'
BY SameTable DEF CommandChannel

LEMMA SwapKeepsTable == TableOk /\ SwapCard => TableOk'
<1> SUFFICES ASSUME TableOk, SwapCard
             PROVE  TableOk'
  OBVIOUS
<1>1. InUse' = {}
  BY DEF InUse, SwapCard
<1> QED
  BY <1>1, FS_EmptySet, DriveAssumption DEF TableOk, CountOk, SwapCard

(* The other half. *)

LEMMA CloseFilesType ==
  ASSUME OthersOk, NEW S \in SUBSET Slot, CloseFiles(S)
  PROVE  fp' \in [Slot -> FileType] /\ clobbered' \in BOOLEAN
BY DEF OthersOk, CloseFiles, Bound, Closed, FileType

LEMMA StartType == Start => fs_initialized' \in BOOLEAN
BY DEF Start

LEMMA ReplyHasType ==
  ASSUME NEW op \in Ops, NEW l \in Lun \cup {CmdLun}, NEW rc \in Status, NEW done \in BOOLEAN,
         Reply(op, l, rc, done)
  PROVE  reply' \in ReplyType
BY DEF Reply, ReplyType

LEMMA OpenKeepsOthers ==
  ASSUME OthersOk, NEW l \in Lun, Open(l)
  PROVE  OthersOk'
<1> USE DEF OthersOk, Reply, ReplyType, Ops, Start, Status, Opened
<1>1. CASE OpenNoCard(l)
  BY <1>1 DEF OpenNoCard
<1>2. CASE OpenNoSlot(l)
  BY <1>2 DEF OpenNoSlot
<1>3. CASE \E mode \in {"read", "update", "create"} : OpenFile(l, mode)
  BY <1>3, FirstFree DEF OpenFile, FileType
<1>4. CASE OpenFails(l)
  BY <1>4, FirstFree DEF OpenFails, FileType, Closed
<1>5. CASE OpenCatalog(l)
  BY <1>5 DEF OpenCatalog
<1>6. CASE OpenCatalogNoSlot(l)
  BY <1>6 DEF OpenCatalogNoSlot
<1>7. CASE OpenCatalogFails(l)
  BY <1>7 DEF OpenCatalogFails
<1>8. CASE OpenCommand(l)
  BY <1>8 DEF OpenCommand
<1> QED
  BY <1>1, <1>2, <1>3, <1>4, <1>5, <1>6, <1>7, <1>8 DEF Open

LEMMA UseKeepsOthers ==
  ASSUME OthersOk, NEW l \in Lun, Use(l)
  PROVE  OthersOk'
<1>s. Holding(l) # {} => /\ First(Holding(l)) \in Slot
                         /\ {First(Holding(l))} \in SUBSET Slot
                         /\ fp[First(Holding(l))] \in FileType
                         /\ fp[First(Holding(l))].open \in BOOLEAN
  BY FirstHolding DEF OthersOk, FileType
<1>r. \A b \in BOOLEAN : (IF b THEN "SUCCESS" ELSE "DEVICE_ERR") \in Status
  BY DEF Status
<1>n. /\ (IF fs_initialized THEN "NOT_OPEN" ELSE "DEVICE_ERR") \in Status
      /\ (IF fs_initialized THEN "SUCCESS" ELSE "DEVICE_ERR") \in Status
  BY DEF Status
<1>o. /\ "SUCCESS" \in Status /\ "DEVICE_ERR" \in Status
      /\ "NOT_OPEN" \in Status /\ "NOT_FOUND" \in Status
      /\ "close" \in Ops /\ "delete" \in Ops /\ "write" \in Ops /\ "command" \in Ops
      /\ "mount" \in Ops
  BY DEF Status, Ops
<1>1. CASE Close(l)
  <2> DEFINE s == First(Holding(l))
  <2>1. fp' \in [Slot -> FileType] /\ clobbered' \in BOOLEAN
    BY <1>1, <1>s, CloseFilesType DEF Close, OthersOk
  <2>2. reply' \in ReplyType
    BY <1>1, <1>s, <1>r, <1>o, ReplyHasType DEF Close
  <2> QED
    BY <1>1, <2>1, <2>2 DEF Close, OthersOk
<1>2. CASE DeleteOpen(l)
  <2>1. fp' \in [Slot -> FileType] /\ clobbered' \in BOOLEAN
    BY <1>2, <1>s, CloseFilesType DEF DeleteOpen, OthersOk
  <2>2. reply' \in ReplyType
    BY <1>2, <1>s, <1>r, <1>o, ReplyHasType DEF DeleteOpen
  <2> QED
    BY <1>2, <2>1, <2>2, StartType DEF DeleteOpen, OthersOk
<1>3. CASE Write(l)
  <2>1. fp' \in [Slot -> FileType] /\ clobbered' \in BOOLEAN
    <3> DEFINE s == First(Holding(l))
    <3>1. Written(fp[s]) \in FileType
      BY <1>3, <1>s DEF Write, FileType, Written
    <3>2. fp' = [fp EXCEPT ![s] = Written(fp[s])] \/ fp' = fp
      BY <1>3 DEF Write
    <3>3. clobbered' = (clobbered \/ fp[s].card # card) \/ clobbered' = clobbered
      BY <1>3 DEF Write
    <3>4. fp' \in [Slot -> FileType]
      BY <3>1, <3>2 DEF OthersOk
    <3> QED
      BY <3>3, <3>4 DEF OthersOk
  <2>2. reply' \in ReplyType
    BY <1>3, <1>r, <1>o, ReplyHasType DEF Write
  <2> QED
    BY <1>3, <2>1, <2>2 DEF Write, OthersOk
<1>4. CASE CloseNone(l)
  BY <1>4, <1>n, <1>o, ReplyHasType DEF CloseNone, OthersOk
<1>5. CASE CloseCommand(l)
  BY <1>5, <1>o, ReplyHasType DEF CloseCommand, OthersOk
<1>6. CASE WriteNone(l)
  <2>1. reply' \in ReplyType
    BY <1>6, <1>n, <1>o, ReplyHasType DEF WriteNone, OthersOk
  <2> QED
    BY <1>6, <2>1 DEF WriteNone, OthersOk
<1>7. CASE WriteCommand(l)
  BY <1>7, <1>o, ReplyHasType DEF WriteCommand, OthersOk
<1>8. CASE DeleteNone(l) \/ OnlyMounts(l)
  <2>1. CASE DeleteNone(l)
    BY <2>1, <1>o, ReplyHasType, StartType DEF DeleteNone, OthersOk
  <2>2. CASE OnlyMounts(l)
    <3>1. \/ Reply("mount", l, "SUCCESS", TRUE)
          \/ Reply("mount", l, "NOT_FOUND", FALSE)
      BY <2>2 DEF OnlyMounts, Reply
    <3>2. reply' \in ReplyType
      BY <3>1, <1>o, ReplyHasType
    <3> QED
      BY <2>2, <3>2, StartType DEF OnlyMounts, OthersOk
  <2> QED
    BY <1>8, <2>1, <2>2
<1> QED
  BY <1>1, <1>2, <1>3, <1>4, <1>5, <1>6, <1>7, <1>8 DEF Use

LEMMA FirstsInUse == FirstOfEach \in SUBSET InUse /\ InUse \in SUBSET Slot
<1>1. \A s \in InUse : s \in Holding(lun[s]) /\ Holding(lun[s]) \in SUBSET InUse
  BY DEF Holding, InUse
<1>2. \A s \in InUse : First(Holding(lun[s])) \in InUse
  BY <1>1, FirstHolding
<1> QED
  BY <1>2 DEF FirstOfEach, InUse

LEMMA ResetKeepsOthers == OthersOk /\ Reset => OthersOk'
<1> SUFFICES ASSUME OthersOk, Reset
             PROVE  OthersOk'
  OBVIOUS
<1>1. (\E S \in SUBSET Slot : CloseFiles(S)) \/ UNCHANGED <<fp, clobbered>>
  BY FirstsInUse DEF Reset
<1>2. fp' \in [Slot -> FileType] /\ clobbered' \in BOOLEAN
  BY <1>1, CloseFilesType DEF OthersOk
<1> QED
  BY <1>2, StartType DEF Reset, OthersOk, Reply, ReplyType, Ops, Status

LEMMA CommandKeepsOthers == OthersOk /\ CommandChannel => OthersOk'
BY StartType DEF CommandChannel, OthersOk, Reply, ReplyType, Ops, Status

LEMMA SwapKeepsOthers == OthersOk /\ SwapCard => OthersOk'
BY DEF OthersOk, SwapCard, ghost

(* Every variable keeps its type and open_files is the number of slots in     *)
(* use, whatever the host asks for: reserve_lun(), free_lun() and drv_init()  *)
(* keep them together.                                                     *)
THEOREM CountInvariant == Spec => [](TypeOk /\ CountOk)
<1>1. Init => TypeOk /\ CountOk
  <2> SUFFICES ASSUME Init
               PROVE  TableOk /\ OthersOk
    BY Halves
  <2>1. InUse = {}
    BY DEF Init, InUse
  <2>2. TableOk
    BY <2>1, FS_EmptySet, DriveAssumption DEF Init, TableOk, CountOk
  <2>3. OthersOk
    BY DEF Init, OthersOk, FileType, ReplyType, Ops, Status
  <2> QED
    BY <2>2, <2>3
<1>2. TypeOk /\ CountOk /\ [Next]_vars => (TypeOk /\ CountOk)'
  <2> SUFFICES ASSUME TypeOk, CountOk, [Next]_vars
               PROVE  TableOk' /\ OthersOk'
    BY DEF TypeOk, TableOk, OthersOk, ReplyType, Ops
  <2> TableOk /\ OthersOk
    BY Halves
  <2>1. CASE \E l \in Lun : Open(l) \/ Use(l)
    BY <2>1, OpenKeepsTable, UseKeepsTable, OpenKeepsOthers, UseKeepsOthers
  <2>2. CASE Reset
    BY <2>2, ResetKeepsTable, ResetKeepsOthers
  <2>3. CASE SwapCard
    BY <2>3, SwapKeepsTable, SwapKeepsOthers
  <2>4. CASE CommandChannel
    BY <2>4, CommandKeepsTable, CommandKeepsOthers
  <2>5. CASE UNCHANGED vars
    BY <2>5, SameTable DEF vars, table, OthersOk
  <2> QED
    BY <2>1, <2>2, <2>3, <2>4, <2>5 DEF Next
<1> QED
  BY <1>1, <1>2, PTL DEF Spec

-----------------------------------------------------------------------------
(* The host and the table agree, if the host opens each LUN once, opens only *)
(* directories that are there, and leaves the command channel at LUN 255.   *)
(* The card may be swapped, it may fail if the host opens no directories, and  *)
(* there may be too few slots.                                              *)

Tidy == Habits \cap {"reopen", "command"} = {} /\ ~CatalogsFail

Agrees == OneSlotPerLun /\ HostAgrees /\ cmd_lun = CmdLun

LEMMA AgreesAfterReserve ==
  ASSUME TableOk, Agrees, NEW s \in Free, NEW l \in Lun, l \notin host,
         NEW isCatalog \in BOOLEAN, Reserve(s, l, isCatalog),
         host' = host \cup {l}, cmd_lun' = cmd_lun
  PROVE  Agrees'
<1>1. s \in Slot /\ s \notin InUse /\ InUse \in SUBSET Slot
  BY DEF Free, InUse
<1>2. InUse' = InUse \cup {s}
  BY <1>1 DEF InUse, TableOk, Reserve
<1>3. lun'[s] = l /\ \A t \in InUse : lun'[t] = lun[t]
  BY <1>1 DEF TableOk, Reserve
<1>4. \A t \in InUse : lun[t] # l
  BY DEF Agrees, HostAgrees
<1>5. HostAgrees'
  BY <1>2, <1>3 DEF Agrees, HostAgrees
<1>6. OneSlotPerLun'
  BY <1>2, <1>3, <1>4 DEF Agrees, OneSlotPerLun
<1> QED
  BY <1>5, <1>6 DEF Agrees

LEMMA AgreesAfterFree ==
  ASSUME TableOk, Agrees, NEW S \in SUBSET InUse, FreeAll(S),
         \A s \in InUse \ S : lun[s] \in host', cmd_lun' = cmd_lun
  PROVE  Agrees'
<1>1. InUse' = InUse \ S /\ lun' = lun
  BY DEF InUse, TableOk, FreeAll
<1> QED
  BY <1>1 DEF Agrees, HostAgrees, OneSlotPerLun

LEMMA AgreesWhenSame ==
  ASSUME Agrees, UNCHANGED <<used, lun, cmd_lun>>, host' = host
  PROVE  Agrees'
BY DEF Agrees, HostAgrees, OneSlotPerLun, InUse

(* What the host has not open has no slot.                                  *)
LEMMA NoSlotUnlessOpen ==
  ASSUME Agrees, NEW l, l \notin host
  PROVE  Holding(l) = {}
BY DEF Agrees, HostAgrees, Holding, InUse

LEMMA OpenAgrees ==
  ASSUME Tidy, TableOk, Agrees, NEW l \in Lun, Open(l)
  PROVE  Agrees'
<1>t. HostOpens(l) => l \notin host
  BY DEF Tidy, HostOpens
<1>1. CASE OpenNoCard(l) \/ OpenNoSlot(l) \/ OpenCatalogNoSlot(l)
  BY <1>1, AgreesWhenSame DEF OpenNoCard, OpenNoSlot, OpenCatalogNoSlot, table
<1>2. CASE OpenFails(l)
  <2> DEFINE s == First(Free)
  <2>1. s \in Slot /\ ~used[s] /\ Holding(l) = {}
    BY <1>2, <1>t, FirstFree, NoSlotUnlessOpen DEF OpenFails, Free
  <2>2. InUse' = InUse /\ \A t \in InUse : lun'[t] = lun[t]
    BY <1>2, <2>1 DEF OpenFails, InUse, TableOk
  <2> QED
    BY <1>2, <2>2 DEF OpenFails, Agrees, HostAgrees, OneSlotPerLun
<1>3. CASE \E mode \in {"read", "update", "create"} : OpenFile(l, mode)
  BY <1>3, <1>t, FirstFree, AgreesAfterReserve DEF OpenFile, Opened
<1>4. CASE OpenCatalog(l)
  BY <1>4, <1>t, FirstFree, AgreesAfterReserve DEF OpenCatalog, Opened
<1>5. CASE OpenCatalogFails(l) \/ OpenCommand(l)
  BY <1>5 DEF OpenCatalogFails, OpenCommand, Tidy
<1> QED
  BY <1>1, <1>2, <1>3, <1>4, <1>5 DEF Open

LEMMA UseAgrees ==
  ASSUME TableOk, Agrees, NEW l \in Lun, Use(l)
  PROVE  Agrees'
<1>1. l # cmd_lun
  BY DriveAssumption DEF Agrees
<1>2. \A s \in InUse \ Holding(l) : lun[s] \in host \ {l}
  BY DEF Agrees, HostAgrees, InUse, Holding
<1>3. CASE Close(l)
  BY <1>2, <1>3, HoldingInUse, AgreesAfterFree DEF Close
<1>4. CASE DeleteOpen(l)
  BY <1>2, <1>4, HoldingInUse, AgreesAfterFree DEF DeleteOpen
<1>5. CASE CloseNone(l)
  <2>1. InUse' = InUse /\ lun' = lun /\ cmd_lun' = cmd_lun /\ host' = host \ {l}
    BY <1>5 DEF CloseNone, InUse, table
  <2>2. \A s \in InUse : lun[s] # l
    BY <1>5 DEF CloseNone, Holding, InUse
  <2> QED
    BY <2>1, <2>2 DEF Agrees, HostAgrees, OneSlotPerLun
<1>6. CASE Write(l) \/ WriteNone(l) \/ DeleteNone(l) \/ OnlyMounts(l)
  BY <1>6, AgreesWhenSame DEF Write, WriteNone, DeleteNone, OnlyMounts, table
<1>7. CASE CloseCommand(l) \/ WriteCommand(l)
  BY <1>1, <1>7 DEF CloseCommand, WriteCommand
<1> QED
  BY <1>3, <1>4, <1>5, <1>6, <1>7 DEF Use

(* A reset that finds open_files at zero leaves the table as it is: the count *)
(* has to be right for the table to be empty.                              *)
LEMMA ResetEmptiesTable == TableOk /\ Reset => InUse' = {}
<1> SUFFICES ASSUME TableOk, Reset
             PROVE  InUse' = {}
  OBVIOUS
<1>1. InUse \in SUBSET Slot
  BY DEF InUse
<1>2. CASE open_files > 0
  BY <1>2 DEF Reset, FreeAll, InUse
<1>3. CASE ~(open_files > 0)
  <2>1. Cardinality(InUse) = 0
    BY <1>1, <1>3, SubsetOfSlots, DriveAssumption DEF TableOk, CountOk
  <2>2. InUse = {}
    BY <1>1, <2>1, SubsetOfSlots, FS_EmptySet
  <2>3. used' = used
    BY <1>3 DEF Reset, table
  <2> QED
    BY <2>2, <2>3 DEF InUse
<1> QED
  BY <1>2, <1>3

LEMMA EmptyAgrees ==
  ASSUME InUse' = {}, cmd_lun' = CmdLun
  PROVE  Agrees'
BY DEF Agrees, HostAgrees, OneSlotPerLun

(* With a tidy host each LUN has at most one slot, and a slot is held only    *)
(* for a LUN that was opened and not closed: no failed OPEN, no CLOSE, no    *)
(* DELETE, reset or change of card leaves one behind.                       *)
THEOREM TidyAgreement ==
  ASSUME Tidy
  PROVE  Spec => []TableAgrees
<1>1. Init => Agrees
  BY DEF Init, Agrees, HostAgrees, OneSlotPerLun, InUse
<1>2. Agrees /\ TypeOk /\ CountOk /\ [Next]_vars => Agrees'
  <2> SUFFICES ASSUME Agrees, TypeOk, CountOk, [Next]_vars
               PROVE  Agrees'
    OBVIOUS
  <2> TableOk
    BY Halves
  <2>1. CASE \E l \in Lun : Open(l) \/ Use(l)
    BY <2>1, OpenAgrees, UseAgrees
  <2>2. CASE Reset
    BY <2>2, ResetEmptiesTable, EmptyAgrees DEF Reset, Agrees
  <2>3. CASE SwapCard
    <3>1. InUse' = {}
      BY <2>3 DEF SwapCard, InUse
    <3> QED
      BY <2>3, <3>1, EmptyAgrees DEF SwapCard, Agrees
  <2>4. CASE CommandChannel
    BY <2>4 DEF CommandChannel, table, Agrees, OneSlotPerLun, HostAgrees, InUse
  <2>5. CASE UNCHANGED vars
    BY <2>5, AgreesWhenSame DEF vars
  <2> QED
    BY <2>1, <2>2, <2>3, <2>4, <2>5 DEF Next
<1>3. Agrees => TableAgrees
  BY DEF Agrees, TableAgrees
<1> QED
  BY <1>1, <1>2, <1>3, CountInvariant, PTL DEF Spec

(* After a bus reset no file is open, whatever went before: drv_reset() looks  *)
(* at open_files before it looks at the table, so this rests on the count.  *)
THEOREM ResetFreesEverySlot == Spec => []ResetEmpties
<1>1. Init => ResetEmpties
  BY DEF Init, ResetEmpties, InUse
<1>2. ResetEmpties /\ TypeOk /\ CountOk /\ [Next]_vars => ResetEmpties'
  <2> SUFFICES ASSUME ResetEmpties, TypeOk, CountOk, [Next]_vars
               PROVE  ResetEmpties'
    OBVIOUS
  <2>1. ASSUME NEW l \in Lun, Open(l) PROVE reply'.op = "open"
    <3>1. \E rc, done : Reply("open", l, rc, done)
      BY <2>1, Zenon DEF Open, OpenNoCard, OpenNoSlot, OpenFile, OpenFails, OpenCatalog,
                         OpenCatalogNoSlot, OpenCatalogFails, OpenCommand
    <3> QED
      BY <3>1 DEF Reply
  <2>2. ASSUME NEW l \in Lun, Use(l) PROVE reply'.op # "reset"
    <3>1. \E op \in {"close", "write", "command", "delete", "mount"} : \E rc, done : Reply(op, l, rc, done)
      BY <2>2, Zenon DEF Use, Close, CloseNone, CloseCommand, Write, WriteNone,
                         WriteCommand, DeleteOpen, DeleteNone, OnlyMounts
    <3> QED
      BY <3>1 DEF Reply
  <2>3. CASE Reset
    BY <2>3, Halves, ResetEmptiesTable DEF ResetEmpties
  <2>4. CASE SwapCard
    BY <2>4 DEF SwapCard, ResetEmpties, InUse
  <2>5. CASE CommandChannel
    BY <2>5 DEF CommandChannel, Reply, ResetEmpties
  <2>6. CASE UNCHANGED vars
    BY <2>6 DEF vars, ResetEmpties, InUse
  <2> QED
    BY <2>1, <2>2, <2>3, <2>4, <2>5, <2>6 DEF Next, ResetEmpties
<1> QED
  BY <1>1, <1>2, CountInvariant, PTL DEF Spec

(* open_files counts the slots, and so a reset reaches all of them, whatever   *)
(* the host and the card have done before (drv_reset()).                    *)
THEOREM CountIsReliedOn == Spec => []ResetReachesAll
BY CountInvariant, ResetFreesEverySlot, PTL DEF ResetReachesAll

-----------------------------------------------------------------------------
(* The refinement, and that no data is lost, if besides the card does not     *)
(* fail and is not swapped.                                                *)

Reliable == Habits \subseteq {"catalog", "overflow", "stray"}

(* A bound file object has a slot that is not a catalog's, and only a bound   *)
(* one holds data.                                                         *)
FilesOk == \A s \in Slot : /\ fp[s].open => used[s] /\ ~catalog[s]
                           /\ fp[s].dirty => fp[s].open

LEMMA ReliableIsTidy == Reliable => Tidy /\ {"ioError", "swap"} \cap Habits = {}
BY DEF Reliable, Tidy, CatalogsFail

LEMMA OnlySlot ==
  ASSUME TableOk, Agrees, NEW l, Holding(l) # {}
  PROVE  Holding(l) = {First(Holding(l))}
BY FirstHolding DEF Agrees, OneSlotPerLun, Holding, InUse

LEMMA CloseFilesEffect ==
  ASSUME OthersOk, NEW S \in SUBSET Slot, CloseFiles(S), FilesOk
  PROVE  \A s \in Slot : IF s \in S THEN ~fp'[s].open /\ ~fp'[s].dirty
                                   ELSE fp'[s] = fp[s]
BY DEF CloseFiles, Bound, Closed, FilesOk, OthersOk, FileType

LEMMA OpenFilesOk ==
  ASSUME Reliable, TableOk, OthersOk, Agrees, FilesOk, NEW l \in Lun, Open(l)
  PROVE  FilesOk'
<1>t. HostOpens(l) => l \notin host
  BY DEF Reliable, HostOpens
<1>1. CASE OpenNoCard(l) \/ OpenNoSlot(l) \/ OpenCatalogNoSlot(l)
  BY <1>1 DEF OpenNoCard, OpenNoSlot, OpenCatalogNoSlot, table, FilesOk
<1>2. CASE OpenFails(l)
  <2> DEFINE s == First(Free)
  <2>1. s \in Slot /\ ~used[s] /\ Holding(l) = {}
    BY <1>2, <1>t, FirstFree, NoSlotUnlessOpen DEF OpenFails, Free
  <2>2. used' = used /\ \A t \in Slot \ {s} : catalog'[t] = catalog[t] /\ fp'[t] = fp[t]
    BY <1>2, <2>1 DEF OpenFails, TableOk, OthersOk
  <2>3. ~fp'[s].open /\ ~fp'[s].dirty
    BY <1>2, <2>1 DEF OpenFails, OthersOk, Closed
  <2> QED
    BY <2>2, <2>3 DEF FilesOk
<1>3. CASE \E mode \in {"read", "update", "create"} : OpenFile(l, mode)
  <2> DEFINE s == First(Free)
  <2>1. s \in Slot
    BY <1>3, FirstFree DEF OpenFile
  <2>2. used'[s] /\ ~catalog'[s] /\ fp'[s].open
    BY <1>3, <2>1 DEF OpenFile, Reserve, TableOk, OthersOk
  <2>3. \A t \in Slot \ {s} : used'[t] = used[t] /\ catalog'[t] = catalog[t] /\ fp'[t] = fp[t]
    BY <1>3, <2>1 DEF OpenFile, Reserve, TableOk, OthersOk
  <2> QED
    BY <2>2, <2>3 DEF FilesOk
<1>4. CASE OpenCatalog(l)
  <2> DEFINE s == First(Free)
  <2>1. s \in Slot /\ ~used[s]
    BY <1>4, FirstFree DEF OpenCatalog, Free
  <2>2. /\ \A t \in Slot \ {s} : used'[t] = used[t] /\ catalog'[t] = catalog[t]
        /\ fp' = fp
    BY <1>4, <2>1 DEF OpenCatalog, Reserve, TableOk
  <2> QED
    BY <2>1, <2>2 DEF FilesOk
<1>5. CASE OpenCatalogFails(l) \/ OpenCommand(l)
  BY <1>5 DEF OpenCatalogFails, OpenCommand, CatalogsFail, Reliable
<1> QED
  BY <1>1, <1>2, <1>3, <1>4, <1>5 DEF Open

LEMMA UseFilesOk ==
  ASSUME Reliable, TableOk, OthersOk, Agrees, FilesOk, NEW l \in Lun, Use(l)
  PROVE  FilesOk'
<1>0. /\ "ioError" \notin Habits
      /\ l # cmd_lun
  BY DriveAssumption DEF Reliable, Agrees
<1> DEFINE s == First(Holding(l))
<1>1. Holding(l) # {} => s \in Slot /\ Holding(l) = {s} /\ {s} \in SUBSET Slot
  BY FirstHolding, OnlySlot
<1>f. FreeAll(Holding(l)) /\ Holding(l) = {s} /\ s \in Slot
        => /\ \A t \in Slot \ {s} : used'[t] = used[t] /\ catalog'[t] = catalog[t]
           /\ ~used'[s] /\ catalog'[s] = catalog[s]
  BY DEF FreeAll, TableOk
<1>2. CASE Close(l)
  <2>1. CASE catalog[s]
    BY <1>1, <1>f, <1>2, <2>1 DEF Close, FilesOk
  <2>2. CASE ~catalog[s]
    <3>1. CloseFiles({s})
      BY <1>0, <1>2, <2>2 DEF Close
    <3>2. \A t \in Slot : IF t \in {s} THEN ~fp'[t].open /\ ~fp'[t].dirty ELSE fp'[t] = fp[t]
      BY <1>1, <1>2, <3>1, CloseFilesEffect DEF Close
    <3> QED
      BY <1>1, <1>f, <1>2, <3>2 DEF Close, FilesOk
  <2> QED
    BY <2>1, <2>2
<1>3. CASE DeleteOpen(l)
  <2>1. CloseFiles({s})
    BY <1>0, <1>3 DEF DeleteOpen
  <2>2. \A t \in Slot : IF t \in {s} THEN ~fp'[t].open /\ ~fp'[t].dirty ELSE fp'[t] = fp[t]
    BY <1>1, <1>3, <2>1, CloseFilesEffect DEF DeleteOpen
  <2> QED
    BY <1>1, <1>f, <1>3, <2>2 DEF DeleteOpen, FilesOk
<1>4. CASE Write(l)
  <2>1. used' = used /\ catalog' = catalog
    BY <1>4 DEF Write, table
  <2>2. CASE fp' = fp
    BY <2>1, <2>2 DEF FilesOk
  <2>3. CASE fp' # fp
    <3>1. fp[s].open /\ fp' = [fp EXCEPT ![s] = Written(fp[s])] /\ s \in Slot
      BY <1>1, <1>4, <2>3 DEF Write
    <3>2. fp'[s].open /\ \A t \in Slot \ {s} : fp'[t] = fp[t]
      BY <3>1 DEF Written, OthersOk
    <3> QED
      BY <2>1, <3>1, <3>2 DEF FilesOk
  <2> QED
    BY <2>2, <2>3
<1>5. CASE CloseNone(l) \/ WriteNone(l) \/ DeleteNone(l) \/ OnlyMounts(l)
  BY <1>5 DEF CloseNone, WriteNone, DeleteNone, OnlyMounts, table, FilesOk
<1>6. CASE CloseCommand(l) \/ WriteCommand(l)
  BY <1>0, <1>6 DEF CloseCommand, WriteCommand
<1> QED
  BY <1>2, <1>3, <1>4, <1>5, <1>6 DEF Use

(* Each LUN has one slot, and a reset closes it.                              *)
LEMMA EachIsFirst ==
  ASSUME Agrees
  PROVE  FirstOfEach = InUse
<1>1. \A s \in InUse : Holding(lun[s]) = {s}
  BY DEF Agrees, OneSlotPerLun, Holding, InUse
<1>2. \A s \in InUse : First(Holding(lun[s])) = s
  BY <1>1, FirstHolding
<1> QED
  BY <1>2 DEF FirstOfEach

(* A reset leaves no file open that it can close.                            *)
LEMMA ResetFilesOk ==
  ASSUME Reliable, TableOk, OthersOk, Agrees, FilesOk, Reset
  PROVE  /\ InUse' = {}
         /\ \A s \in Slot : ~fp'[s].open /\ ~fp'[s].dirty
<1>1. InUse' = {} /\ InUse \in SUBSET Slot
  BY ResetEmptiesTable DEF InUse
<1>2. fs_initialized' = TRUE
  BY DEF Reset, Start, Reliable
<1>3. CASE open_files > 0
  <2>1. CloseFiles(InUse)
    <3>1. FirstOfEach = InUse
      BY EachIsFirst
    <3>2. PICK S \in SUBSET FirstOfEach :
            (S = FirstOfEach \/ "ioError" \in Habits) /\ CloseFiles(S)
      BY <1>2, <1>3 DEF Reset
    <3>3. S = FirstOfEach
      BY <3>2 DEF Reliable
    <3> QED BY <3>1, <3>2, <3>3
  <2>2. \A s \in Slot : IF s \in InUse THEN ~fp'[s].open /\ ~fp'[s].dirty ELSE fp'[s] = fp[s]
    BY <1>1, <2>1, CloseFilesEffect
  <2> QED
    BY <1>1, <2>2 DEF InUse, FilesOk
<1>4. CASE ~(open_files > 0)
  BY <1>1, <1>4 DEF Reset, table, InUse, FilesOk
<1> QED
  BY <1>3, <1>4

(* With a tidy host and a card that works and stays, unsaved data is always   *)
(* in a file that CLOSE and reset still find: every f_close() happens before  *)
(* free_lun() gives the slot away.                                         *)
THEOREM NothingUnsaved ==
  ASSUME Reliable
  PROVE  Spec => [](Agrees /\ FilesOk /\ Synced)
<1>1. Init => Agrees /\ FilesOk
  BY DEF Init, Agrees, HostAgrees, OneSlotPerLun, InUse, FilesOk
<1>2. Agrees /\ FilesOk /\ TypeOk /\ CountOk /\ [Next]_vars => (Agrees /\ FilesOk)'
  <2> SUFFICES ASSUME Agrees, FilesOk, TypeOk, CountOk, [Next]_vars
               PROVE  Agrees' /\ FilesOk'
    OBVIOUS
  <2> TableOk /\ OthersOk /\ Tidy
    BY Halves, ReliableIsTidy
  <2>1. CASE \E l \in Lun : Open(l) \/ Use(l)
    BY <2>1, OpenAgrees, UseAgrees, OpenFilesOk, UseFilesOk
  <2>2. CASE Reset
    BY <2>2, ResetFilesOk, EmptyAgrees DEF Reset, Agrees, FilesOk
  <2>3. CASE SwapCard
    BY <2>3 DEF SwapCard, Reliable
  <2>4. CASE CommandChannel
    BY <2>4 DEF CommandChannel, table, Agrees, OneSlotPerLun, HostAgrees, InUse, FilesOk
  <2>5. CASE UNCHANGED vars
    BY <2>5, AgreesWhenSame DEF vars, FilesOk
  <2> QED
    BY <2>1, <2>2, <2>3, <2>4, <2>5 DEF Next
<1>3. FilesOk => Synced
  BY DEF FilesOk, Synced
<1> QED
  BY <1>1, <1>2, <1>3, CountInvariant, PTL DEF Spec

-----------------------------------------------------------------------------
(* The host's side of NothingLost: a WRITE that says SUCCESS finds a slot and  *)
(* a file that can be written.                                              *)

Honest == Habits \subseteq {"catalog", "overflow"}

(* What the host has open has a slot: the converse of HostAgrees.            *)
Known == \A l \in host : \E s \in InUse : lun[s] = l

LEMMA KnownAfterReserve ==
  ASSUME TableOk, Known, NEW s \in Free, NEW l \in Lun,
         NEW isCatalog \in BOOLEAN, Reserve(s, l, isCatalog), host' = host \cup {l}
  PROVE  Known'
<1>1. s \in Slot /\ InUse' = InUse \cup {s} /\ s \notin InUse
  BY DEF Free, InUse, TableOk, Reserve
<1>2. lun'[s] = l /\ \A t \in InUse : lun'[t] = lun[t]
  BY <1>1 DEF TableOk, Reserve, InUse
<1> QED
  BY <1>1, <1>2 DEF Known

LEMMA KnownAfterFree ==
  ASSUME TableOk, Known, NEW l, FreeAll(Holding(l)), host' = host \ {l}
  PROVE  Known'
<1>1. InUse' = InUse \ Holding(l) /\ lun' = lun
  BY DEF InUse, TableOk, FreeAll
<1>2. \A s \in Holding(l) : lun[s] = l
  BY DEF Holding
<1> QED
  BY <1>1, <1>2 DEF Known

LEMMA KnownWhenSame ==
  ASSUME Known, UNCHANGED <<used, lun>>, host' \subseteq host
  PROVE  Known'
BY DEF Known, InUse

LEMMA OpenKnown ==
  ASSUME Honest, TableOk, Agrees, Known, NEW l \in Lun, Open(l)
  PROVE  Known'
<1>t. HostOpens(l) => l \notin host
  BY DEF Honest, HostOpens
<1>1. CASE OpenNoCard(l) \/ OpenNoSlot(l) \/ OpenCatalogNoSlot(l)
  BY <1>1, KnownWhenSame DEF OpenNoCard, OpenNoSlot, OpenCatalogNoSlot, table
<1>2. CASE OpenFails(l)
  <2> DEFINE s == First(Free)
  <2>1. s \in Slot /\ ~used[s] /\ Holding(l) = {}
    BY <1>2, <1>t, FirstFree, NoSlotUnlessOpen DEF OpenFails, Free
  <2>2. InUse' = InUse /\ \A t \in InUse : lun'[t] = lun[t]
    BY <1>2, <2>1 DEF OpenFails, InUse, TableOk
  <2> QED
    BY <1>2, <2>2 DEF OpenFails, Known
<1>3. CASE \E mode \in {"read", "update", "create"} : OpenFile(l, mode)
  BY <1>3, FirstFree, KnownAfterReserve DEF OpenFile, Opened
<1>4. CASE OpenCatalog(l)
  BY <1>4, FirstFree, KnownAfterReserve DEF OpenCatalog, Opened
<1>5. CASE OpenCatalogFails(l) \/ OpenCommand(l)
  BY <1>5 DEF OpenCatalogFails, OpenCommand, CatalogsFail, Honest
<1> QED
  BY <1>1, <1>2, <1>3, <1>4, <1>5 DEF Open

LEMMA UseKnown ==
  ASSUME TableOk, Agrees, Known, NEW l \in Lun, Use(l)
  PROVE  Known'
<1>1. l # cmd_lun
  BY DriveAssumption DEF Agrees
<1>2. CASE Close(l) \/ DeleteOpen(l)
  BY <1>2, KnownAfterFree DEF Close, DeleteOpen
<1>3. CASE CloseNone(l) \/ Write(l) \/ WriteNone(l) \/ DeleteNone(l) \/ OnlyMounts(l)
  BY <1>3, KnownWhenSame DEF CloseNone, Write, WriteNone, DeleteNone, OnlyMounts, table
<1>4. CASE CloseCommand(l) \/ WriteCommand(l)
  BY <1>1, <1>4 DEF CloseCommand, WriteCommand
<1> QED
  BY <1>2, <1>3, <1>4 DEF Use

(* A WRITE of what is open and writable is done.                             *)
LEMMA WriteDone ==
  ASSUME Honest, Known, NEW l, Write(l) \/ WriteNone(l)
  PROVE  AckedWrites'
<1>1. CASE Write(l)
  BY <1>1 DEF Write, Honest, Reply, AckedWrites
<1>2. CASE WriteNone(l)
  <2>1. l \in host /\ Holding(l) = {}
    BY <1>2 DEF WriteNone, Honest
  <2> QED
    BY <2>1 DEF Known, Holding, InUse
<1> QED
  BY <1>1, <1>2

(* A host that writes to what it has opened for writing, on a card that works: *)
(* SUCCESS means that the data is in the file object (drv_write()), and what is *)
(* there a CLOSE or a reset still finds (drv_close(), drv_reset()).            *)
THEOREM SuccessMeansWritten ==
  ASSUME Honest
  PROVE  Spec => []NothingLost
<1> Reliable
  BY DEF Honest, Reliable
<1>1. Init => Known /\ AckedWrites
  BY DEF Init, Known, AckedWrites
<1>2. Known /\ AckedWrites /\ Agrees /\ TypeOk /\ CountOk /\ [Next]_vars => (Known /\ AckedWrites)'
  <2> SUFFICES ASSUME Known, AckedWrites, Agrees, TypeOk, CountOk, [Next]_vars
               PROVE  Known' /\ AckedWrites'
    OBVIOUS
  <2> TableOk
    BY Halves
  <2>1. ASSUME NEW l \in Lun, Open(l) PROVE Known' /\ AckedWrites'
    <3>1. \E rc, done : Reply("open", l, rc, done)
      BY <2>1, Zenon DEF Open, OpenNoCard, OpenNoSlot, OpenFile, OpenFails, OpenCatalog,
                         OpenCatalogNoSlot, OpenCatalogFails, OpenCommand
    <3> QED
      BY <2>1, <3>1, OpenKnown DEF Reply, AckedWrites
  <2>2. ASSUME NEW l \in Lun, Use(l) PROVE Known' /\ AckedWrites'
    <3>1. Write(l) \/ WriteNone(l) \/
            \E op \in {"close", "command", "delete", "mount"} : \E rc, done : Reply(op, l, rc, done)
      BY <2>2, Zenon DEF Use, Close, CloseNone, CloseCommand,
                         WriteCommand, DeleteOpen, DeleteNone, OnlyMounts
    <3>2. ASSUME \E op \in {"close", "command", "delete", "mount"} : \E rc, done : Reply(op, l, rc, done)
          PROVE  AckedWrites'
      BY <3>2 DEF Reply, AckedWrites
    <3> QED
      BY <2>2, <3>1, <3>2, UseKnown, WriteDone
  <2>3. CASE Reset
    BY <2>3 DEF Reset, Reply, Known, AckedWrites
  <2>4. CASE SwapCard
    BY <2>4 DEF SwapCard, Honest
  <2>5. CASE CommandChannel
    BY <2>5, KnownWhenSame DEF CommandChannel, table, Reply, AckedWrites
  <2>6. CASE UNCHANGED vars
    BY <2>6, KnownWhenSame DEF vars, AckedWrites, table, ghost
  <2> QED
    BY <2>1, <2>2, <2>3, <2>4, <2>5, <2>6 DEF Next
<1>3. Spec => [](Agrees /\ FilesOk /\ Synced)
  BY NothingUnsaved
<1> QED
  BY <1>1, <1>2, <1>3, CountInvariant, PTL DEF Spec, NothingLost

-----------------------------------------------------------------------------
(* The step simulation: which action of LunTable each operation is.         *)

Dirty == {s \in Slot : fp[s].dirty}

(* A free slot means fewer open LUNs than slots.                            *)
LEMMA RoomLeft ==
  ASSUME TableOk, NEW s \in Free
  PROVE  Cardinality({lun[t] : t \in InUse}) < MaxOpen
<1> DEFINE T == {lun[t] : t \in InUse}
           f == [t \in InUse |-> lun[t]]
<1>1. InUse \in SUBSET Slot /\ s \in Slot /\ s \notin InUse
  BY DEF InUse, Free
<1>2. f \in Surjection(InUse, T)
  BY DEF Surjection
<1>3. IsFiniteSet(InUse) /\ Cardinality(InUse) \in 0 .. MaxOpen
  BY <1>1, SubsetOfSlots
<1>4. IsFiniteSet(T) /\ Cardinality(T) <= Cardinality(InUse)
  BY <1>2, <1>3, FS_Surjection
<1>5. Cardinality(InUse) # MaxOpen
  <2> SUFFICES ASSUME Cardinality(InUse) = MaxOpen
               PROVE  FALSE
    OBVIOUS
  <2>1. InUse = Slot
    BY <1>1, SlotFinite, FS_Subset
  <2> QED
    BY <1>1, <2>1
<1>6. Cardinality(T) \in Nat
  BY <1>4, FS_CardinalityType
<1> QED
  BY <1>3, <1>4, <1>5, <1>6, DriveAssumption

LEMMA OpenSimulates ==
  ASSUME Reliable, TableOk, OthersOk, Agrees, FilesOk, NEW l \in Lun, Open(l)
  PROVE  Files!Open(l) \/ UNCHANGED Files!vars
<1> DEFINE s == First(Free)
           opened == {lun[t] : t \in InUse}
           unsaved == {lun[t] : t \in Dirty}
<1> USE DEF Dirty
<1>t. HostOpens(l) => l \notin host /\ l \notin opened
  BY DEF Reliable, HostOpens, Agrees, HostAgrees
<1>d. Dirty \subseteq InUse /\ InUse \subseteq Slot
  BY DEF FilesOk, InUse
<1>f. Free # {} => s \in Free /\ s \in Slot /\ s \notin InUse /\ s \notin Dirty
  BY <1>d, FirstFree DEF Free, InUse
<1>1. CASE OpenNoCard(l) \/ OpenNoSlot(l) \/ OpenCatalogNoSlot(l)
  BY <1>1 DEF OpenNoCard, OpenNoSlot, OpenCatalogNoSlot, table, Files!vars, InUse
<1>2. CASE OpenFails(l)
  <2>1. Free # {} /\ Holding(l) = {}
    BY <1>2, <1>t, NoSlotUnlessOpen DEF OpenFails
  <2>2. InUse' = InUse /\ \A t \in InUse : lun'[t] = lun[t]
    BY <1>2, <2>1, <1>f DEF OpenFails, InUse, TableOk
  <2>3. Dirty' = Dirty
    <3>1. \A t \in Slot \ {s} : fp'[t] = fp[t]
      BY <1>2 DEF OpenFails, OthersOk
    <3>2. ~fp'[s].dirty
      BY <1>2, <2>1, <1>f DEF OpenFails, OthersOk, Closed
    <3> QED
      BY <2>1, <1>f, <3>1, <3>2
  <2>4. opened' = opened
    BY <2>2
  <2>5. unsaved' = unsaved
    BY <1>d, <2>2, <2>3
  <2> QED
    BY <2>4, <2>5 DEF Files!vars
<1>3. CASE (\E mode \in {"read", "update", "create"} : OpenFile(l, mode)) \/ OpenCatalog(l)
  <2>1. Free # {} /\ l \notin opened
    BY <1>3, <1>t DEF OpenFile, OpenCatalog
  <2>2. used' = [used EXCEPT ![s] = TRUE] /\ lun' = [lun EXCEPT ![s] = l]
    BY <1>3 DEF OpenFile, OpenCatalog, Reserve
  <2>3. InUse' = InUse \cup {s} /\ lun'[s] = l /\ \A t \in InUse : lun'[t] = lun[t]
    BY <2>1, <2>2, <1>f DEF InUse, TableOk
  <2>4. \A t \in Slot \ {s} : fp'[t] = fp[t]
    BY <1>3 DEF OpenFile, OpenCatalog, OthersOk
  <2>5. Dirty' = Dirty \/ Dirty' = Dirty \cup {s}
    BY <2>1, <2>4, <1>f
  <2>6. opened' = opened \cup {l}
    BY <2>3
  <2>7. unsaved' \in {unsaved, unsaved \cup {l}}
    BY <1>d, <2>3, <2>5
  <2>8. Cardinality(opened) < MaxOpen
    BY <2>1, <1>f, RoomLeft
  <2>9. Files!Cardinality(opened) = Cardinality(opened)
    BY DEF Cardinality, Files!Cardinality
  <2> QED
    BY <2>1, <2>6, <2>7, <2>8, <2>9 DEF Files!Open
<1>4. CASE OpenCatalogFails(l) \/ OpenCommand(l)
  BY <1>4 DEF OpenCatalogFails, OpenCommand, CatalogsFail, Reliable
<1> QED
  BY <1>1, <1>2, <1>3, <1>4 DEF Open

(* Freeing the only slot of l, whose file is no longer dirty, is Close(l).   *)
LEMMA FreeSimulates ==
  ASSUME TableOk, Agrees, FilesOk, NEW l \in Lun, Holding(l) # {}, FreeAll(Holding(l)),
         Dirty' = Dirty \ Holding(l)
  PROVE  Files!Close(l)
<1> DEFINE opened == {lun[t] : t \in InUse}
           unsaved == {lun[t] : t \in Dirty}
<1>1. InUse' = InUse \ Holding(l) /\ lun' = lun
  BY DEF FreeAll, InUse, TableOk
<1>2. l \in opened /\ \A t \in InUse : lun[t] = l <=> t \in Holding(l)
  BY DEF Holding, InUse
<1>3. Dirty \subseteq InUse
  BY DEF Dirty, FilesOk, InUse
<1>4. opened' = opened \ {l}
  BY <1>1, <1>2
<1>5. unsaved' = unsaved \ {l}
  BY <1>1, <1>2, <1>3
<1> QED
  BY <1>2, <1>4, <1>5 DEF Files!Close, Dirty

LEMMA UseSimulates ==
  ASSUME Reliable, TableOk, OthersOk, Agrees, FilesOk, NEW l \in Lun, Use(l)
  PROVE  Files!Write(l) \/ Files!Close(l) \/ UNCHANGED Files!vars
<1> DEFINE s == First(Holding(l))
<1>0. "ioError" \notin Habits /\ l # cmd_lun
  BY DriveAssumption DEF Reliable, Agrees
<1>1. Holding(l) # {} => s \in Slot /\ Holding(l) = {s} /\ {s} \in SUBSET Slot
  BY FirstHolding, OnlySlot
<1>c. CloseFiles({s}) /\ Holding(l) # {} => Dirty' = Dirty \ Holding(l)
  <2> SUFFICES ASSUME CloseFiles({s}), Holding(l) # {}
               PROVE  Dirty' = Dirty \ Holding(l)
    OBVIOUS
  <2>1. \A t \in Slot : IF t \in {s} THEN ~fp'[t].open /\ ~fp'[t].dirty ELSE fp'[t] = fp[t]
    BY <1>1, CloseFilesEffect
  <2> QED
    BY <1>1, <2>1 DEF Dirty
<1>2. CASE Close(l)
  <2>1. Dirty' = Dirty \ Holding(l)
    <3>1. CASE catalog[s]
      BY <1>1, <1>2, <3>1 DEF Close, FilesOk, Dirty
    <3>2. CASE ~catalog[s]
      BY <1>0, <1>2, <1>c, <3>2 DEF Close
    <3> QED
      BY <3>1, <3>2
  <2> QED
    BY <1>2, <2>1, FreeSimulates DEF Close
<1>3. CASE DeleteOpen(l)
  <2>1. Dirty' = Dirty \ Holding(l)
    BY <1>0, <1>3, <1>c DEF DeleteOpen
  <2> QED
    BY <1>3, <2>1, FreeSimulates DEF DeleteOpen
<1>4. CASE Write(l)
  <2> DEFINE opened == {lun[t] : t \in InUse}
             unsaved == {lun[t] : t \in Dirty}
  <2>1. used' = used /\ lun' = lun /\ InUse' = InUse
    BY <1>4 DEF Write, table, InUse
  <2>2. opened' = opened
    BY <2>1
  <2>3. s \in Slot /\ lun[s] = l /\ l \in opened
    BY <1>1, <1>4 DEF Write, Holding, InUse
  <2>4. CASE fp' = fp
    BY <2>1, <2>2, <2>4 DEF Files!vars
  <2>5. CASE fp' # fp
    <3>1. fp' = [fp EXCEPT ![s] = Written(fp[s])]
      BY <1>4, <2>5 DEF Write
    <3>2. fp'[s].dirty /\ \A t \in Slot \ {s} : fp'[t] = fp[t]
      BY <2>3, <3>1 DEF Written, OthersOk
    <3>3. Dirty' = Dirty \cup {s}
      BY <2>3, <3>2 DEF Dirty
    <3>4. unsaved' = unsaved \cup {l}
      BY <2>1, <2>3, <3>3
    <3> QED
      BY <2>2, <2>3, <3>4 DEF Files!Write, Dirty
  <2> QED
    BY <2>4, <2>5
<1>5. CASE CloseNone(l) \/ WriteNone(l) \/ DeleteNone(l) \/ OnlyMounts(l)
  BY <1>5 DEF CloseNone, WriteNone, DeleteNone, OnlyMounts, table, Files!vars, InUse
<1>6. CASE CloseCommand(l) \/ WriteCommand(l)
  BY <1>0, <1>6 DEF CloseCommand, WriteCommand
<1> QED
  BY <1>2, <1>3, <1>4, <1>5, <1>6 DEF Use

(* The drive's slots and file objects behave as a set of open LUNs, of which  *)
(* some hold unsaved data, for any number of slots and LUNs.                *)
THEOREM SlotsImplementLunTable ==
  ASSUME Reliable
  PROVE  Spec => LunsAreFiles
<1>1. Init => Files!Init
  BY DEF Init, Files!Init, InUse
<1>2. Agrees /\ FilesOk /\ TypeOk /\ CountOk /\ [Next]_vars => [Files!Next]_(Files!vars)
  <2> SUFFICES ASSUME Agrees, FilesOk, TypeOk, CountOk, [Next]_vars
               PROVE  Files!Next \/ UNCHANGED Files!vars
    OBVIOUS
  <2> TableOk /\ OthersOk
    BY Halves
  <2>1. CASE \E l \in Lun : Open(l) \/ Use(l)
    BY <2>1, OpenSimulates, UseSimulates DEF Files!Next
  <2>2. CASE Reset
    BY <2>2, ResetFilesOk DEF Files!Next, Files!Reset
  <2>3. CASE SwapCard
    BY <2>3 DEF SwapCard, Reliable
  <2>4. CASE CommandChannel
    BY <2>4 DEF CommandChannel, table, Files!vars, InUse
  <2>5. CASE UNCHANGED vars
    BY <2>5 DEF vars, Files!vars, InUse
  <2> QED
    BY <2>1, <2>2, <2>3, <2>4, <2>5 DEF Next
<1> QED
  BY <1>1, <1>2, NothingUnsaved, CountInvariant, PTL
     DEF Spec, LunsAreFiles, Files!Spec

-----------------------------------------------------------------------------
(* Files and cards.  A directory that is read leaves the file object of its    *)
(* slot as it was, and DELETE and reset close that; so a card may be changed    *)
(* only while the host reads no directories.                                 *)

OneAtATime == "swap" \in Habits => {"catalog", "badCatalog"} \cap Habits = {}

(* A file object in use was bound on this card; all were if cards are not changed. *)
OwnCard == \A s \in Slot : used[s] \/ "swap" \notin Habits => fp[s].card = card

(* f_close() then writes nothing to another card, and keeps the object's card.  *)
LEMMA CloseOwn ==
  ASSUME OthersOk, OwnCard, NEW S \in SUBSET Slot, CloseFiles(S),
         S \in SUBSET InUse
  PROVE  /\ clobbered' = clobbered
         /\ \A s \in Slot : fp'[s].card = fp[s].card
<1>1. \A s \in S : fp[s].card = card
  BY DEF OwnCard, InUse
<1>2. clobbered' = clobbered
  BY <1>1 DEF CloseFiles, Bound, OthersOk
<1>3. \A s \in Slot : fp'[s].card = fp[s].card
  BY DEF CloseFiles, Closed
<1> QED
  BY <1>2, <1>3

(* No slot comes into use, and no object changes its card.                   *)
LEMMA OwnCardKept ==
  ASSUME OwnCard, card' = card, \A s \in Slot : used'[s] => used[s],
         \A s \in Slot : fp'[s].card = fp[s].card
  PROVE  OwnCard'
BY DEF OwnCard

LEMMA OpenOwn ==
  ASSUME OneAtATime, TableOk, OthersOk, OwnCard, NEW l \in Lun, Open(l)
  PROVE  OwnCard' /\ clobbered' = clobbered
<1> DEFINE s == First(Free)
<1>1. CASE OpenNoCard(l) \/ OpenNoSlot(l) \/ OpenCatalogNoSlot(l) \/ OpenCommand(l)
  BY <1>1 DEF OpenNoCard, OpenNoSlot, OpenCatalogNoSlot, OpenCommand, table, OwnCard
<1>2. CASE OpenFails(l)
  <2>1. s \in Slot
    BY <1>2, FirstFree DEF OpenFails
  <2>2. \A t \in Slot : fp'[t].card = fp[t].card
    BY <1>2, <2>1 DEF OpenFails, OthersOk, Closed
  <2>3. \A t \in Slot : used'[t] => used[t]
    BY <1>2 DEF OpenFails
  <2> QED
    BY <1>2, <2>2, <2>3, OwnCardKept DEF OpenFails
<1>3. CASE \E mode \in {"read", "update", "create"} : OpenFile(l, mode)
  <2>1. s \in Slot
    BY <1>3, FirstFree DEF OpenFile
  <2>2. fp'[s].card = card /\ \A t \in Slot \ {s} : used'[t] = used[t] /\ fp'[t] = fp[t]
    BY <1>3, <2>1 DEF OpenFile, Reserve, TableOk, OthersOk
  <2> QED
    BY <1>3, <2>2 DEF OpenFile, OwnCard
<1>4. CASE OpenCatalog(l) \/ OpenCatalogFails(l)
  <2>1. "swap" \notin Habits
    BY <1>4 DEF OpenCatalog, OpenCatalogFails, CatalogsFail, OneAtATime
  <2> QED
    BY <1>4, <2>1 DEF OpenCatalog, OpenCatalogFails, OwnCard
<1> QED
  BY <1>1, <1>2, <1>3, <1>4 DEF Open

LEMMA UseOwn ==
  ASSUME TableOk, OthersOk, OwnCard, NEW l \in Lun, Use(l)
  PROVE  OwnCard' /\ clobbered' = clobbered
<1> DEFINE s == First(Holding(l))
<1>1. Holding(l) # {} => s \in Slot /\ {s} \in SUBSET Slot /\ {s} \in SUBSET InUse /\ used[s]
  BY FirstHolding, HoldingInUse DEF Holding, InUse
<1>2. CASE Close(l) \/ DeleteOpen(l)
  <2>1. Holding(l) # {} /\ card' = card /\ FreeAll(Holding(l))
    BY <1>2 DEF Close, DeleteOpen
  <2>2. CloseFiles({s}) \/ (fp' = fp /\ clobbered' = clobbered)
    BY <1>2 DEF Close, DeleteOpen
  <2>3. clobbered' = clobbered /\ \A t \in Slot : fp'[t].card = fp[t].card
    BY <1>1, <2>1, <2>2, CloseOwn
  <2>4. \A t \in Slot : used'[t] => used[t]
    BY <2>1 DEF FreeAll
  <2> QED
    BY <2>1, <2>3, <2>4, OwnCardKept
<1>3. CASE Write(l)
  <2>1. Holding(l) # {} /\ card' = card /\ used' = used
    BY <1>3 DEF Write, table
  <2>2. CASE fp' = fp /\ clobbered' = clobbered
    BY <2>1, <2>2 DEF OwnCard
  <2>3. CASE fp' = [fp EXCEPT ![s] = Written(fp[s])] /\ clobbered' = (clobbered \/ fp[s].card # card)
    <3>1. fp[s].card = card
      BY <1>1, <2>1 DEF OwnCard
    <3>2. \A t \in Slot : fp'[t].card = fp[t].card
      BY <1>1, <2>1, <2>3 DEF Written, OthersOk
    <3> QED
      BY <2>1, <2>3, <3>1, <3>2, OwnCardKept DEF OthersOk
  <2> QED
    BY <1>3, <2>2, <2>3 DEF Write
<1>4. CASE CloseNone(l) \/ WriteNone(l) \/ DeleteNone(l) \/ OnlyMounts(l) \/ CloseCommand(l) \/ WriteCommand(l)
  BY <1>4 DEF CloseNone, WriteNone, DeleteNone, OnlyMounts, CloseCommand, WriteCommand, table, OwnCard
<1> QED
  BY <1>2, <1>3, <1>4 DEF Use

LEMMA ResetOwn ==
  ASSUME TableOk, OthersOk, OwnCard, Reset
  PROVE  OwnCard' /\ clobbered' = clobbered
<1>1. card' = card /\ \A s \in Slot : used'[s] => used[s]
  BY DEF Reset, FreeAll, table
<1>2. (\E S \in SUBSET InUse : CloseFiles(S)) \/ (fp' = fp /\ clobbered' = clobbered)
  BY FirstsInUse DEF Reset
<1>3. clobbered' = clobbered /\ \A s \in Slot : fp'[s].card = fp[s].card
  BY <1>2, FirstsInUse, CloseOwn
<1> QED
  BY <1>1, <1>3, OwnCardKept

(* A file is written only to the card it was opened on, whatever fails and       *)
(* however the host opens and closes: drv_init() empties the table, and no slot   *)
(* comes into use without a new file object (drv_init(), drv_open(), f_close()). *)
THEOREM FilesStayOnTheirCard ==
  ASSUME OneAtATime
  PROVE  Spec => []NoClobber
<1>1. Init => OwnCard /\ NoClobber
  BY DEF Init, OwnCard, NoClobber
<1>2. OwnCard /\ NoClobber /\ TypeOk /\ CountOk /\ [Next]_vars => (OwnCard /\ NoClobber)'
  <2> SUFFICES ASSUME OwnCard, NoClobber, TypeOk, CountOk, [Next]_vars
               PROVE  OwnCard' /\ clobbered' = clobbered
    BY DEF NoClobber
  <2> TableOk /\ OthersOk
    BY Halves
  <2>1. CASE \E l \in Lun : Open(l) \/ Use(l)
    BY <2>1, OpenOwn, UseOwn
  <2>2. CASE Reset
    BY <2>2, ResetOwn
  <2>3. CASE SwapCard
    BY <2>3 DEF SwapCard, ghost, OwnCard
  <2>4. CASE CommandChannel
    BY <2>4 DEF CommandChannel, table, OwnCard
  <2>5. CASE UNCHANGED vars
    BY <2>5 DEF vars, OwnCard
  <2> QED
    BY <2>1, <2>2, <2>3, <2>4, <2>5 DEF Next
<1> QED
  BY <1>1, <1>2, CountInvariant, PTL DEF Spec
=============================================================================
