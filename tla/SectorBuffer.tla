---------------------------- MODULE SectorBuffer ----------------------------
(***************************************************************************)
(* The one sector of the card that FatFS holds in memory (static_buf of      *)
(* ff.cpp, _USE_1_BUF) and the file allocation table that is read and        *)
(* changed through it.  Every operator takes the state v of a call and       *)
(* returns the next one:                                                    *)
(*   v.disk            what each sector of the card holds                   *)
(*   v.sect, v.dirty   which sector the buffer holds, and is it changed?     *)
(*   v.data            what the buffer holds                                *)
(*   v.n, v.bad        disk operations done so far, those that shall fail    *)
(*   v.last            fs->last_clust                                       *)
(*   v.val             a cluster number that is returned                     *)
(*   v.res             "OK", or why the call failed; a failed call does       *)
(*                     nothing more                                         *)
(* A sector is a function from 0 .. Width - 1 to cells, and v.disk a function   *)
(* from sectors; the field k of a cell tells what it is, be it a link of the   *)
(* FAT, an entry of a directory or a unit of a file's data.                   *)
(***************************************************************************)
EXTENDS Integers, FiniteSets

CONSTANTS
  Width,      \* what fits in a sector; 512 bytes in the code
  csize,      \* sectors per cluster
  max_clust,  \* last cluster number + 1
  n_fats,     \* copies of the FAT
  n_rootdir   \* entries of the root directory

ASSUME GeometryAssumption ==
  /\ Width \in Nat \ {0} /\ csize \in Nat \ {0}
  /\ max_clust \in Nat /\ max_clust > 2
  /\ n_fats \in 1 .. 2 /\ n_rootdir \in Nat

(* The layout: partition table, boot record, FAT, its copy, root, data.     *)
Cluster   == 2 .. max_clust - 1
MbrSect   == 0
BootSect  == 1
fatbase   == 2
sects_fat == (max_clust - 1) \div Width + 1
dirbase   == fatbase + n_fats * sects_fat
database  == dirbase + n_rootdir \div Width
EndSect   == database + (max_clust - 2) * csize
Sector    == 0 .. EndSect - 1
EOC       == max_clust           \* any link that is no cluster: 0x0FFFFFFF

FatSector(c)  == fatbase + c \div Width
ClustSect(c)  == database + (c - 2) * csize     \* clust2sect() of a cluster

Whole(cell) == [i \in 0 .. Width - 1 |-> cell]     \* a sector full of it
LinkTo(c) == [k |-> "link", to |-> c]
Junk == [k |-> "junk"]      \* what a read that fails leaves in the buffer

Fail(v, why) == [v EXCEPT !.res = why]
Then(v, F(_)) == IF v.res = "OK" THEN F(v) ELSE v     \* if (res != FR_OK) return res;
With(v, F(_)) == F(v)                                \* whatever it returned

-----------------------------------------------------------------------------
(* disk_read() and disk_write() of one sector.  A sector that is not there    *)
(* is an error too.                                                         *)
Fails(v, s) == v.n + 1 \in v.bad \/ s \notin Sector
DiskWrite(v, s, x) ==
  IF Fails(v, s) THEN [v EXCEPT !.n = @ + 1, !.res = "RW_ERROR"]
  ELSE [v EXCEPT !.n = @ + 1, !.disk[s] = x]
(* Into the buffer: a read that fails half-way has overwritten it, and the    *)
(* label stays.                                                             *)
DiskRead(v, s) ==
  IF Fails(v, s)
    THEN [v EXCEPT !.n = @ + 1, !.data = Whole(Junk), !.res = "RW_ERROR"]
    ELSE [v EXCEPT !.n = @ + 1, !.data = v.disk[s]]

(* The first half of move_window(): write the buffer back, and its copy if it *)
(* is below the end of the first FAT.  Nobody looks whether the copy          *)
(* succeeds.                                                               *)
CopyFat(v) ==
  IF n_fats = 2 /\ v.sect < fatbase + sects_fat
  THEN [DiskWrite(v, v.sect + sects_fat, v.data) EXCEPT !.res = "OK"] ELSE v
WriteBack(v) ==
  IF v.res # "OK" \/ ~v.dirty THEN v
  ELSE Then(DiskWrite(v, v.sect, v.data), LAMBDA w : CopyFat([w EXCEPT !.dirty = FALSE]))

(* move_window() to another sector, and to sector 0, which only writes back.  *)
Load(v, s) ==
  IF v.res # "OK" THEN v ELSE Then(DiskRead(v, s), LAMBDA r : [r EXCEPT !.sect = s])
MoveWindow_Drops(v, s) == IF v.sect = s THEN v ELSE Load([v EXCEPT !.dirty = FALSE], s)
MoveWindow(v, s) == IF v.sect = s THEN v ELSE Load(WriteBack(v), s)
Flush(v) == IF v.sect = 0 THEN v ELSE WriteBack(v)

(* FSBUF.data[i] = x; FSBUF.dirty = TRUE.                                    *)
Store(v, i, x) == IF v.res # "OK" THEN v ELSE [v EXCEPT !.data[i] = x, !.dirty = TRUE]

(* sync(): the buffer is written whether it was changed or not.              *)
Sync(v) == IF v.res # "OK" THEN v ELSE Flush([v EXCEPT !.dirty = TRUE])

(* What the card will hold when the buffer has been written back.           *)
View(v) == IF v.dirty THEN [v.disk EXCEPT ![v.sect] = v.data] ELSE v.disk

-----------------------------------------------------------------------------
Target(cell) == IF cell.k = "link" THEN cell.to ELSE 1

(* get_cluster(): the link of a cluster; 1 if there is none or the card       *)
(* fails, which the caller cannot tell apart.                               *)
GetCluster(v, c) ==
  IF v.res # "OK" THEN v
  ELSE IF c \notin Cluster THEN [v EXCEPT !.val = 1]
  ELSE With(MoveWindow(v, FatSector(c)), LAMBDA w :
         [w EXCEPT !.val = IF w.res = "OK" THEN Target(w.data[c % Width]) ELSE 1, !.res = "OK"])

PutCluster(v, c, x) == Store(MoveWindow(v, FatSector(c)), c % Width, LinkTo(x))

-----------------------------------------------------------------------------
(* Reading the FAT without moving the window.                               *)
Fat(disk, c) == Target(disk[FatSector(c)][c % Width])

=============================================================================
