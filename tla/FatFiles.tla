------------------------------ MODULE FatFiles ------------------------------
(***************************************************************************)
(* FatFS (ff.cpp) as drive.cpp uses it: directories of files and            *)
(* sub-directories, the chains of clusters they occupy, and the file         *)
(* objects of the drive's LUNs.  A call runs to its end, but the power may    *)
(* be cut at any of its disk operations; what the card holds then is what    *)
(* the next mount finds.                                                   *)
(*                                                                         *)
(* Names are model values; the text of long names, short aliases, attributes *)
(* and dates are left out, but a name in Long occupies two entries.  A path   *)
(* has one component, or is Root.  A unit of a file's data is Unit(id, ofs)  *)
(* where id numbers the file it was put in.                                   *)
(***************************************************************************)
EXTENDS SectorBuffer, Sequences

CONSTANTS
  Name, Long,   \* file names, those that need a long-name entry
  Root,         \* the path "/"
  Lun,
  Chunk,        \* units moved by one READ or WRITE
  MaxLen,       \* bound: units in a file
  MaxCuts,      \* bound: power cuts
  MaxCalls,     \* bound: calls
  Habits        \* what the host and its user may do

AllHabits ==
  {"update",     \* opens a file for reading and writing
   "mkdir", "rename",
   "scars",      \* goes on after a power cut that left half a rename or half a name
   "twice",      \* opens a file under two LUNs
   "touchOpen",  \* deletes or renames a file that is open
   "writesOn",   \* writes on when the card is full: CR LF after a record, for one
   "grow",       \* puts more into a sub-directory than fits its first cluster
   "error",      \* a disk operation fails
   "abandon",    \* a transfer stops after the seek to its record
   "swap",       \* another card is put in, when nothing is left to be written
   "pull"}       \* another card is put in at any time, and it may be a bad one

ASSUME FilesAssumption ==
  /\ Long \subseteq Name /\ Root \notin Name /\ Habits \subseteq AllHabits
  /\ Chunk \subseteq Nat \ {0} /\ MaxLen \in Nat /\ MaxCuts \in Nat /\ MaxCalls \in Nat

VARIABLES
  disk, sect, dirty, data, last_clust,   \* see SectorBuffer
  mounted, curr_dir,
  fp,          \* the file objects, by LUN
  cuts, calls, \* power cuts and calls so far
  reply        \* the last call and its result

buffer == <<sect, dirty, data, last_clust>>
vars == <<disk, sect, dirty, data, last_clust, mounted, curr_dir, fp, cuts, calls, reply>>

NoEntry == [k |-> "end", name |-> Root, clust |-> 0, size |-> 0, id |-> Root]
Entry(k, name, clust, id) == [k |-> k, name |-> name, clust |-> clust, size |-> 0, id |-> id]
Parts(name) == IF name \in Long THEN 2 ELSE 1     \* (len + 25) / 13
ClusterLen == csize * Width

Unit(id, ofs) == [k |-> "data", id |-> id, ofs |-> ofs]

ClosedFile == [open |-> FALSE, err |-> FALSE, rd |-> FALSE, wr |-> FALSE, written |-> FALSE,
               csect |-> 1, fptr |-> 0, fsize |-> 0, org |-> 0, curr |-> 0, csec |-> 0,
               dsect |-> 0, didx |-> 0, id |-> Root,
               name |-> Root, in |-> 0]    \* the last two: what the host knows of it

(* The start of a call; bad are the disk operations that shall fail.         *)
NoCursor == [sclust |-> 0, clust |-> 0, sect |-> 0, index |-> 0]
Call(f, bad) ==
  [disk |-> disk, sect |-> sect, dirty |-> dirty, data |-> data, last |-> last_clust,
   dir |-> curr_dir, n |-> 0, bad |-> bad, val |-> 0, res |-> IF mounted THEN "OK" ELSE "NOT_READY",
   f |-> f, dj |-> NoCursor, fo |-> NoCursor, store |-> TRUE, entry |-> NoEntry,
   parts |-> 0, match |-> TRUE,
   run |-> 0, more |-> TRUE, grew |-> FALSE, good |-> TRUE]

-----------------------------------------------------------------------------
(* Cluster chains. *)

(* create_chain(), the search: the first free cluster after scl, all round.  *)
After(c) == IF c + 1 < max_clust THEN c + 1 ELSE 2
RECURSIVE FreeAfter(_, _, _)
FreeAfter(v, c, scl) ==
  IF c + 1 >= max_clust /\ 2 > scl THEN [v EXCEPT !.val = 0]
  ELSE With(GetCluster(v, After(c)), LAMBDA w :
         IF w.val = 0 THEN [w EXCEPT !.val = After(c)]
         ELSE IF w.val = 1 THEN w
         ELSE IF After(c) = scl THEN [w EXCEPT !.val = 0]
         ELSE FreeAfter(w, After(c), scl))

Link(v, c, ncl) ==
  With(PutCluster(v, ncl, EOC), LAMBDA w : IF c = 0 THEN w ELSE PutCluster(w, c, ncl))

(* create_chain(): val is the cluster after c, a new one if c is the last or  *)
(* 0, 0 if the card is full, 1 if it fails.                                  *)
From(v, c) == IF c # 0 THEN c ELSE IF v.last = 0 \/ v.last >= max_clust THEN 1 ELSE v.last
Extend(v, c) ==
  With(FreeAfter(v, From(v, c), From(v, c)), LAMBDA r :
    IF r.val < 2 THEN r
    ELSE With(Link(r, c, r.val), LAMBDA l :
           IF l.res # "OK" THEN [l EXCEPT !.val = 1, !.res = "OK"]
           ELSE [l EXCEPT !.last = r.val, !.val = r.val]))
CreateChain_NotEmpty(v, c) ==
  Then(v, LAMBDA w : [Link(w, c, After(From(w, c))) EXCEPT !.last = After(From(w, c)),
                                                           !.val = After(From(w, c))])
CreateChain(v, c) ==
  IF v.res # "OK" THEN v
  ELSE IF c = 0 THEN Extend(v, c)
  ELSE With(GetCluster(v, c), LAMBDA w :
         IF w.val < 2 THEN [w EXCEPT !.val = 1]
         ELSE IF w.val < max_clust THEN w ELSE Extend(w, c))

(* remove_chain().                                                          *)
RECURSIVE RemoveChain(_, _)
RemoveChain(v, c) ==
  IF v.res # "OK" \/ c \notin Cluster THEN v
  ELSE With(GetCluster(v, c), LAMBDA w :
         IF w.val = 1 THEN Fail(w, "RW_ERROR") ELSE RemoveChain(PutCluster(w, c, 0), w.val))

-----------------------------------------------------------------------------
(* Directories.  v.dj is the DIR object, v.entry the entry it is at. *)

Cursor(c) == [sclust |-> c, clust |-> c, sect |-> IF c = 0 THEN dirbase ELSE ClustSect(c),
              index |-> 0]
Here(v) == v.data[v.dj.index % Width]

(* next_dir_entry(): more is what it returns.  A FAT that cannot be read is   *)
(* the end of the directory.                                               *)
NextEntry(v) ==
  LET idx == v.dj.index + 1 IN
  IF v.res # "OK" THEN v
  ELSE IF idx % Width # 0 THEN [v EXCEPT !.dj.index = idx, !.more = TRUE]
  ELSE IF v.dj.clust = 0
  THEN IF idx >= n_rootdir THEN [v EXCEPT !.dj.sect = @ + 1, !.more = FALSE]
       ELSE [v EXCEPT !.dj.sect = @ + 1, !.dj.index = idx, !.more = TRUE]
  ELSE IF (idx \div Width) % csize # 0
  THEN [v EXCEPT !.dj.sect = @ + 1, !.dj.index = idx, !.more = TRUE]
  ELSE With(GetCluster(v, v.dj.clust), LAMBDA w :
         IF w.val \notin Cluster THEN [w EXCEPT !.dj.sect = @ + 1, !.more = FALSE]
         ELSE [w EXCEPT !.dj.clust = w.val, !.dj.sect = ClustSect(w.val), !.dj.index = idx,
                        !.more = TRUE])

(* trace_path(): looks for the name from v.dj on.  v.fo is where the entries  *)
(* of the object begin, v.parts how many of them are parts of a long name.    *)
(* A long name is compared with the parts, whatever entry they stand before.  *)
Found(v, e, name) ==
  IF name \in Long THEN v.match /\ v.parts = Parts(name) - 1
  ELSE e.k \in {"file", "dir"} /\ e.name = name
Begin(v, name) ==
  IF v.store THEN [v EXCEPT !.fo = v.dj, !.store = FALSE,
                            !.parts = IF name \in Long THEN @ ELSE 0]
  ELSE v
Pass(v, name) ==
  IF Here(v).k = "lfn" THEN [v EXCEPT !.parts = @ + 1, !.match = @ /\ Here(v).name = name]
  ELSE IF Here(v).k = "deleted" THEN [v EXCEPT !.store = TRUE]
  ELSE [v EXCEPT !.store = TRUE, !.parts = 0, !.match = TRUE]
RECURSIVE Scan(_, _)
Scan(v, name) ==
  Then(MoveWindow(v, v.dj.sect), LAMBDA w : With(Begin(w, name), LAMBDA s :
    IF Here(s).k = "end" THEN Fail(s, "NO_FILE")
    ELSE IF Here(s).k \notin {"lfn", "deleted"} /\ Found(s, Here(s), name)
    THEN [s EXCEPT !.entry = Here(s)]
    ELSE With(NextEntry(Pass(s, name)), LAMBDA y :
           IF y.more THEN Scan(y, name) ELSE Fail(y, "NO_FILE"))))
Trace(v, name) ==
  With([v EXCEPT !.dj = Cursor(IF name = Root THEN 0 ELSE v.dir), !.store = TRUE,
                 !.entry = NoEntry, !.parts = 0, !.match = TRUE],
       LAMBDA w : IF v.res # "OK" \/ name = Root THEN w ELSE Scan(w, name))

(* reserve_direntry(), the search for n empty entries in a row; v.fo is the   *)
(* first of them.                                                          *)
Room(v) ==
  IF Here(v).k \notin {"end", "deleted"} THEN [v EXCEPT !.run = 0]
  ELSE [v EXCEPT !.run = @ + 1, !.fo = IF v.run = 0 THEN v.dj ELSE @]
RECURSIVE FindRoom(_, _)
FindRoom(v, n) ==
  Then(MoveWindow(v, v.dj.sect), LAMBDA w : With(Room(w), LAMBDA x :
    IF x.run = n THEN [x EXCEPT !.dj = x.fo, !.more = TRUE]
    ELSE With(NextEntry(x), LAMBDA y : IF y.more THEN FindRoom(y, n) ELSE y)))

(* reserve_direntry(), the end of the table: one more cluster, written as     *)
(* zeros after it has been linked.                                          *)
RECURSIVE Zero(_, _, _)
Zero(v, s, n) == IF n = 0 \/ v.res # "OK" THEN v ELSE Zero(DiskWrite(v, s, v.data), s + 1, n - 1)
Empty == Whole(NoEntry)
Stretch(v) ==
  IF v.dj.sclust = 0 THEN Fail(v, "DENIED")
  ELSE With(CreateChain(v, v.dj.clust), LAMBDA c :
    IF c.val < 2 THEN Fail(c, IF c.val = 0 THEN "DENIED" ELSE "RW_ERROR")
    ELSE Then(Flush(c), LAMBDA w :
         Then(Zero([w EXCEPT !.sect = ClustSect(c.val), !.data = Empty], ClustSect(c.val), csize),
              LAMBDA z :
           With([z EXCEPT !.dirty = TRUE, !.grew = TRUE], LAMBDA d :
             IF v.run > 0 THEN [MoveWindow(d, v.fo.sect) EXCEPT !.dj = v.fo]
             ELSE [d EXCEPT !.dj = [sclust |-> v.dj.sclust, clust |-> c.val, sect |-> d.sect,
                                    index |-> 0]]))))
Reserve(v, n) ==
  Then(v, LAMBDA t : Then(FindRoom([t EXCEPT !.dj = Cursor(t.dj.sclust), !.run = 0], n), LAMBDA w :
    IF w.more THEN w ELSE Stretch(w)))

(* add_direntry(): the long-name part; then the entry is the next one.       *)
AddName(v, name) ==
  IF name \notin Long THEN v
  ELSE Then(NextEntry(Store(MoveWindow(v, v.dj.sect), v.dj.index % Width,
                            Entry("lfn", name, 0, Root))),
            LAMBDA y : IF y.more THEN MoveWindow(y, y.dj.sect) ELSE Fail(y, "RW_ERROR"))

(* The entry itself, in the window.                                         *)
PutEntry(v, e) == Store(v, v.dj.index % Width, e)

(* Mark n entries from v.dj on as deleted; f_rename() steps on after the last *)
(* one, f_unlink() does not.                                                *)
RECURSIVE Erase(_, _, _)
Erase(v, n, stepAfter) ==
  Then(Store(MoveWindow(v, v.dj.sect), v.dj.index % Width, [NoEntry EXCEPT !.k = "deleted"]),
       LAMBDA w :
         IF n = 1 /\ ~stepAfter THEN w
         ELSE With(NextEntry(w), LAMBDA y :
                IF ~y.more THEN Fail(y, "RW_ERROR")
                ELSE IF n = 1 THEN y ELSE Erase(y, n - 1, stepAfter)))

-----------------------------------------------------------------------------
(* What a card d holds. *)

(* The clusters from c on, in order; a chain that bites its tail is cut.      *)
RECURSIVE Chain(_, _, _)
Chain(d, c, n) ==
  IF c \notin Cluster \/ n = 0 THEN <<>> ELSE <<c>> \o Chain(d, Fat(d, c), n - 1)
ChainOf(d, c) == Chain(d, c, max_clust)
Clusters(d, c) == {ChainOf(d, c)[i] : i \in DOMAIN ChainOf(d, c)}
Complete(d, c) == c # 0 => /\ c \in Cluster
                           /\ \A x \in Clusters(d, c) : Fat(d, x) \in Cluster \cup {EOC}
                           /\ \E x \in Clusters(d, c) : Fat(d, x) = EOC

(* The unit of a chain at an offset, and the sector it is in.                *)
SectorAt(d, c, o) == ClustSect(ChainOf(d, c)[o \div ClusterLen + 1]) + (o % ClusterLen) \div Width
UnitAt(d, c, o) == d[SectorAt(d, c, o)][o % Width]
Fits(d, c, size) == size <= ClusterLen * Len(ChainOf(d, c))

(* Where the entries are, sub-directories included.                          *)
TableSectors(d, c) ==
  IF c = 0 THEN dirbase .. database - 1
  ELSE UNION {ClustSect(x) .. ClustSect(x) + csize - 1 : x \in Clusters(d, c)}
RECURSIVE Slots(_, _, _)
Slots(d, c, depth) ==
  LET here == TableSectors(d, c) \X (0 .. Width - 1) IN
  here \cup (IF depth = 0 THEN {}
             ELSE UNION {Slots(d, d[p[1]][p[2]].clust, depth - 1) :
                           p \in {q \in here : d[q[1]][q[2]].k = "dir"}})
SlotsOf(d, kinds) == {p \in Slots(d, 0, 2) : d[p[1]][p[2]].k \in kinds}
Tree(d) == SlotsOf(d, {"file", "dir"})

(* A number for a new file or directory, not in use.                         *)
Ids(v) == {View(v)[p[1]][p[2]].id : p \in Tree(View(v))} \cup {fp[l].id : l \in Lun}
NewId(v) == CHOOSE i \in 1 .. Cardinality(Ids(v)) + 1 :
              i \notin Ids(v) /\ \A j \in 1 .. i - 1 : j \in Ids(v)

-----------------------------------------------------------------------------
(* The calls on files. *)

(* f_open(): what is found or made is described in v.f.  The result of the    *)
(* sync() at the end is ignored.                                            *)
Bind_FirstPart(v, mode, e, written) ==
  [v EXCEPT !.f = [@ EXCEPT !.open = TRUE, !.err = FALSE, !.wr = TRUE, !.org = e.clust,
                            !.fsize = e.size, !.dsect = v.fo.sect, !.didx = v.fo.index % Width,
                            !.id = e.id]]
Bind(v, mode, e, written) ==
  Then(v, LAMBDA u :
    With([u EXCEPT !.f = [@ EXCEPT
            !.open = TRUE, !.err = FALSE, !.rd = mode \in {"read", "update"},
            !.wr = mode # "read", !.written = written, !.csect = 1, !.fptr = 0,
            !.fsize = e.size, !.org = e.clust, !.dsect = u.sect,
            !.didx = u.dj.index % Width, !.id = e.id]],
         LAMBDA w : IF mode = "read" THEN w ELSE [Sync(w) EXCEPT !.res = "OK"]))

(* FA_CREATE_ALWAYS: the entry is emptied before its clusters are freed.      *)
Truncate(t) ==
  Then(MoveWindow(RemoveChain(PutEntry(t, [t.entry EXCEPT !.clust = 0, !.size = 0]), t.entry.clust),
                  t.sect),
       LAMBDA r : [r EXCEPT !.last = IF t.entry.clust = 0 THEN max_clust ELSE t.entry.clust - 1])
NewFile(t, name, e) ==
  PutEntry(AddName(Reserve([t EXCEPT !.res = "OK"], Parts(name)), name), e)

f_open(v, name, mode) ==
  With(Trace([v EXCEPT !.f.open = FALSE], name), LAMBDA t :
    LET e == IF t.res # "OK" THEN Entry("file", name, 0, NewId(v))
             ELSE IF mode = "write" THEN [t.entry EXCEPT !.clust = 0, !.size = 0] ELSE t.entry
    IN IF t.res # "OK" /\ (t.res # "NO_FILE" \/ mode = "read") THEN t
       ELSE IF e.k # "file"
       THEN Fail(t, IF mode = "read" THEN "NO_FILE"
                    ELSE IF e.k = "dir" THEN "IS_DIRECTORY" ELSE "DENIED")
       ELSE Bind(IF t.res # "OK" THEN NewFile(t, name, e)
                 ELSE IF mode = "write" THEN Truncate(t) ELSE t,
                 mode, e, t.res # "OK" \/ mode = "write"))

Abort(v) == IF v.res = "OK" THEN v ELSE [v EXCEPT !.f.err = TRUE, !.res = "RW_ERROR"]

(* The next sector of a file whose pointer is on a sector boundary: csect,    *)
(* a byte, counts down the sectors of the cluster; next(v) is the cluster     *)
(* after it.  more tells that there is one.                                 *)
NextSector(v, next) ==
  LET left == (v.f.csect - 1) % 256 IN
  IF left # 0
  THEN Then(Abort(Flush([v EXCEPT !.f.csect = left])), LAMBDA w : [w EXCEPT !.f.csec = @ + 1])
  ELSE With([next EXCEPT !.f.csect = 0], LAMBDA c :
         IF c.val = 0 /\ v.f.wr THEN [c EXCEPT !.more = FALSE]       \* disk full
         ELSE IF c.val \notin Cluster THEN Abort(Fail(c, "RW_ERROR"))
         ELSE Then(Abort(Flush([c EXCEPT !.f.curr = c.val, !.f.csect = csize])), LAMBDA w :
                [w EXCEPT !.f.csec = ClustSect(c.val)]))

(* f_write() of n units, one by one: drive.cpp never has a whole sector to     *)
(* move, let alone a direct copy.  When the card is full it returns FR_OK.     *)
WriteNext(v) ==
  IF v.f.fptr # 0 THEN CreateChain(v, v.f.curr)
  ELSE IF v.f.org # 0 THEN [v EXCEPT !.val = v.f.org]
  ELSE With(CreateChain(v, 0), LAMBDA c : [c EXCEPT !.f.org = c.val])
RECURSIVE WriteUnits(_, _)
WriteUnits(v, n) ==
  IF n = 0 THEN v
  ELSE Then(IF v.f.fptr % Width = 0 THEN NextSector(v, WriteNext(v)) ELSE v, LAMBDA b :
    IF ~b.more THEN b
    ELSE Then(Abort(Store(MoveWindow(b, b.f.csec), b.f.fptr % Width, Unit(b.f.id, b.f.fptr))),
              LAMBDA w : WriteUnits([w EXCEPT !.f.fptr = @ + 1], n - 1)))
f_write(v, n) ==
  IF v.res # "OK" THEN v
  ELSE IF v.f.err THEN Fail(v, "RW_ERROR")
  ELSE IF ~v.f.wr THEN Fail(v, "DENIED")
  ELSE Then(WriteUnits(v, n), LAMBDA w :
         [w EXCEPT !.f.fsize = IF w.f.fptr > @ THEN w.f.fptr ELSE @, !.f.written = TRUE])

(* f_read() of n units; good tells that they are what the file was given.     *)
ReadNext(v) ==
  IF v.f.fptr = 0 THEN [v EXCEPT !.val = v.f.org] ELSE GetCluster(v, v.f.curr)
RECURSIVE ReadUnits(_, _)
ReadUnits(v, n) ==
  IF n = 0 \/ v.f.fptr >= v.f.fsize THEN v
  ELSE Then(IF v.f.fptr % Width = 0 THEN NextSector(v, ReadNext(v)) ELSE v, LAMBDA b :
    IF ~b.more THEN Abort(Fail(b, "RW_ERROR"))
    ELSE Then(Abort(MoveWindow(b, b.f.csec)), LAMBDA w :
           ReadUnits([w EXCEPT !.good = @ /\ w.data[w.f.fptr % Width] = Unit(w.f.id, w.f.fptr),
                               !.f.fptr = @ + 1], n - 1)))
f_read(v, n) ==
  IF v.res # "OK" THEN v
  ELSE IF v.f.err THEN Fail(v, "RW_ERROR")
  ELSE IF ~v.f.rd THEN Fail(v, "DENIED")
  ELSE ReadUnits(v, n)

(* f_lseek(): follow the chain from cluster c to the one that holds the unit  *)
(* before ofs; v.run is what is left of ofs there.                           *)
RECURSIVE Follow(_, _, _)
Follow(v, c, ofs) ==
  With([v EXCEPT !.f.curr = c], LAMBDA at :
    IF ofs <= ClusterLen THEN [at EXCEPT !.f.fptr = @ + ofs, !.run = ofs]
    ELSE With(IF v.f.wr THEN CreateChain(at, c) ELSE GetCluster(at, c), LAMBDA w :
      IF w.val = 0 THEN [w EXCEPT !.f.fptr = @ + ClusterLen, !.run = ClusterLen]
      ELSE IF w.val \notin Cluster THEN Abort(Fail(w, "RW_ERROR"))
      ELSE Follow([w EXCEPT !.f.fptr = @ + ClusterLen], w.val, ofs - ClusterLen)))

(* In the cluster of fptr, on from there, or from the start of the file.      *)
Reach(v, ofs) ==
  LET start == ((v.f.fptr - 1) \div ClusterLen) * ClusterLen IN
  IF v.f.fptr > 0 /\ ofs \div ClusterLen = (v.f.fptr - 1) \div ClusterLen
  THEN [v EXCEPT !.f.fptr = ofs, !.run = ofs % ClusterLen]
  ELSE IF v.f.fptr > 0 /\ ofs > v.f.fptr
  THEN Follow([v EXCEPT !.f.fptr = start], v.f.curr, ofs - start)
  ELSE With(IF v.f.org # 0 THEN [v EXCEPT !.val = v.f.org] ELSE CreateChain(v, 0), LAMBDA first :
    IF first.val = 1 THEN Abort(Fail(first, "RW_ERROR"))
    ELSE IF first.val = 0 THEN [first EXCEPT !.f.fptr = 0, !.run = ofs]
    ELSE Follow([first EXCEPT !.f.org = first.val, !.f.fptr = 0], first.val, ofs))
LastSector(v) == IF v.run = 0 THEN 0 - 1 ELSE (v.run - 1) \div Width    \* a signed byte
SeekInside(v, ofs) ==
  Then(Reach(v, ofs), LAMBDA w :
    [w EXCEPT !.f.csec = ClustSect(w.f.curr) + LastSector(w), !.f.csect = csize - LastSector(w)])
f_lseek(v, ofs) ==
  LET o == IF ofs > v.f.fsize /\ ~v.f.wr THEN v.f.fsize ELSE ofs IN
  IF v.res # "OK" THEN v
  ELSE IF v.f.err THEN Fail(v, "RW_ERROR")
  ELSE IF v.f.fptr = ofs THEN v
  ELSE Then(Abort(Flush(v)), LAMBDA w :
    Then(IF o = 0 THEN [w EXCEPT !.f.fptr = 0, !.f.csect = 1] ELSE SeekInside(w, o), LAMBDA s :
      IF s.f.fptr > s.f.fsize THEN [s EXCEPT !.f.fsize = s.f.fptr, !.f.written = TRUE] ELSE s))

(* f_sync() and f_close(): the data, then the directory entry wherever it was *)
(* when the file was opened.                                               *)
f_sync(v) ==
  IF v.res # "OK" \/ ~v.f.written THEN v
  ELSE Then(MoveWindow(Flush(v), v.f.dsect), LAMBDA w :
    [Sync(Store(w, w.f.didx, [w.data[w.f.didx] EXCEPT !.size = w.f.fsize, !.clust = w.f.org,
                                                      !.id = w.f.id]))
       EXCEPT !.f.written = FALSE])
f_close_NoSync(v) == [v EXCEPT !.f.open = FALSE]
f_close(v) == Then(f_sync(v), LAMBDA w : [w EXCEPT !.f.open = FALSE])

-----------------------------------------------------------------------------
(* The calls on directories. *)

RECURSIVE IsEmpty(_)
IsEmpty(v) ==
  Then(MoveWindow(v, v.dj.sect), LAMBDA w :
    IF Here(w).k = "end" THEN w
    ELSE IF Here(w).k \in {"file", "dir"} THEN Fail(w, "DIR_NOT_EMPTY")
    ELSE With(NextEntry(w), LAMBDA y : IF y.more THEN IsEmpty(y) ELSE y))

(* The entry is erased before its clusters are freed.                        *)
f_unlink_ChainFirst(v, name) ==
  Then(Trace(v, name), LAMBDA t :
    IF t.entry.k # "file" THEN Fail(t, "DENIED")
    ELSE Sync(Erase([RemoveChain(t, t.entry.clust) EXCEPT !.dj = t.fo], t.parts + 1, FALSE)))
EraseFound(v, stepAfter) == Erase([v EXCEPT !.dj = v.fo], v.parts + 1, stepAfter)
f_unlink(v, name) ==
  Then(Trace(v, name), LAMBDA t :
    IF t.entry.k = "end" THEN Fail(t, "INVALID_NAME")
    ELSE IF t.entry.k = "dir" /\ t.entry.clust = v.dir THEN Fail(t, "DIR_NOT_EMPTY")
    ELSE Then(IF t.entry.k # "dir" THEN t
              ELSE IsEmpty([t EXCEPT !.dj = [Cursor(t.entry.clust) EXCEPT !.index = 2]]),
              LAMBDA c : Sync(RemoveChain(EraseFound(c, FALSE), t.entry.clust))))

(* The new table is on the card before the entry that names it.              *)
Dots(c, parent) ==
  [Empty EXCEPT ![0] = Entry("dot", Root, c, Root), ![1] = Entry("dot", Root, parent, Root)]
Table(v, c, parent) ==
  Then(MoveWindow(v, ClustSect(c)), LAMBDA w :
    Then(Zero([w EXCEPT !.data = Empty], ClustSect(c) + 1, csize - 1), LAMBDA z :
      [z EXCEPT !.data = Dots(c, parent), !.dirty = TRUE]))
f_mkdir(v, name) ==
  With(Trace(v, name), LAMBDA t :
    IF t.res = "OK" THEN Fail(t, "EXIST")
    ELSE IF t.res # "NO_FILE" THEN t
    ELSE Then(Reserve([t EXCEPT !.res = "OK"], Parts(name)), LAMBDA r :
      With(CreateChain(r, 0), LAMBDA c :
        IF c.val \notin Cluster THEN Fail(c, IF c.val = 0 THEN "DENIED" ELSE "RW_ERROR")
        ELSE Sync(PutEntry(AddName(MoveWindow(Table(c, c.val, r.dj.sclust), r.sect), name),
                           Entry("dir", name, c.val, NewId(v)))))))

(* The new entry is made before the old one is erased.                       *)
f_rename(v, old, new) ==
  Then(Trace(v, old), LAMBDA a :
    IF a.entry.k = "end" THEN Fail(a, "NO_FILE")
    ELSE With(Trace(a, new), LAMBDA b :
      IF b.res = "OK" THEN Fail(b, "EXIST")
      ELSE IF b.res # "NO_FILE" THEN b
      ELSE Then(NewFile(b, new, [a.entry EXCEPT !.name = new]), LAMBDA p :
        Sync(EraseFound([Trace(p, old) EXCEPT !.res = "OK"], TRUE)))))

f_chdir(v, name) ==
  Then(Trace(v, name), LAMBDA t :
    IF t.entry.k = "end" THEN [t EXCEPT !.dir = 0]
    ELSE IF t.entry.k = "dir" THEN [t EXCEPT !.dir = t.entry.clust]
    ELSE Fail(t, "NOT_DIRECTORY"))

-----------------------------------------------------------------------------
(* The state between calls. *)

Mbr    == Whole([k |-> "mbr"])
Fat16  == Whole([k |-> "fat16"])     \* a boot record check_fs() accepts
NotFat == Whole([k |-> "other"])
NewCard(boot) ==
  [s \in Sector |-> IF s = MbrSect THEN Mbr ELSE IF s = BootSect THEN boot
                    ELSE IF s < dirbase THEN Whole(LinkTo(0)) ELSE Empty]

MaxDiskOps == 40    \* bound: no call needs more
Cut(k) == k .. MaxDiskOps
NoLun == CHOOSE l \in Lun : TRUE

(* What may go wrong in a call that takes n disk operations.                  *)
Faults(n) == {{}} \cup (IF cuts < MaxCuts THEN {Cut(k) : k \in 1 .. n} ELSE {})
                  \cup (IF "error" \in Habits THEN {{k} : k \in 1 .. n} ELSE {})

(* After a restart: the card is mounted, all else is forgotten.              *)
Restarted ==
  /\ sect' = BootSect /\ dirty' = FALSE /\ data' = Fat16 /\ last_clust' = 0
  /\ mounted' = TRUE /\ curr_dir' = 0 /\ fp' = [l \in Lun |-> ClosedFile]

(* What a free cluster holds is not told apart.                              *)
Idle(v, s) == \E c \in Cluster : /\ s \in ClustSect(c) .. ClustSect(c) + csize - 1
                                 /\ Fat(v.disk, c) = 0 /\ Fat(View(v), c) = 0
Settled(v) == [s \in Sector |-> IF Idle(v, s) THEN Empty ELSE v.disk[s]]

(* What a power cut may leave: a file with two entries, a long name with none. *)
Scarred(d) ==
  \/ \E p, q \in Tree(d) : p # q /\ d[p[1]][p[2]].id = d[q[1]][q[2]].id
  \/ Cardinality(SlotsOf(d, {"lfn"})) #
       Cardinality({p \in Tree(d) : d[p[1]][p[2]].name \in Long})

(* The call v of LUN l returns; or it was cut short, with the operations from  *)
(* the first of v.bad on undone.                                            *)
Return(op, l, v) ==
  /\ v.grew => "grow" \in Habits
  /\ disk' = Settled(v)
  /\ IF Cardinality(v.bad) > 1
     THEN /\ Restarted /\ cuts' = cuts + 1
          /\ Scarred(v.disk) => "scars" \in Habits
          /\ reply' = [op |-> "restart", res |-> "OK", good |-> TRUE, lun |-> NoLun]
     ELSE /\ sect' = v.sect /\ dirty' = v.dirty /\ data' = v.data /\ last_clust' = v.last
          /\ curr_dir' = v.dir /\ fp' = [fp EXCEPT ![l] = v.f]
          /\ reply' = [op |-> op, res |-> v.res, good |-> v.good, lun |-> l]
          /\ UNCHANGED <<mounted, cuts>>

Perform(op, l, Do(_)) ==
  /\ mounted /\ calls < MaxCalls /\ calls' = calls + 1
  /\ \E bad \in Faults(Do({}).n) : Return(op, l, Do(bad))

IsOpen(name) == \E l \in Lun : fp[l].open /\ fp[l].name = name /\ fp[l].in = curr_dir
MayTouch(name) == ~IsOpen(name) \/ "touchOpen" \in Habits
Modes == {"read", "append", "write"} \cup (IF "update" \in Habits THEN {"update"} ELSE {})

(* What drive.cpp does with a LUN: open, and for APPEND go to the end; go to a *)
(* record and write or read; RESTORE; close.                                *)
Open(l) ==
  /\ ~fp[l].open
  /\ \E name \in Name, mode \in Modes :
       LET f == [fp[l] EXCEPT !.name = name, !.in = curr_dir]
           Do(bad) == With(f_open(Call(f, bad), name, mode), LAMBDA w :
                        IF mode = "append" THEN f_lseek(w, w.f.fsize) ELSE w)
       IN /\ ~IsOpen(name) \/ "twice" \in Habits
          /\ Perform("open", l, Do)
(* A record of a file opened for UPDATE may be anywhere.                     *)
Position(l) == IF fp[l].rd /\ fp[l].wr THEN {ofs \in 0 .. fp[l].fsize : \E n \in Chunk : ofs % n = 0}
               ELSE {fp[l].fptr}
Units == Chunk \cup (IF "abandon" \in Habits THEN {0} ELSE {})
Write(l) ==
  /\ fp[l].open /\ fp[l].wr
  /\ fp[l].csect # 0 \/ "writesOn" \in Habits
  /\ \E ofs \in Position(l), n \in Units :
       /\ ofs + n <= MaxLen
       /\ Perform("write", l, LAMBDA bad : f_write(f_lseek(Call(fp[l], bad), ofs), n))
Read(l) ==
  /\ fp[l].open /\ fp[l].rd
  /\ \E ofs \in Position(l), n \in Units :
       /\ ofs < fp[l].fsize
       /\ Perform("read", l, LAMBDA bad : f_read(f_lseek(Call(fp[l], bad), ofs), n))
Restore(l) ==
  /\ fp[l].open /\ fp[l].rd
  /\ Perform("restore", l, LAMBDA bad : f_lseek(Call(fp[l], bad), 0))
Close(l) == fp[l].open /\ Perform("close", l, LAMBDA bad : f_close(Call(fp[l], bad)))

(* What it does with names; l only stands for "no LUN changes".              *)
Delete(l) ==
  \E name \in Name :
    /\ MayTouch(name)
    /\ Perform("delete", l, LAMBDA bad : f_unlink(Call(fp[l], bad), name))
MakeDir(l) ==
  \E name \in Name :
    /\ "mkdir" \in Habits
    /\ Perform("mkdir", l, LAMBDA bad : f_mkdir(Call(fp[l], bad), name))
Rename(l) ==
  \E old, new \in Name :
    /\ "rename" \in Habits /\ MayTouch(old)
    /\ Perform("rename", l, LAMBDA bad : f_rename(Call(fp[l], bad), old, new))
ChangeDir(l) ==
  \E name \in Name \cup {Root} :
    /\ "mkdir" \in Habits
    /\ Perform("chdir", l, LAMBDA bad : f_chdir(Call(fp[l], bad), name))

(* Another card: the drive forgets its files, and FatFS keeps its buffer.     *)
Swap ==
  /\ \/ "pull" \in Habits /\ disk' \in {NewCard(Fat16), NewCard(NotFat)}
     \/ "swap" \in Habits /\ ~dirty /\ sect # BootSect /\ disk' = NewCard(Fat16)
  /\ mounted' = FALSE /\ fp' = [l \in Lun |-> ClosedFile]
  /\ reply' = [op |-> "swap", res |-> "OK", good |-> TRUE, lun |-> NoLun]
  /\ UNCHANGED <<buffer, curr_dir, cuts, calls>>

(* mount_drv(): the partition table is read past move_window().              *)
Mount ==
  /\ ~mounted
  /\ LET v == [Call(ClosedFile, {}) EXCEPT !.res = "OK", !.last = 0, !.dir = 0]
         w == MoveWindow(DiskRead(v, MbrSect), BootSect)
         fine == w.res = "OK" /\ w.data = Fat16
     IN /\ disk' = w.disk /\ sect' = w.sect /\ dirty' = w.dirty /\ data' = w.data
        /\ last_clust' = 0 /\ curr_dir' = 0 /\ mounted' = fine
        /\ reply' = [op |-> "mount", res |-> IF fine THEN "OK" ELSE "NO_FILESYSTEM",
                     good |-> TRUE, lun |-> NoLun]
  /\ UNCHANGED <<fp, cuts, calls>>

Init ==
  /\ disk = NewCard(Fat16)
  /\ sect = BootSect /\ dirty = FALSE /\ data = Fat16 /\ last_clust = 0
  /\ mounted = TRUE /\ curr_dir = 0 /\ fp = [l \in Lun |-> ClosedFile]
  /\ cuts = 0 /\ calls = 0 /\ reply = [op |-> "restart", res |-> "OK", good |-> TRUE, lun |-> NoLun]

Next ==
  \/ \E l \in Lun : Open(l) \/ Write(l) \/ Read(l) \/ Restore(l) \/ Close(l)
  \/ Delete(NoLun) \/ MakeDir(NoLun) \/ Rename(NoLun) \/ ChangeDir(NoLun)
  \/ Swap \/ Mount

Spec == Init /\ [][Next]_vars

-----------------------------------------------------------------------------
(* What the properties are about. *)

Entries(d) == {d[p[1]][p[2]] : p \in Tree(d)}
Now == IF dirty THEN [disk EXCEPT ![sect] = data] ELSE disk
OpenFiles == {fp[l] : l \in {m \in Lun : fp[m].open}}

-----------------------------------------------------------------------------
(* The current directory is there: DELETE leaves it alone, and so do the       *)
(* directories it is in.                                                    *)
CurrentDirExists ==
  mounted /\ curr_dir # 0 => \E e \in Entries(Now) : e.k = "dir" /\ e.clust = curr_dir

(* What is on the card at any moment, and so after a power cut, is whole:     *)
(* every entry's chain is allocated to its end and long enough, and no two    *)
(* objects share a cluster; a directory is named after it has been written.    *)
(* (f_rename() has both names for a moment.)                                 *)
Intact(d) ==
  /\ \A e \in Entries(d) : e.k = "dir" => d[ClustSect(e.clust)][0] = Entry("dot", Root, e.clust, Root)
  /\ \A e \in Entries(d) : Complete(d, e.clust) /\ Fits(d, e.clust, e.size)
  /\ \A e, g \in Entries(d) : e.id # g.id => Clusters(d, e.clust) \cap Clusters(d, g.clust) = {}
CardIntact == mounted => Intact(disk)

(* The same of what the files open now own, entry or not.                    *)
OpenIntact ==
  mounted => \A f \in OpenFiles :
    /\ Complete(Now, f.org) /\ (~f.err => Fits(Now, f.org, f.fsize))
    /\ \A e \in Entries(Now) :
         e.id # f.id => Clusters(Now, e.clust) \cap Clusters(Now, f.org) = {}

(* What an entry says is in a file was put there by this file: no other       *)
(* file's write lands in it, and its size is never ahead of its data.        *)
DataKept ==
  mounted => \A e \in {g \in Entries(disk) : g.k = "file"} : \A o \in 0 .. e.size - 1 :
    UnitAt(disk, e.clust, o) = Unit(e.id, o)

(* A file that is open has the name it was opened by, and its entry is where  *)
(* it is remembered to be.                                                  *)
NameFinds ==
  mounted => \A f \in OpenFiles :
    LET e == Now[f.dsect][f.didx] IN e.k = "file" /\ e.name = f.name /\ e.id = f.id

(* A READ returns what was written.                                         *)
ReadsBack == reply.good

(* When CLOSE has answered, the card has the file: "If the file is open, it    *)
(* is closed and data is sync'd".                                           *)
Durable ==
  reply.op = "close" /\ reply.res = "OK" =>
    LET f == fp[reply.lun]   e == disk[f.dsect][f.didx] IN
    f.wr => /\ e.clust = f.org /\ e.size = f.fsize
            /\ Complete(disk, f.org) /\ Fits(disk, f.org, f.fsize)
            /\ \A o \in 0 .. f.fsize - 1 : UnitAt(disk, f.org, o) = Unit(f.id, o)

(* The next unit a file object reads or writes is where its chain says.      *)
PositionOk ==
  mounted => \A f \in OpenFiles :
    f.fptr < f.fsize /\ f.fptr > 0 /\ ~f.err =>
      LET next == IF f.fptr % Width # 0 THEN f.csec
                  ELSE IF f.csect # 1 THEN f.csec + 1
                  ELSE ClustSect(Fat(Now, f.curr))
      IN next = SectorAt(Now, f.org, f.fptr)

(* What the unit keeps in memory fits the card it has mounted: the open files'   *)
(* chains and positions (f_open() to f_lseek()) and the current directory        *)
(* (f_chdir()), after every call, power cut and card.                          *)
MemoryFitsCard == OpenIntact /\ PositionOk /\ CurrentDirExists

(* A card with a FAT file system is mounted: check_fs() does "Load boot       *)
(* record".                                                                *)
GoodCardMounts == reply.op = "mount" /\ disk[BootSect] = Fat16 => reply.res = "OK"
=============================================================================
