------------------------------- MODULE Records -------------------------------
(***************************************************************************)
(* READ, WRITE, RESTORE and VERIFY of drive.cpp on one LUN: how the values a  *)
(* host prints to a file are laid out in it, and how they are found again.    *)
(* FatFS keeps the bytes it is given (FatFiles); here a file is a sequence    *)
(* of bytes and a position.  What the host has written is remembered beside   *)
(* it, in values, for the properties to compare.                            *)
(***************************************************************************)
EXTENDS Integers, FiniteSets, Sequences, SequencesExt

CONSTANTS
  Char,          \* the bytes a value is made of
  MaxValue,      \* bound: bytes in a value of a DISPLAY file
  MaxOther,      \* bound: bytes in a value of another file
  Buflen,        \* the length the host gives: of its buffer, and of a record
  Half,          \* BUFSIZE / 2, what VERIFY compares at a time
  Word,          \* 2^16: buflen, record, fsize of drv_read() have 16 bits
  MaxValues,     \* bound: values in a file
  RecordHabits   \* what the host may do

AllRecordHabits ==
  {"ragged",     \* prints quotes that do not match, or a line feed outside quotes
   "wide",       \* fills a record of a DISPLAY file to its end
   "short",      \* reads into a buffer shorter than the value
   "beyond",     \* reads a record past the end of a file that is open for UPDATE
   "huge"}       \* makes files longer than Word - 1

NUL == 0   LF == 10   CR == 13   QUOTE == 34
JUNK == 255      \* what a cluster held before it became part of the file

ASSUME RecordsAssumption ==
  /\ Char \subseteq 0 .. 254 /\ {MaxValue, MaxOther} \subseteq Nat /\ Half \in Nat \ {0}
  /\ Buflen \in Nat \ {0} /\ Word \in Nat \ {0} /\ MaxValues \in Nat
  /\ RecordHabits \subseteq AllRecordHabits

(* How a file is used: OPENMODE_INTERNAL or not, OPENMODE_RELATIVE or not, and *)
(* whether the LUN is 0 (OLD, SAVE, VERIFY) or 254 (raw images).              *)
Kinds == {"display", "internal", "relDisplay", "relInternal", "program", "raw"}

VARIABLES
  kind,         \* never changes
  file, fptr,   \* the bytes of the file, fp.fptr
  mode,         \* "closed", "read", "write", "append", "update"
  values,       \* history: what was written; of a RELATIVE file, by record number + 1
  ends,         \* history: where each of them ends, in a file that is not RELATIVE
  next,         \* history: the value a READ should give
  answer        \* of the last command

recordVars == <<kind, file, fptr, mode, values, ends, next, answer>>

Display  == kind \in {"display", "relDisplay", "program"}
Relative == kind \in {"relDisplay", "relInternal"}
fsize == Len(file)
Readable == mode \in {"read", "update"}
Writable == mode \in {"write", "append", "update"}
Low(n) == n % Word

Lower(a, b) == IF a < b THEN a ELSE b
Zeros(n) == [i \in 1 .. n |-> NUL]
Nothing == <<JUNK>>     \* of values: a record never written

-----------------------------------------------------------------------------
(* FatFS, within the file: what f_read() returns, the file after f_write(),   *)
(* and after f_lseek(), which makes a file open for writing longer.           *)
Bytes(at, n) == SubSeq(file, at + 1, Lower(at + n, fsize))
Overwrite(f, at, data) ==
  [i \in 1 .. (IF at + Len(data) > Len(f) THEN at + Len(data) ELSE Len(f)) |->
     IF i \in at + 1 .. at + Len(data) THEN data[i - at] ELSE f[i]]
Seek(at) == IF at <= fsize THEN [file |-> file, fptr |-> at]
            ELSE IF Writable THEN [file |-> file \o [i \in 1 .. at - fsize |-> JUNK], fptr |-> at]
            ELSE [file |-> file, fptr |-> fsize]

(* next_value_size_display(): up to a line feed that is not between quotes,   *)
(* carriage returns that are not between quotes left out.                    *)
OddQuotes(s) == Cardinality({i \in 1 .. Len(s) : s[i] = QUOTE}) % 2 = 1
Quoted_Never(f, at, i) == FALSE
Quoted(f, at, i) == OddQuotes(SubSeq(f, at + 1, i - 1))
DisplaySize(f, at) ==
  LET feeds == {i \in at + 1 .. Len(f) : f[i] = LF /\ ~Quoted(f, at, i)}
      end == IF feeds = {} THEN Len(f) + 1 ELSE CHOOSE i \in feeds : \A j \in feeds : i <= j
  IN end - 1 - at - Cardinality({i \in at + 1 .. end - 1 : f[i] = CR /\ ~Quoted(f, at, i)})
next_value_size(f, at) == IF Display THEN DisplaySize(f, at) ELSE f[at + 1] + 1

-----------------------------------------------------------------------------
(* drv_read(): the bytes that are sent, the status, the file and its position  *)
(* after it.                                                               *)
SendSize(s, buflen) ==
  LET rest == Low(Len(s.file) - Low(s.fptr))
      wanted == IF kind = "program" THEN buflen
                ELSE IF kind = "raw" \/ rest = 0 THEN rest
                ELSE IF kind = "relInternal" THEN buflen
                ELSE Low(next_value_size(s.file, s.fptr))
      n == Lower(wanted, buflen)
  IN IF Low(Low(s.fptr) + n) >= Len(s.file) THEN rest ELSE n
Skip(f, at) == IF at < Len(f) /\ f[at + 1] = CR /\ at + 1 < Len(f) THEN at + 2
               ELSE IF at < Len(f) THEN at + 1 ELSE at
Reading(record, buflen) ==
  LET s == IF Relative THEN Seek(Low(buflen * record)) ELSE [file |-> file, fptr |-> fptr]
      n == SendSize(s, buflen)
      after == s.fptr + n
  IN IF Low(s.fptr) >= Len(s.file)
     THEN [file |-> s.file, fptr |-> s.fptr, data |-> <<>>, rc |-> "EOF"]
     ELSE [file |-> s.file, data |-> SubSeq(s.file, s.fptr + 1, after), rc |-> "SUCCESS",
           fptr |-> IF ~Display THEN after
                    ELSE IF Relative THEN Low(buflen * (record + 1)) ELSE Skip(s.file, after)]

(* drv_write(): a RELATIVE file is made longer with zeros, or the position is  *)
(* set; the data; CR LF in DISPLAY files that are no programs; and zeros to    *)
(* the end of the record.                                                   *)
Prepared_Seeks(record) ==
  IF Relative THEN Seek(Low(Buflen * record)) ELSE [file |-> file, fptr |-> fptr]
Prepared(record) ==
  LET at == Low(Buflen * record) IN
  IF ~Relative THEN [file |-> file, fptr |-> fptr]
  ELSE IF fsize < at THEN [file |-> file \o Zeros(at - fsize), fptr |-> at] ELSE Seek(at)
IsProgram(data) == kind = "program" /\ SubSeq(data, 1, 2) = <<128, 3>>
Line(data) == IF Display /\ ~IsProgram(data) THEN data \o <<CR, LF>> ELSE data
Filled(data) == data \o Zeros(IF Relative /\ Buflen > Len(data) THEN Buflen - Len(data) ELSE 0)

(* drv_verify(), its loop: compares Half bytes at a time and stops at the      *)
(* first piece that differs.                                               *)
Compare(data, at) ==
  LET piece(k) == SubSeq(data, k * Half + 1, Lower((k + 1) * Half, Len(data)))
      differing == {k \in 0 .. Len(data) \div Half :
                      Bytes(at + k * Half, Len(piece(k))) # piece(k)}
      first == CHOOSE k \in differing : \A l \in differing : k <= l
  IN IF differing = {} THEN [rc |-> "SUCCESS", at |-> at + Len(data)]
     ELSE [rc |-> "VERIFY_ERR", at |-> at + first * Half + Len(piece(first))]
Verifying_NoLength(data) ==
  Compare(SubSeq(data, 1, Lower(Len(data), fsize)), 0)
Verifying(data) ==
  IF Len(data) # fsize THEN [rc |-> "BUF_SIZE_ERR", at |-> fptr] ELSE Compare(data, fptr)

-----------------------------------------------------------------------------
(* What a value is to the host, and to the bytes it prints: an INTERNAL value  *)
(* begins with its length, a program with its header.                        *)
Matched(v) == \A i \in 1 .. Len(v) + 1 :
                (i = Len(v) + 1 \/ v[i] \in {CR, LF}) => (OddQuotes(SubSeq(v, 1, i - 1)) = (i <= Len(v)))
Printed(v) == IF kind \in {"internal", "relInternal"} THEN <<Len(v)>> \o v
              ELSE IF kind = "program" THEN <<128, 3>> \o v ELSE v
Room == Buflen - (IF kind = "relDisplay" /\ "wide" \notin RecordHabits THEN 2 ELSE 0)
Value == {v \in BoundedSeq(Char, IF Display THEN MaxValue ELSE MaxOther) :
            /\ Display => Matched(v) \/ "ragged" \in RecordHabits
            /\ Len(Printed(v)) <= Room}

(* What a READ of value v should give.                                       *)
Wanted(v) == IF v = Nothing THEN Zeros(Buflen)
             ELSE IF kind = "relInternal" THEN Filled(Printed(v)) ELSE Printed(v)
Buffers == {Buflen} \cup (IF "short" \in RecordHabits THEN {1} ELSE {})

Open(m) ==
  /\ mode = "closed" /\ mode' = m
  /\ m = "write" \/ file # <<>>
  /\ file' = IF m = "write" THEN <<>> ELSE file
  /\ values' = IF m = "write" THEN <<>> ELSE values
  /\ ends' = IF m = "write" THEN <<>> ELSE ends
  /\ fptr' = IF m = "append" THEN fsize ELSE 0
  /\ next' = IF m = "append" THEN Len(values) + 1 ELSE 1
  /\ answer' = [op |-> "open", rc |-> "SUCCESS", fits |-> TRUE]
  /\ UNCHANGED kind

Close ==
  /\ mode # "closed" /\ mode' = "closed"
  /\ answer' = [op |-> "close", rc |-> "SUCCESS", fits |-> TRUE]
  /\ UNCHANGED <<kind, file, fptr, values, ends, next>>

(* A sequential file is only written at its end; a program in one WRITE.      *)
Write(v, record) ==
  /\ Writable /\ (Relative \/ (fptr = fsize /\ Len(values) < MaxValues))
  /\ kind = "program" => file = <<>>
  /\ LET p == Prepared(record)
         data == Filled(Line(Printed(v)))
     IN /\ file' = Overwrite(p.file, p.fptr, data) /\ fptr' = p.fptr + Len(data)
        /\ Len(file') < Word \/ "huge" \in RecordHabits
  /\ values' = IF ~Relative THEN Append(values, v)
               ELSE [i \in 1 .. (IF record >= Len(values) THEN record + 1 ELSE Len(values)) |->
                       IF i = record + 1 THEN v ELSE IF i > Len(values) THEN Nothing ELSE values[i]]
  /\ ends' = IF Relative THEN ends ELSE Append(ends, fptr')
  /\ next' = Len(values) + 2
  /\ answer' = [op |-> "write", rc |-> "SUCCESS", fits |-> TRUE]
  /\ UNCHANGED <<kind, mode>>

StartOf(i) == IF Relative THEN Buflen * (i - 1) ELSE IF i = 1 THEN 0 ELSE ends[i - 1]
RawFits(data) ==        \* some of the file from fptr on
  /\ data = <<>> => fptr = fsize
  /\ \A i \in 1 .. Len(values) : \A j \in 1 .. Len(values[i]) :
       LET at == StartOf(i) + j IN
       fptr < at /\ at <= fptr + Len(data) => data[at - fptr] = values[i][j]
Read(record, buflen) ==
  /\ Readable
  /\ kind = "program" => fptr \in {0, fsize}
  /\ Relative /\ mode = "update" => Buflen * record <= fsize \/ "beyond" \in RecordHabits
  /\ LET r == Reading(record, buflen)
         i == IF Relative THEN record + 1 ELSE next
     IN /\ file' = r.file /\ fptr' = r.fptr
        /\ next' = IF kind = "raw" THEN Len(values) + 1 ELSE IF i <= Len(values) THEN i + 1 ELSE i
        /\ answer' = [op |-> "read", rc |-> r.rc,
                      fits |-> IF kind = "raw" THEN RawFits(r.data)
                               ELSE IF i > Len(values) THEN r.rc = "EOF"
                               ELSE r.rc = "SUCCESS" /\ r.data = Wanted(values[i])]
  /\ UNCHANGED <<kind, mode, values, ends>>

Restore ==
  /\ Readable /\ fptr' = 0 /\ next' = 1
  /\ answer' = [op |-> "restore", rc |-> "SUCCESS", fits |-> TRUE]
  /\ UNCHANGED <<kind, file, mode, values, ends>>

(* The host compares its program right after the file was opened.             *)
Verify(v) ==
  /\ kind = "program" /\ mode = "read" /\ fptr = 0
  /\ LET data == Printed(v)   r == Verifying(data) IN
     /\ fptr' = r.at /\ next' = IF r.at = 0 THEN next ELSE Len(values) + 1
     /\ answer' = [op |-> "verify", rc |-> r.rc, fits |-> (r.rc = "SUCCESS") = (data = file)]
  /\ UNCHANGED <<kind, file, mode, values, ends>>

RecordsInit ==
  /\ kind \in Kinds /\ file = <<>> /\ fptr = 0 /\ mode = "closed"
  /\ values = <<>> /\ ends = <<>> /\ next = 1 /\ answer = [op |-> "close", rc |-> "SUCCESS", fits |-> TRUE]

RecordNumbers == IF Relative THEN 0 .. MaxValues - 1 ELSE {0}
RecordsNext ==
  \/ \E m \in {"read", "write", "append", "update"} : Open(m)
  \/ Close
  \/ \E v \in Value, record \in RecordNumbers : Write(v, record)
  \/ \E record \in RecordNumbers, buflen \in Buffers : Read(record, buflen)
  \/ Restore
  \/ \E v \in Value : Verify(v)

RecordsSpec == RecordsInit /\ [][RecordsNext]_recordVars

-----------------------------------------------------------------------------
(* A READ gives the value that was written, all of it and nothing else, and   *)
(* goes on to the next, or answers EOF after the last: "the amount of bytes to  *)
(* be send is determined by the first occurrence of (CR)LF outside a            *)
(* double-quoted string".  A record that was skipped is zeros.                *)
ReadsValues == answer.op = "read" => answer.fits

(* VERIFY tells a program that equals the file from every other.             *)
VerifyTells == answer.op = "verify" => answer.fits

(* The file is its values, one after the other; in a RELATIVE file each has    *)
(* its record, and writing one leaves the others alone.                      *)
Laid(v) == IF v = Nothing THEN Zeros(Buflen) ELSE Filled(Line(Printed(v)))
Has(f, at, data) == /\ at + Len(data) <= Len(f)
                    /\ \A j \in 1 .. Len(data) : f[at + j] = data[j]
LaidOut ==
  /\ fsize = StartOf(Len(values) + 1)
  /\ \A i \in 1 .. Len(values) :
       /\ StartOf(i + 1) = StartOf(i) + Len(Laid(values[i]))
       /\ Has(file, StartOf(i), Laid(values[i]))
=============================================================================
