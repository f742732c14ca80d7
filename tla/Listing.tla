------------------------------- MODULE Listing -------------------------------
(***************************************************************************)
(* The catalog (catalog.cpp): the host opens a directory as a file, "$" and a  *)
(* pattern, and reads it as a BASIC program (LUN 0) or as lines of text.      *)
(* The number of entries is counted at the OPEN and the directory is read     *)
(* again by the READs.  Names and patterns are sequences of numbers.          *)
(***************************************************************************)
EXTENDS Integers, FiniteSets, Sequences, SequencesExt

CONSTANTS
  Letter,         \* what names are made of
  MaxName,        \* bound: letters in a name or a pattern
  MaxEntries,     \* bound: entries of the directory
  FileSize,       \* sizes a file may have, in bytes
  ListingHabits   \* what the host may do

AllListingHabits ==
  {"changes"}     \* makes or deletes files while it lists the directory

AnyOne == 1   \* ?
AnyRun == 2   \* *
ASSUME ListingAssumption ==
  /\ Letter \subseteq Nat \ {0, AnyOne, AnyRun} /\ MaxName \in Nat /\ MaxEntries \in Nat \ {0}
  /\ FileSize \subseteq Nat /\ ListingHabits \subseteq AllListingHabits

VARIABLES
  dir,        \* the names, in order
  listing,    \* what the open LUN knows: its LUN, pattern, dirnum, and how far dir is
  listed,     \* history: positions of the entries the host was told of
  told        \* the last reply

listingVars == <<dir, listing, listed, told>>

Dots == <<0>>      \* "." and ".." of a sub-directory
Name == {n \in BoundedSeq(Letter, MaxName) : n # <<>>}
Pattern == {p \in BoundedSeq(Letter \cup {AnyOne, AnyRun}, MaxName) : p # <<>>}
NotOpen == [open |-> FALSE, pgm |-> FALSE, pattern |-> <<>>, dirnum |-> 0, at |-> 0]
Said(op, rc) == [op |-> op, rc |-> rc, announced |-> 0, sent |-> 0, size |-> 0, shown |-> <<>>]

-----------------------------------------------------------------------------
(* wild_cmp(), whose calls get what follows i places of p and j letters of s.  *)
Places(p, s) == (0 .. Len(p)) \X (0 .. Len(s))
wild_cmp(p, s) ==
  LET rest[x \in Places(p, s)] ==
        LET i == x[1]   j == x[2] IN
        \/ i = Len(p) /\ j = Len(s)
        \/ /\ i < Len(p) /\ j < Len(s) /\ p[i + 1] \in {AnyOne, s[j + 1]}
           /\ rest[<<i + 1, j + 1>>]
        \/ /\ i < Len(p) /\ p[i + 1] = AnyRun
           /\ rest[<<i + 1, j>>] \/ (j < Len(s) /\ rest[<<i, j + 1>>])
  IN rest[<<0, 0>>]
Skipped(name, pattern) == name = Dots \/ ~wild_cmp(pattern, name)

(* cat_get_num_entries(), and f_readdir() up to the next entry that is listed, *)
(* 0 at the end.                                                           *)
Listed(pattern) == {i \in DOMAIN dir : ~Skipped(dir[i], pattern)}
Count_All(pattern) == Len(dir)
Count(pattern) == Cardinality(Listed(pattern))
NextListed(pattern, at) ==
  LET rest == {i \in Listed(pattern) : i > at} IN
  IF rest = {} THEN 0 ELSE CHOOSE i \in rest : \A j \in rest : i <= j

(* format_file_size(): bytes, or KiB with one digit after the point, in five   *)
(* places; <<>> is "?????".  The number of KiB is an int of 16 bits.          *)
Digits(n) == IF n < 10 THEN 1 ELSE IF n < 100 THEN 2 ELSE IF n < 1000 THEN 3
             ELSE IF n < 10000 THEN 4 ELSE IF n < 100000 THEN 5 ELSE 6
Short(n) == IF n % 65536 < 32768 THEN n % 65536 ELSE (n % 65536) - 65536
format_file_size_Hundredths(bytes) ==
  IF Digits(bytes) <= 5 THEN <<bytes>>
  ELSE <<Short(bytes \div 1024), ((bytes % 1024) * 100) \div 1024>>
format_file_size(bytes) ==
  LET kb == Short(bytes \div 1024) IN
  IF Digits(bytes) <= 5 THEN <<bytes>>
  ELSE IF kb >= 0 /\ Digits(kb) + 2 <= 5 THEN <<kb, ((bytes % 1024) * 10) \div 1024>>
  ELSE <<>>

(* The lengths that are announced and the bytes that are sent: a record of a   *)
(* program is 33 bytes with a name of 17 letters or less, padded.              *)
PgmLength(n) == (33 * n + 4 + 7) % 65536
PgmRecord == 2 + 1 + 1 + 1 + 1 + 5 + 1 + 1 + 17 + 1 + 1 + 1
TxtLength(name) == 1 + 5 + 1 + 1 + Len(name) + 1 + 1

-----------------------------------------------------------------------------
Start(pgm, pattern) ==
  /\ ~listing.open
  /\ listing' = [open |-> TRUE, pgm |-> pgm, pattern |-> pattern,
                 dirnum |-> Count(pattern), at |-> 0]
  /\ listed' = <<>> /\ told' = Said("open", "SUCCESS")
  /\ UNCHANGED dir

(* hex_read_catalog_pgm(): dirnum entries, or less if the directory ends.  A   *)
(* second READ announces them again, and goes on after those it has told of.   *)
InOrder(S) == [k \in 1 .. Cardinality(S) |-> CHOOSE i \in S : Cardinality({j \in S : j <= i}) = k]
Whole(pattern, at, n) ==
  LET rest == {i \in Listed(pattern) : i > at} IN
  InOrder({i \in rest : Cardinality({j \in rest : j < i}) < n})
ReadPgm ==
  /\ listing.open /\ listing.pgm
  /\ LET all == Whole(listing.pattern, listing.at, listing.dirnum) IN
     /\ listed' = listed \o all
     /\ listing' = [listing EXCEPT !.at = IF Len(all) < listing.dirnum THEN Len(dir)
                                         ELSE IF all = <<>> THEN @ ELSE all[Len(all)]]
     /\ told' = [Said(IF listing.at = 0 THEN "pgm" ELSE "again", "SUCCESS")
                   EXCEPT !.announced = PgmLength(listing.dirnum),
                          !.sent = 4 + PgmRecord * Len(all) + 7]
  /\ UNCHANGED dir

(* hex_read_catalog_txt(): the next entry, or EOF.                           *)
ReadTxt ==
  /\ listing.open /\ ~listing.pgm
  /\ LET i == NextListed(listing.pattern, listing.at) IN
     IF i = 0
     THEN told' = Said("txt", "EOF") /\ UNCHANGED <<listing, listed>>
     ELSE /\ listed' = Append(listed, i)
          /\ listing' = [listing EXCEPT !.at = i, !.dirnum = @ - 1]
          /\ \E size \in FileSize :
               told' = [op |-> "txt", rc |-> "SUCCESS", announced |-> TxtLength(dir[i]),
                        sent |-> 10 + Len(dir[i]), size |-> size,
                        shown |-> format_file_size(size)]
  /\ UNCHANGED dir

Stop ==
  /\ listing.open /\ listing' = NotOpen /\ listed' = <<>> /\ told' = Said("close", "SUCCESS")
  /\ UNCHANGED dir

(* Files come and go; a new one takes a place that is free.                   *)
Change ==
  /\ ~listing.open \/ "changes" \in ListingHabits
  /\ \/ /\ Len(dir) < MaxEntries
        /\ \E name \in Name, i \in 1 .. Len(dir) + 1 :
             /\ \A j \in DOMAIN dir : dir[j] # name
             /\ (dir # <<>> /\ dir[1] = Dots) => i > 1
             /\ dir' = InsertAt(dir, i, name)
     \/ \E i \in DOMAIN dir : dir[i] # Dots /\ dir' = RemoveAt(dir, i)
  /\ UNCHANGED <<listing, listed, told>>

ListingInit ==
  /\ dir \in {<<>>, <<Dots>>}      \* the root, or a sub-directory
  /\ listing = NotOpen /\ listed = <<>> /\ told = Said("close", "SUCCESS")

ListingNext ==
  \/ \E pgm \in BOOLEAN, pattern \in Pattern : Start(pgm, pattern)
  \/ ReadPgm \/ ReadTxt \/ Stop \/ Change

ListingSpec == ListingInit /\ [][ListingNext]_listingVars

-----------------------------------------------------------------------------
(* What a pattern stands for: the name can be cut into as many pieces as the   *)
(* pattern has places, each of them fitting its place.                        *)
Fits(p, s, cut) ==
  /\ cut[0] = 0 /\ cut[Len(p)] = Len(s)
  /\ \A i \in 1 .. Len(p) :
       /\ cut[i - 1] <= cut[i]
       /\ p[i] # AnyRun => cut[i] = cut[i - 1] + 1 /\ p[i] \in {AnyOne, s[cut[i]]}
Matches(p, s) == \E cut \in [0 .. Len(p) -> 0 .. Len(s)] : Fits(p, s, cut)
Meant == {i \in DOMAIN dir : dir[i] # Dots /\ Matches(listing.pattern, dir[i])}

(* A listing that has come to its end has told the host of the entries that    *)
(* match, each one once and in order: "skip, if pattern does not match".       *)
ListsMatching ==
  told.op \in {"pgm", "again"} \/ (told.op = "txt" /\ told.rc = "EOF") =>
    /\ {listed[i] : i \in DOMAIN listed} = Meant
    /\ \A i, j \in DOMAIN listed : i < j => listed[i] < listed[j]

(* As many bytes follow as were announced, or the host would wait for the rest *)
(* or take data for the status.  Not so a program that is read again without    *)
(* an OPEN: its whole length is announced, and an empty program follows.       *)
SendsAnnounced == told.op # "again" => told.sent = told.announced

(* The size that is shown is the size of the file, to a tenth of a KiB, or it   *)
(* is "?????": "its output in kiB with an accuracy of 0.1 kiB".                *)
ShowsSize ==
  \/ told.shown = <<>>
  \/ Len(told.shown) = 1 /\ told.shown[1] = told.size
  \/ /\ Len(told.shown) = 2
     /\ LET low == 1024 * told.shown[1] + (1024 * told.shown[2]) \div 10 IN
        low <= told.size /\ told.size <= low + 103

(* A listing: the right entries, in the length announced, with their sizes       *)
(* (hex_open_catalog(), hex_read_catalog_pgm(), hex_read_catalog_txt()).         *)
ListingRight == ListsMatching /\ SendsAnnounced /\ ShowsSize
=============================================================================
