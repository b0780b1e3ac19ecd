------------------------------- MODULE FwFile -------------------------------
(***************************************************************************)
(* The firmware file and the tools that rewrite it: tools/lib/carlfw.c     *)
(* loads the image and the list of descriptors behind it and stores them   *)
(* again with new checksums; checksum, miniboot and eeprom_fix each load,  *)
(* change and store.  A file is a sequence of words, a descriptor is a     *)
(* magic, a head (its length, whether its version is one the program       *)
(* knows) and its words.  A checksum is what it was computed from: two     *)
(* different contents never have the same one.                             *)
(***************************************************************************)
EXTENDS Integers, SequencesExt

CONSTANTS Ops,       \* the tools' actions: "sum", "a", "r" (miniboot d), "=", "O", "A", "d", "D"
          Addresses, \* of EEPROM overrides
          Bits,      \* masks and values are sets of these
          MaxLength, \* CARL9170FW_DESC_MAX_LENGTH, in words (the code: 2048)
          MaxSize,   \* CARL9170FW_MAX_SIZE, in words
          Mini,      \* the miniboot image: its number of words
          Starts,    \* the files the firmware's build may have made
          MaxRuns    \* bound: tools run

VARIABLES file,   \* the words in the file
          mem,    \* what the tool that is storing has in memory
          out,    \* the words it writes
          tool,   \* "idle", "store", or "torn" when a store did not end
          runs,   \* tools run so far
          want,   \* the overrides the user asked for: [address -> <<mask, value>> or None]
          body    \* the firmware as it was built, without a miniboot image

vars == <<file, mem, out, tool, runs, want, body>>

MagicWord(m) == <<"magic", m>>
DescHead(len, known) == <<"head", len, known>>
None == <<>>
HeadSize == 2
EntrySize == 3

Desc(m, known, words) == <<MagicWord(m), DescHead(Len(words) + HeadSize, known)>> \o words
MagicOf(d) == d[1][2]
LengthOf(d) == d[2][2]
KnownVersion(d) == d[2][3]

\* carl9170fw_desc_cmp
Is(d, m, len) == MagicOf(d) = m /\ KnownVersion(d) /\ LengthOf(d) >= len

-----------------------------------------------------------------------------
\* __carlfw_find_desc: the last magic of the file, if its head will do; 0 when there is none
FindDesc(f, m, len) ==
  LET at == {i \in 1..Len(f) - 1 : f[i] = MagicWord(m)}
      p  == CHOOSE i \in at : \A j \in at : j <= i
  IN  IF at # {} /\ f[p + 1][1] = "head" /\ f[p + 1][3] /\ f[p + 1][2] >= len THEN p ELSE 0

\* carl9170fw_for_each_hdr: on to the next as long as the length is sensible
GoesOn(f, p) == /\ p < Len(f) /\ f[p] # MagicWord("LAST") /\ f[p + 1][1] = "head"
                /\ f[p + 1][2] >= HeadSize /\ f[p + 1][2] < MaxLength

\* carlfw_parse_descs
ParseDescs(f, start) ==
  LET parse[p \in 1..Len(f) + MaxLength] ==
        IF GoesOn(f, p) THEN <<SubSeq(f, p, p + f[p + 1][2] - 1)>> \o parse[p + f[p + 1][2]] ELSE <<>>
  IN  parse[start]

IsChk(d) == Is(d, "CHK", HeadSize + 2)

\* crc32_le over the image, then over the descriptors, seeded with the image's
ImageCrc(data) == <<"crc", data>>
DescsCrc(data, descs) == <<"crc", data, descs>>

\* carlfw_check_crc32s; without a checksum descriptor there is nothing to check
ChecksumsHold(data, descs) ==
  LET i == SelectInSeq(descs, IsChk)
  IN  i # 0 => /\ descs[i][3] = ImageCrc(data)
               /\ descs[i][4] = DescsCrc(data, SelectSeq(descs, LAMBDA d : ~IsChk(d)))

\* carlfw_load: the image is what is before the descriptors and what is after LAST.
Unreadable == [data |-> <<>>, descs |-> <<>>, num |-> 0, len |-> 0, ok |-> FALSE]
Total(descs) == FoldLeft(LAMBDA n, d : n + LengthOf(d), 0, descs)
Load(f) ==
  LET otus == FindDesc(f, "OTAR", HeadSize + 1)
      last == FindDesc(f, "LAST", HeadSize)
      descs == ParseDescs(f, otus)
      data == SubSeq(f, 1, otus - 1) \o SubSeq(f, last + HeadSize, Len(f))
  IN  IF otus = 0 \/ last = 0 \/ otus > last \/ ~ChecksumsHold(data, descs) THEN Unreadable
      ELSE [data |-> data, descs |-> descs, num |-> Len(descs), len |-> Total(descs), ok |-> TRUE]

-----------------------------------------------------------------------------
\* carlfw_desc_add_tail
AddTail(fw, d) == [fw EXCEPT !.descs = Append(@, d), !.num = @ + 1, !.len = @ + LengthOf(d)]

\* carlfw_desc_del
Del(fw, i) == [fw EXCEPT !.descs = RemoveAt(@, i), !.num = @ - 1, !.len = @ - LengthOf(fw.descs[i])]

\* carlfw_desc_mod_len: the head has the new length, the words are cut or extended
TooLong(fw, i, n) == LengthOf(fw.descs[i]) + n > MaxLength
ModLen(fw, i, words, n) ==
  LET d == fw.descs[i]
  IN  [fw EXCEPT !.descs[i] = <<d[1], DescHead(LengthOf(d) + n, KnownVersion(d))>> \o words, !.len = @ + n]

\* carlfw_apply_checksums: the old checksum descriptor goes, a new one comes last
ApplyChecksums(fw) ==
  LET i    == SelectInSeq(fw.descs, IsChk)
      bare == IF i = 0 THEN fw ELSE Del(fw, i)
  IN  AddTail(bare, Desc("CHK", TRUE, <<ImageCrc(bare.data), DescsCrc(bare.data, bare.descs)>>))

LastDesc == Desc("LAST", TRUE, <<>>)

\* carlfw_store: the image, every descriptor, LAST
Stored(fw) == fw.data \o FlattenSeq(fw.descs) \o LastDesc

\* carl9170fw_size_check, carlfw_mod_tailroom, carlfw_mod_headroom: room for n words in front
Junk(n) == [i \in 1..n |-> <<"junk">>]
SizeOk(n) == 1 <= n /\ n <= MaxSize
MoreHeadroom(data, n) == Junk(n) \o data

\* With n words less the memory before the image is moved over it, not the rest of the image.
LessHeadroom(data, n) == SubSeq(Junk(n) \o data, 1, Len(data) - n)

-----------------------------------------------------------------------------
IsOtus(d) == Is(d, "OTAR", HeadSize + 1)
MiniOf(fw) == LET i == SelectInSeq(fw.descs, IsOtus) IN fw.descs[i][3][2]
WithMini(fw, n) == [fw EXCEPT !.descs[SelectInSeq(fw.descs, IsOtus)][3] = <<"miniboot", n>>]
MiniImage == [i \in 1..Mini |-> <<"mini", i>>]

\* The overrides: address, mask, value of each entry of the FIX descriptor
IsFix(d) == Is(d, "FIX", HeadSize)
Entries(d) == (LengthOf(d) - HeadSize) \div EntrySize
AddressAt(d, k) == d[HeadSize + EntrySize * (k - 1) + 1][2]
Entry(a, m, v) == <<<<"addr", a>>, <<"mask", m>>, <<"value", v>>>>
WordsOf(d) == SubSeq(d, HeadSize + 1, Len(d))

\* scan_for_similar_fix: the first entry for the address, or 0
Similar(d, a) == IF \E k \in 1..Entries(d) : AddressAt(d, k) = a
                 THEN CHOOSE k \in 1..Entries(d) : AddressAt(d, k) = a /\ \A j \in 1..k - 1 : AddressAt(d, j) # a
                 ELSE 0

\* update_entry
Updated(op, old, new) == CASE op = "=" -> new [] op = "O" -> old \cup new [] op = "A" -> old \cap new

\* What a tool makes of the loaded firmware, and whether it stores it.
Refused(fw) == [fw |-> fw, store |-> FALSE]
Changed(fw) == [fw |-> fw, store |-> TRUE]

\* add_mini: the descriptor is changed before it is known whether there is room
AddMini(fw) ==
  IF MiniOf(fw) # 0 \/ ~SizeOk(Len(fw.data) + Mini) THEN Refused(fw)
  ELSE Changed([WithMini(fw, Mini) EXCEPT !.data = MiniImage \o SubSeq(MoreHeadroom(@, Mini), Mini + 1, Len(@) + Mini)])

\* del_mini
DelMini(fw) ==
  LET n == MiniOf(fw)
  IN  IF n = 0 \/ ~SizeOk(Len(fw.data) - n) THEN Refused(fw)
      ELSE Changed([WithMini(fw, 0) EXCEPT !.data = LessHeadroom(@, n)])

\* set_fix: a new descriptor, a changed entry, or one entry more
SetFix(fw, op, a, m, v) ==
  LET i == SelectInSeq(fw.descs, IsFix)
      d == fw.descs[i]
      k == Similar(d, a)
      at == HeadSize + EntrySize * (k - 1) + 1
  IN  IF i = 0 THEN Changed(AddTail(fw, Desc("FIX", TRUE, Entry(a, m, v))))
      ELSE IF k # 0 THEN Changed([fw EXCEPT !.descs[i][at + 1] = <<"mask", Updated(op, @[2], m)>>,
                                            !.descs[i][at + 2] = <<"value", Updated(op, @[2], v)>>])
      ELSE IF TooLong(fw, i, EntrySize) THEN Refused(fw)
      ELSE Changed(ModLen(fw, i, WordsOf(d) \o Entry(a, m, v), EntrySize))

\* Slip: the last entry is cut off without moving anything.
MovedNot(d, k) == SubSeq(WordsOf(d), 1, Len(WordsOf(d)) - EntrySize)

\* del_fix: the entries behind the one for a, and what is behind them, are moved over it
Moved(d, k) ==
  LET words == WordsOf(d) \o Junk(HeadSize + EntrySize)
      at == EntrySize * (k - 1)
  IN  SubSeq(SubSeq(words, 1, at) \o SubSeq(words, at + EntrySize + 1, Len(words)), 1, Len(WordsOf(d)) - EntrySize)

DelFix(fw, a) ==
  LET i == SelectInSeq(fw.descs, IsFix)
      d == fw.descs[i]
  IN  IF i = 0 \/ Similar(d, a) = 0 THEN Refused(fw)
      ELSE Changed(ModLen(fw, i, Moved(d, Similar(d, a)), -EntrySize))

\* del_all
DelAll(fw) == LET i == SelectInSeq(fw.descs, IsFix) IN Changed(IF i = 0 THEN fw ELSE Del(fw, i))

-----------------------------------------------------------------------------
\* The build: an image, the OTAR descriptor first, others, LAST, perhaps words after it.
Init ==
  /\ file \in Starts /\ mem = Unreadable /\ out = <<>> /\ tool = "idle" /\ runs = 0
  /\ want = [a \in Addresses |-> None] /\ body = Load(file).data

\* A tool's main: load, change, store; w is what the user wants from then on.
Run(done, w) ==
  /\ tool = "idle" /\ runs < MaxRuns /\ runs' = runs + 1
  /\ IF done.store
     THEN /\ mem' = ApplyChecksums(done.fw) /\ out' = Stored(mem')
          /\ tool' = "store" /\ want' = w /\ file' = <<>>
     ELSE UNCHANGED <<mem, out, tool, want, file>>
  /\ UNCHANGED body

Loaded == Load(file)

\* What a file overrides: per address the mask and the value.
Overrides(descs) ==
  LET i == SelectInSeq(descs, IsFix)
      d == descs[i]
      word(a, n) == d[HeadSize + EntrySize * (Similar(d, a) - 1) + n][2]
  IN  [a \in Addresses |-> IF i = 0 \/ Similar(d, a) = 0 THEN None ELSE <<word(a, 2), word(a, 3)>>]

\* Descriptors may grow to the maximal length, but those of that length are not read.
Unread(fw) == SelectInSeq(fw.descs, LAMBDA d : LengthOf(d) = MaxLength)
Wanted == IF Unread(mem) = 0 THEN want ELSE Overrides(Loaded.descs)

\* checksum: no change
Checksum == "sum" \in Ops /\ Loaded.ok /\ Run(Changed(Loaded), Wanted)

Miniboot == Loaded.ok /\ \/ "a" \in Ops /\ Run(AddMini(Loaded), Wanted)
                         \/ "r" \in Ops /\ Run(DelMini(Loaded), Wanted)

EepromSet == Loaded.ok /\ \E op \in Ops \cap {"=", "O", "A"}, a \in Addresses, m, v \in SUBSET Bits :
  Run(SetFix(Loaded, op, a, m, v),
      [Wanted EXCEPT ![a] = IF @ = None \/ op = "=" THEN <<m, v>>
                          ELSE IF op = "O" THEN <<@[1] \cup m, @[2] \cup v>> ELSE <<@[1] \cap m, @[2] \cap v>>])

EepromDel == Loaded.ok /\ \/ "d" \in Ops /\ \E a \in Addresses : Run(DelFix(Loaded, a), [Wanted EXCEPT ![a] = None])
                          \/ "D" \in Ops /\ Run(DelAll(Loaded), [a \in Addresses |-> None])

\* The file, emptied when it was opened, is written.
Written == tool = "store" /\ file' = out /\ tool' = "idle" /\ UNCHANGED <<mem, out, runs, want, body>>

\* The disk is full or the tool is stopped: a part is written.
Torn == /\ tool = "store" /\ tool' = "torn"
        /\ \E n \in 0..Len(out) - 1 : file' = SubSeq(out, 1, n)
        /\ UNCHANGED <<mem, out, runs, want, body>>

Next == Checksum \/ Miniboot \/ EepromSet \/ EepromDel \/ Written \/ Torn
Spec == Init /\ [][Next]_vars

-----------------------------------------------------------------------------
TypeOK == /\ tool \in {"idle", "store", "torn"} /\ runs \in 0..MaxRuns
          /\ want \in [Addresses -> {None} \cup (SUBSET Bits) \X (SUBSET Bits)]
          /\ mem.num \in Nat /\ mem.len \in Int

\* What a tool stored is loaded again: the image, every descriptor, the counts that fwinfo
\* shows, under checksums that hold, whatever was in the file before.  Of a firmware with a
\* descriptor of the maximal length that one is lost and all behind it, the checksum too,
\* so that nothing is found wrong.
ReadOf(fw) ==
  LET descs == SubSeq(fw.descs, 1, Unread(fw) - 1)
  IN  IF Unread(fw) = 0 THEN fw
      ELSE [fw EXCEPT !.descs = descs, !.num = Len(descs), !.len = Total(descs)]
LoadsBack == tool = "idle" /\ mem.ok => Load(file) = ReadOf(mem)

\* A file whose store did not end is never taken for a firmware.
TornNotLoaded == tool = "torn" => ~Load(file).ok

OnePerAddress(descs) ==
  LET i == SelectInSeq(descs, IsFix)
  IN  i # 0 => \A j, k \in 1..Entries(descs[i]) : AddressAt(descs[i], j) = AddressAt(descs[i], k) => j = k

\* The overrides in the file are those that the tools were asked for, one entry an address,
\* except when their descriptor has just reached the maximal length: then none is left, and
\* the next tool begins with none.
OverridesKept ==
  tool = "idle" => /\ OnePerAddress(Loaded.descs)
                   /\ Overrides(Loaded.descs) = IF Unread(mem) = 0 THEN want ELSE [a \in Addresses |-> None]

\* What the driver uploads, the image behind the miniboot image, stays what was built.
ImageKept == tool = "idle" => SubSeq(Loaded.data, MiniOf(Loaded) + 1, Len(Loaded.data)) = body

\* "'d' = remove miniboot firmware."
MiniRemoved == ImageKept

\* "'=' => add/set value for address"
AddsOrSets == tool = "idle" => Overrides(Loaded.descs) = want
=============================================================================
