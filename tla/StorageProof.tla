---------------------------- MODULE StorageProof ----------------------------
(***************************************************************************)
(* Theorems about the two files of the server, for every log, every bound  *)
(* and every set of faults: type correctness and what a short write spares *)
(* whatever fails; and, where a server is exposed to one kind of crash,    *)
(* that each file is a stable store and the commit index is covered.       *)
(***************************************************************************)
EXTENDS Storage, Integers, SequenceTheorems, WellFoundedInduction, TLAPS

-----------------------------------------------------------------------------
(* What a read finds in a file of records *)

LEMMA LeastNumber ==
  ASSUME NEW S \in SUBSET Nat, S # {}
  PROVE  \E x \in S : \A y \in S : x <= y
<1>. DEFINE R == {p \in Nat \X Nat : p[1] < p[2]}
<1>1. IsWellFoundedOn(R, Nat)
  BY NatLessThanWellFounded DEF OpToRel
<1>2. PICK x \in S : \A y \in S : <<y, x>> \notin R
  BY <1>1, WFMin
<1>3. ASSUME NEW y \in S PROVE x <= y
  <2>1. <<y, x>> \in Nat \X Nat
    OBVIOUS
  <2>2. ~(<<y, x>>[1] < <<y, x>>[2])
    BY <1>2, <2>1, Zenon
  <2>. QED  BY <2>2
<1>. QED  BY <1>3

\* The records before the first that is not whole are k.
WholeUpTo(c, k) ==
  k \in 0..Len(c) /\ (\A i \in 1..k : c[i] # Torn) /\ (k < Len(c) => c[k + 1] = Torn)

LEMMA SomeWhole ==
  ASSUME NEW c \in LogRecords
  PROVE  \E k : WholeUpTo(c, k)
<1>. DEFINE S == {i \in 1..Len(c) : c[i] = Torn}
<1>0. Len(c) \in Nat /\ S \in SUBSET Nat
  BY DEF LogRecords
<1>1. CASE S = {}
  BY <1>0, <1>1 DEF WholeUpTo
<1>2. CASE S # {}
  <2>1. PICK x \in S : \A y \in S : x <= y
    BY <1>0, <1>2, LeastNumber
  <2>2. x \in 1..Len(c) /\ c[x] = Torn /\ x \in Nat
    BY <1>0, <2>1
  <2>3. ASSUME NEW i \in 1..(x - 1) PROVE c[i] # Torn
    BY <1>0, <2>1, <2>2
  <2>. HIDE DEF S
  <2>4. x - 1 \in 0..Len(c) /\ (x - 1) + 1 = x
    BY <1>0, <2>2
  <2>5. WholeUpTo(c, x - 1)
    BY <2>2, <2>3, <2>4 DEF WholeUpTo
  <2>. QED  BY <2>5
<1>. QED  BY <1>1, <1>2

LEMMA ValidFacts ==
  ASSUME NEW c \in LogRecords
  PROVE  WholeUpTo(c, Valid(c))
  BY SomeWhole DEF Valid, WholeUpTo

LEMMA ValidIs ==
  ASSUME NEW c \in LogRecords, NEW k, WholeUpTo(c, k)
  PROVE  Valid(c) = k
<1>1. Len(c) \in Nat
  BY DEF LogRecords
<1>2. WholeUpTo(c, Valid(c))
  BY ValidFacts
<1>. QED  BY <1>1, <1>2 DEF WholeUpTo

\* What is read are entries, a part of the file.
LEMMA ReadType ==
  ASSUME NEW c \in LogRecords
  PROVE  /\ ReadLog(c) \in Seq(Entry) /\ Len(ReadLog(c)) = Valid(c)
         /\ Valid(c) \in Nat /\ Valid(c) <= Len(c)
<1>1. WholeUpTo(c, Valid(c)) /\ Len(c) \in Nat /\ \A i \in 1..Len(c) : c[i] \in Record
  BY ValidFacts DEF LogRecords
<1>2. Valid(c) \in Nat /\ Valid(c) <= Len(c) /\ \A i \in 1..Valid(c) : c[i] \in Entry
  BY <1>1 DEF WholeUpTo, Record
<1>3. ReadLog(c) = [i \in 1..Valid(c) |-> c[i]]
  BY <1>1, <1>2, SubSeqProperties DEF ReadLog, LogRecords
<1>4. ReadLog(c) \in [1..Valid(c) -> Entry]
  BY <1>2, <1>3
<1>. QED  BY <1>2, <1>4, SeqDef, LenProperties

\* A file of whole records is read in full.
LEMMA ReadWhole ==
  ASSUME NEW c \in Seq(Entry)
  PROVE  c \in LogRecords /\ ReadLog(c) = c
<1>1. c \in LogRecords /\ Len(c) \in Nat /\ \A i \in 1..Len(c) : c[i] \in Entry
  BY DEF LogRecords, Record
<1>2. WholeUpTo(c, Len(c))
  BY <1>1, ContentAssumption DEF WholeUpTo
<1>3. ReadLog(c) = SubSeq(c, 1, Len(c))
  BY <1>1, <1>2, ValidIs DEF ReadLog
<1>. QED  BY <1>1, <1>3

\* A record behind the others spoils none of them.
LEMMA ReadMore ==
  ASSUME NEW c \in LogRecords, NEW x \in Record
  PROVE  /\ Append(c, x) \in LogRecords
         /\ Len(ReadLog(Append(c, x))) >= Len(ReadLog(c))
         /\ SubSeq(ReadLog(Append(c, x)), 1, Len(ReadLog(c))) = ReadLog(c)
         /\ x = Torn => ReadLog(Append(c, x)) = ReadLog(c)
<1>. DEFINE d == Append(c, x)
            k == Valid(c)
            h == Valid(d)
<1>1. d \in LogRecords /\ Len(c) \in Nat /\ Len(d) = Len(c) + 1 /\ d[Len(c) + 1] = x
      /\ \A i \in 1..Len(c) : d[i] = c[i]
  BY DEF LogRecords
<1>2. WholeUpTo(c, k) /\ WholeUpTo(d, h) /\ k \in Nat /\ k <= Len(c) /\ h \in Nat /\ h <= Len(d)
  BY <1>1, ValidFacts, ReadType
<1>. HIDE DEF d, k, h
<1>3. k <= h /\ (x = Torn => k = h)
  <2>1. ~(h < k)
    <3>. SUFFICES ASSUME h < k PROVE FALSE
      OBVIOUS
    <3>1. h + 1 \in 1..k /\ h + 1 \in 1..Len(c) /\ h < Len(d)
      BY <1>1, <1>2
    <3>2. d[h + 1] = Torn /\ c[h + 1] # Torn
      BY <1>2, <3>1 DEF WholeUpTo
    <3>. QED  BY <1>1, <3>1, <3>2
  <2>2. ASSUME x = Torn, k < h PROVE FALSE
    <3>1. k + 1 \in 1..h
      BY <1>2, <2>2
    <3>2. d[k + 1] # Torn
      BY <1>2, <3>1 DEF WholeUpTo
    <3>3. CASE k < Len(c)
      <4>1. c[k + 1] = Torn /\ k + 1 \in 1..Len(c)
        BY <1>1, <1>2, <3>3 DEF WholeUpTo
      <4>. QED  BY <1>1, <3>2, <4>1
    <3>4. CASE k = Len(c)
      BY <1>1, <2>2, <3>2, <3>4
    <3>. QED  BY <1>1, <1>2, <3>3, <3>4
  <2>. QED  BY <1>2, <2>1, <2>2
<1>4. ReadLog(c) = [i \in 1..k |-> c[i]] /\ ReadLog(d) = [i \in 1..h |-> d[i]]
  BY <1>1, <1>2, SubSeqProperties DEF ReadLog, LogRecords, k, h
<1>5. Len(ReadLog(c)) = k /\ Len(ReadLog(d)) = h /\ ReadLog(d) \in Seq(Entry)
  BY <1>1, ReadType DEF k, h
<1>6. SubSeq(ReadLog(d), 1, k) = [i \in 1..k |-> ReadLog(d)[i]]
  BY <1>2, <1>3, <1>5, SubSeqProperties
<1>7. [i \in 1..k |-> ReadLog(d)[i]] = ReadLog(c)
  BY <1>1, <1>2, <1>3, <1>4
<1>8. x = Torn => ReadLog(d) = ReadLog(c)
  BY <1>1, <1>2, <1>3, <1>4
<1>. QED  BY <1>1, <1>3, <1>5, <1>6, <1>7, <1>8 DEF d

\* The whole records of a file, alone, are what was read of it.
LEMMA ReadRead ==
  ASSUME NEW c \in LogRecords
  PROVE  SubSeq(c, 1, Len(ReadLog(c))) = ReadLog(c) /\ ReadLog(ReadLog(c)) = ReadLog(c)
<1>1. ReadLog(c) \in Seq(Entry) /\ Len(ReadLog(c)) = Valid(c)
  BY ReadType
<1>2. SubSeq(c, 1, Len(ReadLog(c))) = ReadLog(c)
  BY <1>1 DEF ReadLog
<1>. QED  BY <1>1, <1>2, ReadWhole

\* What a write of records may leave.
LEMMA PartialType ==
  ASSUME NEW c \in LogRecords, NEW new \in Seq(Entry)
  PROVE  Partial(c, new) \subseteq LogRecords
<1>1. \A k \in 0..Len(new) : c \o SubSeq(new, 1, k) \in LogRecords
  <2>. SUFFICES ASSUME NEW k \in 0..Len(new) PROVE c \o SubSeq(new, 1, k) \in LogRecords
    OBVIOUS
  <2>1. SubSeq(new, 1, k) \in Seq(Record)
    BY DEF Record
  <2>. QED  BY <2>1 DEF LogRecords
<1>2. \A k \in 0..Len(new) - 1 : Append(c \o SubSeq(new, 1, k), Torn) \in LogRecords
  BY <1>1 DEF LogRecords, Record
<1>. QED  BY <1>1, <1>2 DEF Partial

LEMMA PartialReads ==
  ASSUME NEW c \in Seq(Entry), NEW e \in Entry, NEW d \in Partial(c, <<e>>)
  PROVE  d \in LogRecords /\ ReadLog(d) \in {c, Append(c, e)}
<1>1. c \in LogRecords /\ ReadLog(c) = c /\ <<e>> \in Seq(Entry) /\ Len(<<e>>) = 1
  BY ReadWhole
<1>2. d \in LogRecords
  BY <1>1, PartialType
<1>3. c \o SubSeq(<<e>>, 1, 0) = c /\ c \o SubSeq(<<e>>, 1, 1) = Append(c, e)
  <2>1. SubSeq(<<e>>, 1, 0) = <<>>
    BY SubSeqEmpty
  <2>2. SubSeq(<<e>>, 1, 1) = <<e>>
    BY <1>1, SubSeqFull
  <2>. QED  BY <2>1, <2>2, ConcatEmptySeq, AppendIsConcat
<1>4. d \in {c, Append(c, e), Append(c, Torn)}
  <2>1. CASE \E k \in 0..1 : d = c \o SubSeq(<<e>>, 1, k)
    <3>1. PICK k \in {0, 1} : d = c \o SubSeq(<<e>>, 1, k)
      BY <2>1
    <3>. QED  BY <1>3, <3>1
  <2>2. CASE \E k \in 0..0 : d = Append(c \o SubSeq(<<e>>, 1, k), Torn)
    <3>1. d = Append(c \o SubSeq(<<e>>, 1, 0), Torn)
      BY <2>2
    <3>. QED  BY <1>3, <3>1
  <2>. QED  BY <1>1, <2>1, <2>2 DEF Partial
<1>5. Append(c, e) \in Seq(Entry)
  OBVIOUS
<1>6. ReadLog(Append(c, e)) = Append(c, e)
  BY <1>5, ReadWhole
<1>7. ReadLog(Append(c, Torn)) = c
  BY <1>1, ReadMore DEF Record
<1>. QED  BY <1>1, <1>2, <1>4, <1>5, <1>6, <1>7

-----------------------------------------------------------------------------
(* The inductive invariant *)

\* Whatever fails: the entry being written is there, the new file holds the log in
\* memory, and recover() truncates to what it read.
FilesInv ==
  /\ pc = "log-write" => memLog # <<>>
  /\ pc \in {"tmp-sync", "tmp-rename"} => tmp = memLog
  /\ pc = "truncate" => memLog \in {ReadLog(logs), <<>>}

\* What a crash leaves of logs.bin at each step, and what a read finds there.
LogsInv ==
  /\ LogOutcomes # {}
  /\ Booting => LogOutcomes = {ReadLog(logs)}
  /\ pc = "truncate" => memLog = ReadLog(logs)
  /\ pc \in {"idle", "truncate"} \/ InMetaCall => LogOutcomes = {memLog}
  /\ pc \in {"idle", "log-sync", "dir-sync"} \/ InMetaCall => logs = memLog
  /\ pc = "log-write" => logs = SubSeq(memLog, 1, Len(memLog) - 1)
  /\ pc \in {"log-write", "tmp-write", "tmp-sync", "tmp-rename"} =>
       logs \in Seq(Entry) /\ LogOutcomes = {logs}
  /\ pc \in {"tmp-rename", "dir-sync"} => tmpStable = Stable({memLog})

\* The same of metadata.bin, and that its commit index is covered.
MetaInv ==
  /\ MetaOutcomes # {}
  /\ Booting => MetaOutcomes = {ReadMeta(meta)}
  /\ pc \in {"idle", "truncate", "boot-meta"} \/ InLogCall => MetaOutcomes = {memMeta}
  /\ pc = "meta-sync" => meta = memMeta
  /\ ~Booting => memMeta.commitIndex <= Len(memLog)

\* The invariant the theorems rest on.
StoreInv == FilesInv /\ (CallsSucceed => LogsInv /\ MetaInv /\ CommitCovered)

-----------------------------------------------------------------------------
(* Type correctness, and the part of the invariant that no fault breaks *)

LEMMA Contents ==
  /\ Default \in MetaData /\ Torn \in Record /\ Entry \subseteq Record
  /\ <<>> \in LogRecords /\ <<>> \in Seq(Entry)
  /\ \A c \in MetaData \cup {Torn, Absent} : ReadMeta(c) \in MetaData
  /\ \A m \in MetaData, l \in Seq(Entry) : Clipped(m, l) \in MetaData
<1>1. Default \in MetaData
  BY ContentAssumption DEF Default, MetaData
<1>2. \A c \in MetaData \cup {Torn, Absent} : ReadMeta(c) \in MetaData
  BY <1>1 DEF ReadMeta
<1>3. ASSUME NEW m \in MetaData, NEW l \in Seq(Entry) PROVE Clipped(m, l) \in MetaData
  <2>1. CASE m.commitIndex > Len(l)
    <3>1. Len(l) \in 0..MaxLen
      BY <2>1, ContentAssumption DEF MetaData
    <3>. QED  BY <2>1, <3>1 DEF Clipped, MetaData
  <2>. QED  BY <2>1 DEF Clipped
<1>. QED  BY <1>1, <1>2, <1>3 DEF Record, LogRecords

LEMMA MetaCallTypes ==
  ASSUME TypeOK, FilesInv, MetaCall, UNCHANGED faults
  PROVE  TypeOK' /\ FilesInv'
<1>. USE DEF memory, metaBin, logsBin, tmpBin
<1>1. ASSUME NEW m \in MetaData, UpdateMetaData(m) PROVE TypeOK' /\ FilesInv'
  BY <1>1 DEF UpdateMetaData, TruncateMeta, Stable, TypeOK, FilesInv
<1>2. CASE WriteMeta
  BY <1>2 DEF WriteMeta, Stable, TypeOK, FilesInv
<1>3. CASE SyncMeta
  BY <1>3 DEF SyncMeta, Stable, TypeOK, FilesInv
<1>. QED  BY <1>1, <1>2, <1>3 DEF MetaCall

LEMMA LogCallTypes ==
  ASSUME TypeOK, FilesInv, LogCall, UNCHANGED faults
  PROVE  TypeOK' /\ FilesInv'
<1>. USE DEF memory, metaBin, logsBin, tmpBin
<1>0. /\ memLog \in Seq(Entry) /\ memLog \in LogRecords
      /\ logs \in LogRecords /\ logsStable \subseteq LogRecords
      /\ tmp \in LogRecords /\ tmpStable \subseteq LogRecords
  BY ReadWhole DEF TypeOK
<1>1. ASSUME NEW e \in Entry, WriteLog(e) PROVE TypeOK' /\ FilesInv'
  <2>1. Append(memLog, e) \in Seq(Entry) /\ Append(memLog, e) # <<>>
    BY <1>0
  <2>. QED  BY <1>1, <2>1 DEF WriteLog, TypeOK, FilesInv
<1>2. CASE AppendRecord
  <2>1. memLog[Len(memLog)] \in Entry
    <3>1. memLog # <<>>
      BY <1>2 DEF AppendRecord, FilesInv
    <3>. QED  BY <1>0, <3>1
  <2>2. /\ Append(logs, memLog[Len(memLog)]) \in LogRecords
        /\ Partial(logs, <<memLog[Len(memLog)]>>) \subseteq LogRecords
    <3>1. <<memLog[Len(memLog)]>> \in Seq(Entry)
      BY <2>1
    <3>. QED  BY <1>0, <2>1, <3>1, Contents, ReadMore, PartialType
  <2>. QED  BY <1>2, <2>2 DEF AppendRecord, Stable, TypeOK, FilesInv
<1>3. CASE ShortWrite
  <2>1. Append(logs, Torn) \in LogRecords
    BY <1>0, Contents, ReadMore
  <2>. QED  BY <1>3, <2>1 DEF ShortWrite, Stable, TypeOK, FilesInv
<1>4. CASE SyncLog
  BY <1>4 DEF SyncLog, Stable, TypeOK, FilesInv
<1>5. ASSUME NEW l \in Log, RewriteLog(l) PROVE TypeOK' /\ FilesInv'
  <2>1. l \in Seq(Entry)
    BY SeqDef DEF Log
  <2>. QED  BY <1>5, <2>1, Contents DEF RewriteLog, Stable, TypeOK, FilesInv
<1>6. CASE WriteTmp
  <2>1. Partial(<<>>, memLog) \subseteq LogRecords
    BY <1>0, Contents, PartialType
  <2>. QED  BY <1>0, <1>6, <2>1 DEF WriteTmp, Stable, TypeOK, FilesInv
<1>7. CASE SyncTmp
  BY <1>7 DEF SyncTmp, Stable, TypeOK, FilesInv
<1>8. CASE RenameTmp
  BY <1>0, <1>8 DEF RenameTmp, Stable, TypeOK, FilesInv
<1>9. CASE SyncDir
  BY <1>0, <1>9, Contents DEF SyncDir, Stable, TypeOK, FilesInv
<1>. QED  BY <1>1, <1>2, <1>3, <1>4, <1>5, <1>6, <1>7, <1>8, <1>9 DEF LogCall

LEMMA FailureTypes ==
  ASSUME TypeOK, FilesInv, Failure, UNCHANGED faults
  PROVE  TypeOK' /\ FilesInv'
<1>. USE DEF memory, metaBin, logsBin, tmpBin
<1>0. logs \in LogRecords /\ logsStable \subseteq LogRecords
  BY DEF TypeOK
<1>1. CASE CrashKill
  <2>1. KillContents \subseteq LogRecords
    BY <1>0, Contents, ReadMore DEF KillContents
  <2>. QED  BY <1>0, <1>1, <2>1, Contents DEF CrashKill, Reboot, Stable, TypeOK, FilesInv
<1>2. CASE CrashPower
  BY <1>0, <1>2, Contents DEF CrashPower, Reboot, Stable, TypeOK, FilesInv
<1>3. ASSUME NEW step, Fails(step) PROVE TypeOK' /\ FilesInv'
  BY <1>3 DEF Fails, TypeOK, FilesInv
<1>. QED  BY <1>1, <1>2, <1>3 DEF Failure

LEMMA BootTypes ==
  ASSUME TypeOK, FilesInv, Boot, UNCHANGED faults
  PROVE  TypeOK' /\ FilesInv'
<1>. USE DEF memory, metaBin, logsBin, tmpBin
<1>0. /\ logs \in LogRecords /\ logsStable \subseteq LogRecords
      /\ meta \in MetaData \cup {Torn, Absent}
  BY DEF TypeOK
<1>1. CASE InitStorage
  BY <1>1, Contents DEF InitStorage, Stable, TypeOK, FilesInv
<1>2. CASE ReadFiles
  <2>1. memLog' \in {ReadLog(logs), <<>>} /\ memLog' \in Seq(Entry)
    BY <1>0, <1>2, Contents, ReadType DEF ReadFiles
  <2>2. memMeta' \in MetaData
    BY <1>0, <1>2, <2>1, Contents DEF ReadFiles
  <2>3. logs' = logs
    BY <1>2 DEF ReadFiles
  <2>4. FilesInv'
    BY <1>2, <2>1, <2>3 DEF ReadFiles, FilesInv, ReadLog, Valid
  <2>. QED  BY <1>2, <2>1, <2>2, <2>4 DEF ReadFiles, TypeOK
<1>3. CASE TruncateLogFile
  <2>1. memLog \in {ReadLog(logs), <<>>}
    BY <1>3 DEF TruncateLogFile, FilesInv
  <2>2. SubSeq(logs, 1, Len(memLog)) \in LogRecords
    <3>1. CASE memLog = ReadLog(logs)
      BY <1>0, <3>1, ReadRead, ReadType, ReadWhole
    <3>2. CASE memLog = <<>>
      <4>1. Len(memLog) = 0 /\ SubSeq(logs, 1, 0) = <<>>
        BY <3>2, SubSeqEmpty
      <4>. QED  BY <4>1, Contents
    <3>. QED  BY <2>1, <3>1, <3>2
  <2>. QED  BY <1>3, <2>2 DEF TruncateLogFile, Stable, TypeOK, FilesInv
<1>4. CASE RecoverMeta
  BY <1>4 DEF RecoverMeta, TruncateMeta, Stable, TypeOK, FilesInv
<1>. QED  BY <1>1, <1>2, <1>3, <1>4 DEF Boot

LEMMA FilesTypes == TypeOK /\ FilesInv /\ [Next]_vars => TypeOK' /\ FilesInv'
<1>1. ASSUME TypeOK, FilesInv, UNCHANGED vars PROVE TypeOK' /\ FilesInv'
  BY <1>1
     DEF vars, memory, metaBin, logsBin, tmpBin, TypeOK, FilesInv, ReadLog, Valid
<1>. QED  BY <1>1, MetaCallTypes, LogCallTypes, FailureTypes, BootTypes DEF Next

LEMMA FilesStart == Init => TypeOK /\ FilesInv
  BY Contents DEF Init, Stable, TypeOK, FilesInv

\* Every variable has its type, whatever fails.
THEOREM StorageTypeCorrect == Spec => []TypeOK
  BY FilesStart, FilesTypes, PTL DEF Spec

LEMMA FilesInvariant == Spec => [](TypeOK /\ FilesInv)
  BY FilesStart, FilesTypes, PTL DEF Spec

-----------------------------------------------------------------------------
(* What a short write and a kill spare *)

\* A step spares the records that can be read.
Spares(c, d) == Len(ReadLog(d)) >= Len(ReadLog(c)) /\ SubSeq(ReadLog(d), 1, Len(ReadLog(c))) = ReadLog(c)

LEMMA SparesSame ==
  ASSUME NEW c \in LogRecords
  PROVE  Spares(c, c)
<1>1. ReadLog(c) \in Seq(Entry) /\ Len(ReadLog(c)) \in Nat
  BY ReadType
<1>. QED  BY <1>1, SubSeqFull DEF Spares

LEMMA RecordsKeptStep ==
  ASSUME TypeOK, FilesInv, Next, "power" \notin faults
  PROVE  ReadLog(logs') = memLog' \/ Spares(logs, logs')
<1>. USE DEF memory, metaBin, logsBin, tmpBin
<1>0. logs \in LogRecords /\ memLog \in Seq(Entry)
  BY DEF TypeOK
<1>1. CASE logs' = logs
  BY <1>0, <1>1, SparesSame
<1>2. ASSUME NEW x \in Record, logs' = Append(logs, x) PROVE Spares(logs, logs')
  BY <1>0, <1>2, ReadMore DEF Spares
<1>3. CASE AppendRecord
  <2>1. memLog # <<>>
    BY <1>3 DEF AppendRecord, FilesInv
  <2>2. memLog[Len(memLog)] \in Record
    BY <1>0, <2>1 DEF Record
  <2>. QED  BY <1>2, <1>3, <2>2 DEF AppendRecord
<1>4. CASE ShortWrite
  BY <1>2, <1>4, Contents DEF ShortWrite
<1>5. CASE RenameTmp
  <2>1. logs' = memLog /\ memLog' = memLog
    BY <1>5 DEF RenameTmp, FilesInv
  <2>. QED  BY <1>0, <2>1, ReadWhole
<1>6. CASE CrashKill
  BY <1>1, <1>2, <1>6, Contents DEF CrashKill, KillContents
<1>7. CASE TruncateLogFile /\ logs' # logs
  <2>1. logs' = SubSeq(logs, 1, Len(memLog)) /\ memLog \in {ReadLog(logs), <<>>} /\ memLog' = memLog
    BY <1>7 DEF TruncateLogFile, FilesInv
  <2>2. CASE memLog = ReadLog(logs)
    BY <1>0, <2>1, <2>2, ReadRead
  <2>3. CASE memLog = <<>>
    <3>1. Len(memLog) = 0 /\ SubSeq(logs, 1, 0) = <<>>
      BY <2>3, SubSeqEmpty
    <3>2. logs' = memLog
      BY <2>1, <2>3, <3>1
    <3>. QED  BY <1>0, <2>1, <3>2, ReadWhole
  <2>. QED  BY <2>1, <2>2, <2>3
<1>8. CASE MetaCall
  BY <1>1, <1>8 DEF MetaCall, UpdateMetaData, WriteMeta, SyncMeta
<1>9. CASE LogCall
  BY <1>1, <1>3, <1>4, <1>5, <1>9
     DEF LogCall, WriteLog, SyncLog, RewriteLog, WriteTmp, SyncTmp, SyncDir
<1>10. CASE Failure
  BY <1>1, <1>6, <1>10 DEF Failure, CrashPower, Fails
<1>11. CASE Boot
  BY <1>1, <1>7, <1>11 DEF Boot, InitStorage, ReadFiles, RecoverMeta
<1>. QED  BY <1>8, <1>9, <1>10, <1>11 DEF Next

\* Short of a power failure, whatever call fails or is cut off, no record that
\* could be read is lost but to a log that is in memory.
THEOREM RecordsAreKept == Spec => RecordsKept
<1>1. TypeOK /\ FilesInv /\ [Next]_vars =>
        [LET old == ReadLog(logs)  new == ReadLog(logs')
         IN  \/ "power" \in faults
             \/ new = memLog'
             \/ Len(new) >= Len(old) /\ SubSeq(new, 1, Len(old)) = old]_vars
  BY RecordsKeptStep DEF Spares
<1>. QED  BY <1>1, FilesInvariant, PTL DEF Spec, RecordsKept

-----------------------------------------------------------------------------
(* One kind of crash *)

\* A server that can be killed does not lose power: what a killed process leaves
\* in a file is read, and not synced, by the one that starts after it.
OneKindOfCrash == \A w \in Worlds : ("kill" \in w) <=> ("power" \notin w)
OneCrash == ("kill" \in faults) <=> ("power" \notin faults)

\* What a crash leaves to be read is what is there, or what is stable.
OutcomesAre ==
  /\ LogOutcomes = IF "kill" \in faults THEN {ReadLog(logs)} ELSE {ReadLog(c) : c \in logsStable}
  /\ MetaOutcomes = IF "kill" \in faults THEN {ReadMeta(meta)} ELSE {ReadMeta(c) : c \in metaStable}

LEMMA Outcomes == TypeOK /\ OneCrash => OutcomesAre
<1>. SUFFICES ASSUME TypeOK, OneCrash PROVE OutcomesAre
  OBVIOUS
<1>1. logs \in LogRecords
  BY DEF TypeOK
<1>2. \A c \in KillContents : ReadLog(c) = ReadLog(logs)
  BY <1>1, Contents, ReadMore DEF KillContents
<1>3. logs \in KillContents
  BY DEF KillContents
<1>4. CASE "kill" \in faults
  BY <1>2, <1>3, <1>4 DEF OneCrash, OutcomesAre, LogOutcomes, MetaOutcomes
<1>5. CASE "kill" \notin faults
  BY <1>5 DEF OneCrash, OutcomesAre, LogOutcomes, MetaOutcomes
<1>. QED  BY <1>4, <1>5

LEMMA OutcomesAfter == TypeOK' /\ OneCrash' => OutcomesAre'
  BY Outcomes, PTL

\* What the steps below start from, and what each of them shows.
Good == /\ TypeOK /\ FilesInv /\ CallsSucceed /\ OneCrash /\ OutcomesAre
        /\ LogsInv /\ MetaInv /\ CommitCovered
Keeps == TypeOK' /\ OutcomesAre' /\ UNCHANGED faults
LogGoal  == LogsInv' /\ [LogStore!Next]_(LogStore!vars)
MetaGoal == MetaInv' /\ [MetaStore!Next]_(MetaStore!vars)

LEMMA Covered ==
  ASSUME \A m \in MetaOutcomes', l \in LogOutcomes' : m.commitIndex <= Len(l)
  PROVE  CommitCovered'
  BY DEF CommitCovered

\* A call on one file leaves the other as it is.
LEMMA LogRests ==
  ASSUME Good, Keeps, UNCHANGED <<memLog, logsBin, tmpBin>>,
         pc = "idle" \/ InMetaCall, (pc = "idle" \/ InMetaCall)'
  PROVE  LogGoal /\ LogOutcomes = {memLog} /\ LogOutcomes' = {memLog}
<1>. USE DEF logsBin, tmpBin
<1>1. LogOutcomes = {memLog} /\ logs = memLog
  BY DEF Good, LogsInv
<1>2. LogOutcomes' = LogOutcomes
  BY DEF Good, Keeps, OutcomesAre
<1>3. ~Booting /\ ~Booting' /\ ~InLogCall /\ ~InLogCall' /\ pc' # "truncate"
      /\ pc' \notin {"log-write", "log-sync", "tmp-write", "tmp-sync", "tmp-rename", "dir-sync"}
  BY DEF Booting, InLogCall, InMetaCall
<1>4. LogsInv'
  BY <1>1, <1>2, <1>3 DEF LogsInv
<1>5. UNCHANGED LogStore!vars
  <2>1. InLogCall = FALSE /\ InLogCall' = FALSE
    BY <1>3 DEF InLogCall
  <2>. QED  BY <1>2, <1>3, <2>1 DEF LogStore!vars
<1>. QED  BY <1>1, <1>2, <1>4, <1>5 DEF LogGoal

LEMMA MetaRests ==
  ASSUME Good, Keeps, UNCHANGED <<memMeta, metaBin>>,
         pc = "idle" \/ InLogCall, (pc = "idle" \/ InLogCall)',
         memMeta.commitIndex <= Len(memLog')
  PROVE  MetaGoal /\ MetaOutcomes = {memMeta} /\ MetaOutcomes' = {memMeta}
<1>. USE DEF metaBin
<1>1. MetaOutcomes = {memMeta}
  BY DEF Good, MetaInv
<1>2. MetaOutcomes' = MetaOutcomes
  BY DEF Good, Keeps, OutcomesAre
<1>3. ~Booting /\ ~Booting' /\ ~InMetaCall /\ ~InMetaCall' /\ pc' # "meta-sync"
  BY DEF Booting, InLogCall, InMetaCall
<1>4. MetaInv'
  BY <1>1, <1>2, <1>3 DEF MetaInv
<1>5. UNCHANGED MetaStore!vars
  <2>1. InMetaCall = FALSE /\ InMetaCall' = FALSE
    BY <1>3 DEF InMetaCall
  <2>. QED  BY <1>2, <1>3, <2>1 DEF MetaStore!vars
<1>. QED  BY <1>1, <1>2, <1>4, <1>5 DEF MetaGoal

\* What updateMetaData writes moves from what was there to what it is given, by
\* way of the defaults.
LEMMA TruncatedMeta ==
  ASSUME Good, Keeps, TruncateMeta
  PROVE  MetaOutcomes' # {} /\ MetaOutcomes' \subseteq MetaOutcomes \cup {Default}
<1>1. ReadMeta(Torn) = Default
  BY DEF ReadMeta
<1>. QED  BY <1>1 DEF Good, Keeps, OutcomesAre, TruncateMeta, OneCrash, Stable

LEMMA MemMetaReads ==
  ASSUME Good
  PROVE  memMeta \in MetaData /\ ReadMeta(memMeta) = memMeta
<1>1. memMeta \in MetaData
  BY DEF Good, TypeOK
<1>. QED  BY <1>1, MarkAssumption DEF ReadMeta

LEMMA MetaCallGood ==
  ASSUME Good, Keeps, MetaCall \/ RecoverMeta
  PROVE  LogGoal /\ MetaGoal /\ CommitCovered'
<1>. USE DEF memory, metaBin, logsBin, tmpBin
<1>0. memLog \in Seq(Entry) /\ Len(memLog) \in Nat
  BY DEF Good, TypeOK
<1>1. ASSUME NEW m \in MetaData, m.commitIndex <= Len(memLog), UpdateMetaData(m)
      PROVE  LogGoal /\ MetaGoal /\ CommitCovered'
  <2>1. /\ pc = "idle" /\ pc' = "meta-write" /\ memMeta' = m /\ TruncateMeta
        /\ UNCHANGED <<memLog, logsBin, tmpBin>>
    BY <1>1 DEF UpdateMetaData, Good, CallsSucceed
  <2>2. LogGoal /\ LogOutcomes = {memLog} /\ LogOutcomes' = {memLog}
    BY <2>1, LogRests DEF InMetaCall
  <2>3. MetaOutcomes' # {} /\ MetaOutcomes' \subseteq MetaOutcomes \cup {Default}
    BY <2>1, TruncatedMeta
  <2>4. MetaInv'
    BY <1>1, <2>1, <2>3 DEF MetaInv, Booting, InLogCall
  <2>5. MetaStore!Call(m)
    BY <2>1, <2>3 DEF MetaStore!Call, MetaStore!Shift, Booting, InMetaCall
  <2>6. CommitCovered'
    <3>1. \A x \in MetaOutcomes : x.commitIndex <= Len(memLog)
      BY <2>2 DEF Good, CommitCovered
    <3>2. Default.commitIndex <= Len(memLog)
      BY <1>0 DEF Default
    <3>. QED  BY <2>2, <2>3, <3>1, <3>2, Covered
  <2>. QED  BY <2>2, <2>4, <2>5, <2>6 DEF MetaGoal, MetaStore!Next
<1>2. CASE RecoverMeta
  <2>1. /\ pc = "boot-meta" /\ pc' = "meta-write" /\ memMeta' = memMeta /\ TruncateMeta
        /\ UNCHANGED <<memLog, logsBin, tmpBin>>
    BY <1>2 DEF RecoverMeta
  <2>2. LogGoal /\ LogOutcomes = {memLog} /\ LogOutcomes' = {memLog}
    BY <2>1, LogRests DEF InMetaCall
  <2>3. MetaOutcomes' # {} /\ MetaOutcomes' \subseteq MetaOutcomes \cup {Default}
    BY <2>1, TruncatedMeta
  <2>4. MetaInv'
    BY <2>1, <2>3 DEF Good, MetaInv, Booting, InLogCall
  <2>5. MetaStore!Progress
    BY <2>1, <2>3 DEF MetaStore!Progress, MetaStore!Shift, Booting, InMetaCall
  <2>6. CommitCovered'
    <3>1. \A x \in MetaOutcomes : x.commitIndex <= Len(memLog)
      BY <2>2 DEF Good, CommitCovered
    <3>2. Default.commitIndex <= Len(memLog)
      BY <1>0 DEF Default
    <3>. QED  BY <2>2, <2>3, <3>1, <3>2, Covered
  <2>. QED  BY <2>2, <2>4, <2>5, <2>6 DEF MetaGoal, MetaStore!Next
<1>3. CASE WriteMeta
  <2>1. /\ pc = "meta-write" /\ pc' = "meta-sync" /\ memMeta' = memMeta
        /\ meta' = memMeta /\ metaStable' = Stable(metaStable \cup {memMeta})
        /\ UNCHANGED <<memLog, logsBin, tmpBin>>
    BY <1>3 DEF WriteMeta
  <2>2. LogGoal /\ LogOutcomes = {memLog} /\ LogOutcomes' = {memLog}
    BY <2>1, LogRests DEF InMetaCall
  <2>3. MetaOutcomes' # {} /\ MetaOutcomes' \subseteq MetaOutcomes \cup {memMeta}
    BY <2>1, MemMetaReads DEF Good, Keeps, OutcomesAre, OneCrash, Stable
  <2>4. MetaInv'
    BY <2>1, <2>3 DEF Good, MetaInv, Booting, InLogCall
  <2>5. MetaStore!Progress
    BY <2>1, <2>3 DEF MetaStore!Progress, MetaStore!Shift, Booting, InMetaCall
  <2>6. CommitCovered'
    <3>1. \A x \in MetaOutcomes : x.commitIndex <= Len(memLog)
      BY <2>2 DEF Good, CommitCovered
    <3>2. memMeta.commitIndex <= Len(memLog)
      BY <2>1 DEF Good, MetaInv, Booting
    <3>. QED  BY <2>2, <2>3, <3>1, <3>2, Covered
  <2>. QED  BY <2>2, <2>4, <2>5, <2>6 DEF MetaGoal, MetaStore!Next
<1>4. CASE SyncMeta
  <2>1. /\ pc = "meta-sync" /\ pc' = "idle" /\ memMeta' = memMeta
        /\ meta' = meta /\ metaStable' = Stable({meta}) /\ meta = memMeta
        /\ UNCHANGED <<memLog, logsBin, tmpBin>>
    BY <1>4 DEF SyncMeta, Good, MetaInv
  <2>2. LogGoal /\ LogOutcomes = {memLog} /\ LogOutcomes' = {memLog}
    BY <2>1, LogRests DEF InMetaCall
  <2>3. MetaOutcomes' = {memMeta}
    BY <2>1, MemMetaReads DEF Good, Keeps, OutcomesAre, OneCrash, Stable
  <2>4. memMeta.commitIndex <= Len(memLog)
    BY <2>1 DEF Good, MetaInv, Booting
  <2>5. MetaInv'
    BY <2>1, <2>3, <2>4 DEF MetaInv, Booting
  <2>6. MetaStore!Return
    BY <2>1, <2>3 DEF MetaStore!Return, Booting, InMetaCall
  <2>. QED  BY <2>2, <2>3, <2>4, <2>5, <2>6, Covered DEF MetaGoal, MetaStore!Next
<1>. QED  BY <1>1, <1>2, <1>3, <1>4 DEF MetaCall

\* Sequences and their last element.
LEMMA FrontAppended ==
  ASSUME NEW l \in Seq(Entry), NEW e \in Entry
  PROVE  /\ Append(l, e) \in Seq(Entry) /\ Len(Append(l, e)) = Len(l) + 1
         /\ SubSeq(Append(l, e), 1, Len(l)) = l
<1>1. Append(l, e) \in Seq(Entry) /\ Len(Append(l, e)) = Len(l) + 1 /\ Len(l) \in Nat
      /\ \A i \in 1..Len(l) : Append(l, e)[i] = l[i]
  OBVIOUS
<1>2. SubSeq(Append(l, e), 1, Len(l)) = [i \in 1..Len(l) |-> Append(l, e)[i]]
  BY <1>1
<1>3. [i \in 1..Len(l) |-> Append(l, e)[i]] = l
  BY <1>1
<1>. QED  BY <1>1, <1>2, <1>3

LEMMA LastAppended ==
  ASSUME NEW l \in Seq(Entry), l # <<>>, NEW f, f = SubSeq(l, 1, Len(l) - 1)
  PROVE  /\ l[Len(l)] \in Entry /\ Append(f, l[Len(l)]) = l
         /\ Len(l) = Len(f) + 1 /\ Len(f) \in Nat
<1>1. Len(l) \in 1..Len(l) /\ Len(l) \in Nat
  OBVIOUS
<1>2. l[Len(l)] \in Entry
  BY <1>1
<1>3. f \in Seq(Entry) /\ Len(f) = Len(l) - 1 /\ \A i \in 1..Len(l) - 1 : f[i] = l[i]
  <2>1. 1 \in Int /\ Len(l) - 1 \in Int /\ \A i \in 1..Len(l) - 1 : l[i] \in Entry
    BY <1>1
  <2>2. /\ f \in Seq(Entry) /\ Len(f) = IF 1 <= Len(l) - 1 THEN Len(l) - 1 - 1 + 1 ELSE 0
        /\ \A i \in 1..Len(l) - 1 - 1 + 1 : f[i] = l[1 + i - 1]
    BY <2>1, SubSeqProperties
  <2>3. Len(f) = Len(l) - 1
    <3>1. PICK n \in Nat : n = Len(l) /\ n >= 1
      BY <1>1
    <3>2. Len(f) = IF 1 <= n - 1 THEN n - 1 - 1 + 1 ELSE 0
      BY <2>2, <3>1
    <3>. QED  BY <3>1, <3>2
  <2>4. ASSUME NEW i \in 1..Len(l) - 1 PROVE f[i] = l[i]
    <3>1. i \in 1..Len(l) - 1 - 1 + 1 /\ 1 + i - 1 = i
      BY <1>1
    <3>2. f[i] = l[1 + i - 1]
      BY <2>2, <3>1
    <3>. QED  BY <3>1, <3>2
  <2>. QED  BY <2>2, <2>3, <2>4
<1>4. Append(f, l[Len(l)]) \in Seq(Entry) /\ Len(Append(f, l[Len(l)])) = Len(l)
      /\ \A i \in 1..Len(l) : Append(f, l[Len(l)])[i] = l[i]
  BY <1>1, <1>2, <1>3
<1>. QED  BY <1>1, <1>2, <1>3, <1>4, SeqEqual

LEMMA InLog ==
  ASSUME NEW l \in Seq(Entry), Len(l) <= MaxLen, MaxLen \in Nat
  PROVE  l \in Log
<1>1. Len(l) \in 0..MaxLen /\ l \in [1..Len(l) -> Entry]
  BY LenProperties
<1>. QED  BY <1>1 DEF Log

\* A call on logs.bin: what may be left moves from the log before it to the one
\* after it, and both hold the committed entries.
LEMMA WriteLogGood ==
  ASSUME Good, Keeps, NEW e \in Entry, WriteLog(e)
  PROVE  LogGoal /\ MetaGoal /\ CommitCovered'
<1>. USE DEF memory, metaBin, logsBin, tmpBin
<1>1. /\ pc = "idle" /\ pc' = "log-write" /\ memLog' = Append(memLog, e)
      /\ Len(memLog) < MaxLen /\ UNCHANGED <<memMeta, metaBin, logsBin, tmpBin>>
  BY DEF WriteLog, Good, CallsSucceed
<1>2. /\ memLog \in Seq(Entry) /\ Len(memLog) \in Nat /\ LogOutcomes = {memLog} /\ logs = memLog
      /\ memMeta.commitIndex <= Len(memLog) /\ memMeta.commitIndex \in Nat
  BY <1>1 DEF Good, TypeOK, LogsInv, MetaInv, Booting, MetaData
<1>3. /\ Append(memLog, e) \in Seq(Entry) /\ Len(Append(memLog, e)) = Len(memLog) + 1
      /\ SubSeq(Append(memLog, e), 1, Len(memLog)) = memLog
  BY <1>2, FrontAppended
<1>4. MetaGoal /\ MetaOutcomes' = {memMeta}
  BY <1>1, <1>2, <1>3, MetaRests DEF InLogCall
<1>5. LogOutcomes' = {memLog}
  BY <1>1, <1>2 DEF Good, Keeps, OutcomesAre
<1>6. LogsInv'
  BY <1>1, <1>2, <1>3, <1>5 DEF LogsInv, Booting, InMetaCall
<1>7. Append(memLog, e) \in Log
  <2>1. MaxLen \in Nat
    BY ContentAssumption
  <2>2. Len(Append(memLog, e)) <= MaxLen
    BY <1>1, <1>2, <1>3, <2>1
  <2>. QED  BY <1>3, <2>1, <2>2, InLog
<1>8. LogStore!Call(Append(memLog, e))
  BY <1>1, <1>2, <1>5 DEF LogStore!Call, LogStore!Shift, Booting, InLogCall
<1>. QED  BY <1>2, <1>4, <1>5, <1>6, <1>7, <1>8, Covered DEF LogGoal, LogStore!Next

LEMMA AppendRecordGood ==
  ASSUME Good, Keeps, AppendRecord
  PROVE  LogGoal /\ MetaGoal /\ CommitCovered'
<1>. USE DEF memory, metaBin, logsBin, tmpBin
<1>. DEFINE e == memLog[Len(memLog)]
<1>1. /\ pc = "log-write" /\ pc' = "log-sync" /\ logs' = Append(logs, e)
      /\ logsStable' = Stable(logsStable \cup Partial(logs, <<e>>))
      /\ UNCHANGED <<memory, metaBin, tmpBin>>
  BY DEF AppendRecord
<1>2. /\ memLog \in Seq(Entry) /\ memLog # <<>> /\ logs = SubSeq(memLog, 1, Len(memLog) - 1)
      /\ logs \in Seq(Entry) /\ LogOutcomes = {logs} /\ MetaOutcomes = {memMeta}
  BY <1>1 DEF Good, TypeOK, FilesInv, LogsInv, MetaInv, InLogCall
<1>3. /\ e \in Entry /\ Append(logs, e) = memLog /\ Len(memLog) = Len(logs) + 1 /\ Len(logs) \in Nat
  BY <1>2, LastAppended
<1>4. memMeta.commitIndex <= Len(logs) /\ memMeta.commitIndex \in Nat
  BY <1>2 DEF Good, CommitCovered, TypeOK, MetaData
<1>5. MetaGoal /\ MetaOutcomes' = {memMeta}
  BY <1>1, <1>3, <1>4, MetaRests DEF InLogCall
<1>. HIDE DEF e
<1>6. LogOutcomes' # {} /\ LogOutcomes' \subseteq {logs, memLog}
  <2>1. CASE "kill" \in faults
    BY <1>1, <1>2, <1>3, <2>1, ReadWhole DEF Keeps, OutcomesAre
  <2>2. CASE "kill" \notin faults
    <3>1. \A d \in Partial(logs, <<e>>) : ReadLog(d) \in {logs, memLog}
      BY <1>2, <1>3, PartialReads
    <3>2. LogOutcomes = {ReadLog(c) : c \in logsStable}
      BY <2>2 DEF Good, OutcomesAre
    <3>3. logsStable' = logsStable \cup Partial(logs, <<e>>)
      BY <1>1, <2>2 DEF Good, OneCrash, Stable
    <3>4. LogOutcomes' = {ReadLog(c) : c \in logsStable'}
      BY <2>2 DEF Keeps, OutcomesAre
    <3>. QED  BY <1>2, <3>1, <3>2, <3>3, <3>4
  <2>. QED  BY <2>1, <2>2
<1>7. LogsInv'
  BY <1>1, <1>3, <1>6 DEF LogsInv, Booting, InMetaCall
<1>8. LogStore!Progress
  BY <1>1, <1>2, <1>6 DEF LogStore!Progress, LogStore!Shift, Booting, InLogCall
<1>. QED  BY <1>3, <1>4, <1>5, <1>6, <1>7, <1>8, Covered DEF LogGoal, LogStore!Next

LEMMA RewriteLogGood ==
  ASSUME Good, Keeps, NEW l \in Log, RewriteLog(l)
  PROVE  LogGoal /\ MetaGoal /\ CommitCovered'
<1>. USE DEF memory, metaBin, logsBin, tmpBin
<1>1. /\ pc = "idle" /\ pc' = "tmp-write" /\ memLog' = l /\ Len(l) >= memMeta.commitIndex
      /\ UNCHANGED <<memMeta, metaBin, logsBin>>
  BY DEF RewriteLog, Good, CallsSucceed
<1>2. /\ memLog \in Seq(Entry) /\ LogOutcomes = {memLog} /\ logs = memLog
      /\ memMeta.commitIndex <= Len(memLog) /\ memMeta.commitIndex \in Nat
      /\ l \in Seq(Entry) /\ Len(l) \in Nat
  BY <1>1, SeqDef DEF Good, TypeOK, LogsInv, MetaInv, Booting, MetaData, Log
<1>3. MetaGoal /\ MetaOutcomes' = {memMeta}
  BY <1>1, <1>2, MetaRests DEF InLogCall
<1>4. LogOutcomes' = {memLog}
  BY <1>1, <1>2 DEF Good, Keeps, OutcomesAre
<1>5. LogsInv'
  BY <1>1, <1>2, <1>4 DEF LogsInv, Booting, InMetaCall
<1>6. LogStore!Call(l)
  BY <1>1, <1>2, <1>4 DEF LogStore!Call, LogStore!Shift, Booting, InLogCall
<1>. QED  BY <1>2, <1>3, <1>4, <1>5, <1>6, Covered DEF LogGoal, LogStore!Next

LEMMA TmpGood ==
  ASSUME Good, Keeps, WriteTmp \/ SyncTmp
  PROVE  LogGoal /\ MetaGoal /\ CommitCovered'
<1>. USE DEF memory, metaBin, logsBin, tmpBin
<1>1. /\ pc \in {"tmp-write", "tmp-sync"} /\ pc' \in {"tmp-sync", "tmp-rename"}
      /\ UNCHANGED <<memory, metaBin, logsBin>>
  BY DEF WriteTmp, SyncTmp
<1>2. /\ logs \in Seq(Entry) /\ LogOutcomes = {logs} /\ MetaOutcomes = {memMeta}
      /\ memMeta.commitIndex <= Len(memLog)
  BY <1>1 DEF Good, LogsInv, MetaInv, InLogCall, Booting
<1>3. MetaGoal /\ MetaOutcomes' = {memMeta}
  BY <1>1, <1>2, MetaRests DEF InLogCall
<1>4. LogOutcomes' = {logs}
  BY <1>1, <1>2 DEF Good, Keeps, OutcomesAre
<1>5. pc' = "tmp-rename" => tmpStable' = Stable({memLog}) /\ faults' = faults
  BY <1>1 DEF WriteTmp, SyncTmp, Good, FilesInv, Keeps
<1>6. LogsInv'
  BY <1>1, <1>2, <1>4, <1>5 DEF LogsInv, Booting, InMetaCall, Stable
<1>7. UNCHANGED LogStore!vars
  <2>1. InLogCall = TRUE /\ InLogCall' = TRUE /\ ~Booting /\ ~Booting'
    BY <1>1 DEF InLogCall, Booting
  <2>. QED  BY <1>1, <1>2, <1>4, <2>1 DEF LogStore!vars
<1>8. memMeta.commitIndex <= Len(logs)
  BY <1>2 DEF Good, CommitCovered
<1>. QED  BY <1>3, <1>4, <1>6, <1>7, <1>8, Covered DEF LogGoal

LEMMA RenameTmpGood ==
  ASSUME Good, Keeps, RenameTmp
  PROVE  LogGoal /\ MetaGoal /\ CommitCovered'
<1>. USE DEF memory, metaBin, logsBin, tmpBin
<1>1. /\ pc = "tmp-rename" /\ pc' = "dir-sync" /\ logs' = memLog
      /\ logsStable' = Stable(logsStable \cup tmpStable) /\ tmpStable = Stable({memLog})
      /\ UNCHANGED <<memory, metaBin, tmpBin>>
  BY DEF RenameTmp, Good, FilesInv, LogsInv
<1>2. /\ memLog \in Seq(Entry) /\ ReadLog(memLog) = memLog /\ LogOutcomes = {logs}
      /\ MetaOutcomes = {memMeta} /\ memMeta.commitIndex <= Len(memLog)
  BY <1>1, ReadWhole DEF Good, TypeOK, LogsInv, MetaInv, InLogCall, Booting
<1>3. MetaGoal /\ MetaOutcomes' = {memMeta}
  BY <1>1, <1>2, MetaRests DEF InLogCall
<1>4. LogOutcomes' # {} /\ LogOutcomes' \subseteq {logs, memLog}
  <2>1. CASE "kill" \in faults
    BY <1>1, <1>2, <2>1 DEF Keeps, OutcomesAre
  <2>2. CASE "kill" \notin faults
    <3>1. logsStable' = logsStable \cup {memLog}
      BY <1>1, <2>2 DEF Good, OneCrash, Stable
    <3>2. LogOutcomes = {ReadLog(c) : c \in logsStable}
      BY <2>2 DEF Good, OutcomesAre
    <3>3. LogOutcomes' = {ReadLog(c) : c \in logsStable'}
      BY <2>2 DEF Keeps, OutcomesAre
    <3>. QED  BY <1>2, <3>1, <3>2, <3>3
  <2>. QED  BY <2>1, <2>2
<1>5. LogsInv'
  BY <1>1, <1>4 DEF LogsInv, Booting, InMetaCall, Keeps, Stable
<1>6. LogStore!Progress
  BY <1>1, <1>2, <1>4 DEF LogStore!Progress, LogStore!Shift, Booting, InLogCall
<1>7. memMeta.commitIndex <= Len(logs)
  BY <1>2 DEF Good, CommitCovered
<1>. QED  BY <1>2, <1>3, <1>4, <1>5, <1>6, <1>7, Covered DEF LogGoal, LogStore!Next

LEMMA SyncGood ==
  ASSUME Good, Keeps, SyncLog \/ SyncDir
  PROVE  LogGoal /\ MetaGoal /\ CommitCovered'
<1>. USE DEF memory, metaBin, logsBin, tmpBin
<1>1. /\ pc \in {"log-sync", "dir-sync"} /\ pc' = "idle" /\ logs = memLog /\ logs' = memLog
      /\ logsStable' = Stable({memLog}) /\ UNCHANGED <<memory, metaBin>>
  <2>1. Stable(Stable({memLog})) = Stable({memLog})
    BY DEF Stable
  <2>. QED  BY <2>1 DEF SyncLog, SyncDir, Good, LogsInv
<1>2. /\ memLog \in Seq(Entry) /\ ReadLog(memLog) = memLog
      /\ MetaOutcomes = {memMeta} /\ memMeta.commitIndex <= Len(memLog)
  BY <1>1, ReadWhole DEF Good, TypeOK, MetaInv, InLogCall, Booting
<1>3. MetaGoal /\ MetaOutcomes' = {memMeta}
  BY <1>1, <1>2, MetaRests DEF InLogCall
<1>4. LogOutcomes' = {memLog}
  BY <1>1, <1>2 DEF Good, Keeps, OutcomesAre, OneCrash, Stable
<1>5. LogsInv'
  BY <1>1, <1>4 DEF LogsInv, Booting, InMetaCall
<1>6. LogStore!Return
  BY <1>1, <1>4 DEF LogStore!Return, Booting, InLogCall
<1>. QED  BY <1>2, <1>3, <1>4, <1>5, <1>6, Covered DEF LogGoal, LogStore!Next

LEMMA LogCallGood ==
  ASSUME Good, Keeps, LogCall
  PROVE  LogGoal /\ MetaGoal /\ CommitCovered'
<1>1. ~ShortWrite
  BY DEF Good, CallsSucceed, ShortWrite
<1>. QED  BY <1>1, WriteLogGood, AppendRecordGood, RewriteLogGood, TmpGood, RenameTmpGood, SyncGood
          DEF LogCall

\* A crash leaves one of the outcomes of each file, and the next process reads it.
LEMMA CrashGood ==
  ASSUME Good, Keeps, CrashKill \/ CrashPower
  PROVE  LogGoal /\ MetaGoal /\ CommitCovered'
<1>. USE DEF memory, metaBin, logsBin, tmpBin
<1>1. pc' = "init"
  BY DEF CrashKill, CrashPower, Reboot
<1>2. Booting' /\ ~InLogCall' /\ ~InMetaCall'
      /\ pc' \notin {"truncate", "idle", "boot-meta", "meta-sync", "log-write", "log-sync",
                     "tmp-write", "tmp-sync", "tmp-rename", "dir-sync"}
  BY <1>1 DEF Booting, InLogCall, InMetaCall
<1>3. /\ ReadLog(logs') \in LogOutcomes /\ LogOutcomes' = {ReadLog(logs')}
      /\ ReadMeta(meta') \in MetaOutcomes /\ MetaOutcomes' = {ReadMeta(meta')}
  <2>1. CASE CrashKill
    <3>1. "kill" \in faults /\ logs' \in KillContents /\ meta' = meta
      BY <2>1 DEF CrashKill
    <3>. QED  BY <3>1 DEF Keeps, Good, OutcomesAre, LogOutcomes
  <2>2. CASE CrashPower
    <3>1. /\ "kill" \notin faults /\ "power" \in faults
          /\ logs' \in logsStable /\ logsStable' = {logs'}
          /\ meta' \in metaStable /\ metaStable' = {meta'}
      BY <2>2 DEF CrashPower, Good, OneCrash, Stable
    <3>. QED  BY <3>1 DEF Keeps, Good, OutcomesAre
  <2>. QED  BY <2>1, <2>2
<1>4. LogsInv' /\ MetaInv'
  BY <1>2, <1>3 DEF LogsInv, MetaInv
<1>5. LogStore!Crash
  BY <1>2, <1>3 DEF LogStore!Crash
<1>6. MetaStore!Crash
  BY <1>2, <1>3 DEF MetaStore!Crash
<1>7. CommitCovered'
  <2>1. \A m \in MetaOutcomes, l \in LogOutcomes : m.commitIndex <= Len(l)
    BY DEF Good, CommitCovered
  <2>. QED  BY <1>3, <2>1, Covered
<1>. QED  BY <1>4, <1>5, <1>6, <1>7 DEF LogGoal, MetaGoal, LogStore!Next, MetaStore!Next

\* recover() takes from the files what a crash before it left, and clips nothing.
LEMMA InitStorageGood ==
  ASSUME Good, Keeps, InitStorage
  PROVE  LogGoal /\ MetaGoal /\ CommitCovered'
<1>. USE DEF memory, metaBin, logsBin, tmpBin
<1>1. pc = "init" /\ pc' = "read" /\ UNCHANGED <<memory, logsBin, tmpBin>>
  BY DEF InitStorage
<1>2. /\ Booting /\ Booting' /\ InLogCall = FALSE /\ InLogCall' = FALSE
      /\ InMetaCall = FALSE /\ InMetaCall' = FALSE
      /\ pc' \notin {"truncate", "idle", "boot-meta", "meta-sync", "log-write", "log-sync",
                     "tmp-write", "tmp-sync", "tmp-rename", "dir-sync"}
  BY <1>1 DEF Booting, InLogCall, InMetaCall
<1>3. LogOutcomes = {ReadLog(logs)} /\ MetaOutcomes = {ReadMeta(meta)}
  BY <1>2 DEF Good, LogsInv, MetaInv
<1>4. LogOutcomes' = LogOutcomes /\ ReadLog(logs') = ReadLog(logs)
  BY <1>1 DEF Good, Keeps, OutcomesAre
<1>5. MetaOutcomes' = MetaOutcomes /\ ReadMeta(meta') = ReadMeta(meta)
  <2>1. CASE meta = Absent
    <3>1. meta' = Default /\ metaStable' = Stable({Default})
      BY <2>1 DEF InitStorage
    <3>2. ReadMeta(Default) = Default /\ ReadMeta(meta) = Default
      BY <2>1, Contents, MarkAssumption DEF ReadMeta
    <3>. QED  BY <1>3, <3>1, <3>2 DEF Good, Keeps, OutcomesAre, OneCrash, Stable
  <2>2. CASE meta # Absent
    BY <2>2 DEF InitStorage, Good, Keeps, OutcomesAre
  <2>. QED  BY <2>1, <2>2
<1>6. LogsInv' /\ MetaInv'
  BY <1>2, <1>3, <1>4, <1>5 DEF LogsInv, MetaInv
<1>7. UNCHANGED LogStore!vars /\ UNCHANGED MetaStore!vars
  BY <1>2, <1>4, <1>5 DEF LogStore!vars, MetaStore!vars
<1>8. CommitCovered'
  BY <1>4, <1>5, Covered DEF Good, CommitCovered
<1>. QED  BY <1>6, <1>7, <1>8 DEF LogGoal, MetaGoal

LEMMA ReadFilesGood ==
  ASSUME Good, Keeps, ReadFiles
  PROVE  LogGoal /\ MetaGoal /\ CommitCovered'
<1>. USE DEF memory, metaBin, logsBin, tmpBin
<1>1. /\ pc = "read" /\ UNCHANGED <<metaBin, logsBin, tmpBin>>
      /\ pc' = IF Len(logs) > Len(memLog') THEN "truncate" ELSE "boot-meta"
      /\ memLog' = ReadLog(logs) /\ memMeta' = Clipped(ReadMeta(meta), memLog')
  BY DEF ReadFiles, Good, CallsSucceed
<1>2. /\ Booting /\ ~Booting' /\ InLogCall = FALSE /\ InLogCall' = FALSE
      /\ InMetaCall = FALSE /\ InMetaCall' \in BOOLEAN /\ (pc' = "truncate" <=> ~InMetaCall')
      /\ pc' \notin {"idle", "meta-write", "meta-sync", "log-write", "log-sync",
                     "tmp-write", "tmp-sync", "tmp-rename", "dir-sync"}
  BY <1>1 DEF Booting, InLogCall, InMetaCall
<1>3. LogOutcomes = {memLog'} /\ MetaOutcomes = {ReadMeta(meta)}
  BY <1>1, <1>2 DEF Good, LogsInv, MetaInv
<1>4. LogOutcomes' = LogOutcomes /\ MetaOutcomes' = MetaOutcomes
  BY <1>1 DEF Good, Keeps, OutcomesAre
<1>5. /\ logs \in LogRecords /\ memLog' \in Seq(Entry) /\ Len(memLog') \in Nat
      /\ ReadMeta(meta) \in MetaData /\ ReadMeta(meta).commitIndex \in Nat
  <2>1. logs \in LogRecords /\ meta \in MetaData \cup {Torn, Absent}
    BY DEF Good, TypeOK
  <2>2. memLog' \in Seq(Entry) /\ ReadMeta(meta) \in MetaData
    BY <1>1, <2>1, Contents, ReadType
  <2>. QED  BY <2>1, <2>2 DEF MetaData
<1>6. ReadMeta(meta).commitIndex <= Len(memLog')
  BY <1>3 DEF Good, CommitCovered
<1>7. memMeta' = ReadMeta(meta)
  BY <1>1, <1>5, <1>6 DEF Clipped
<1>8. pc' = "boot-meta" => logs' = memLog'
  <2>1. SUFFICES ASSUME pc' = "boot-meta" PROVE logs = memLog'
    BY <1>1
  <2>2. Len(logs) <= Len(memLog') /\ Len(memLog') <= Len(logs) /\ Len(logs) \in Nat
    <3>1. ~(Len(logs) > Len(memLog'))
      BY <1>1, <2>1
    <3>2. Len(logs) \in Nat
      BY <1>5 DEF LogRecords
    <3>. QED  BY <1>1, <1>5, <3>1, <3>2, ReadType
  <2>3. SubSeq(logs, 1, Len(logs)) = memLog'
    BY <1>1, <1>5, <2>2, ReadRead
  <2>. QED  BY <1>5, <2>3, SubSeqFull DEF LogRecords
<1>9. LogsInv'
  BY <1>1, <1>2, <1>3, <1>4, <1>8 DEF LogsInv
<1>10. MetaInv'
  BY <1>2, <1>3, <1>4, <1>6, <1>7 DEF MetaInv
<1>11. UNCHANGED LogStore!vars
  BY <1>1, <1>2, <1>4 DEF LogStore!vars
<1>12. [MetaStore!Next]_(MetaStore!vars)
  <2>1. CASE pc' = "truncate"
    <3>1. InMetaCall' = FALSE
      BY <1>2, <2>1
    <3>. QED  BY <1>2, <1>4, <1>7, <3>1 DEF MetaStore!vars
  <2>2. CASE pc' # "truncate"
    <3>1. InMetaCall' = TRUE
      BY <1>2, <2>2
    <3>2. MetaStore!Call(memMeta')
      BY <1>2, <1>3, <1>4, <3>1 DEF MetaStore!Call, MetaStore!Shift
    <3>. QED  BY <1>5, <1>7, <3>2 DEF MetaStore!Next
  <2>. QED  BY <2>1, <2>2
<1>13. CommitCovered'
  BY <1>4, Covered DEF Good, CommitCovered
<1>. QED  BY <1>9, <1>10, <1>11, <1>12, <1>13 DEF LogGoal, MetaGoal

LEMMA TruncateLogFileGood ==
  ASSUME Good, Keeps, TruncateLogFile
  PROVE  LogGoal /\ MetaGoal /\ CommitCovered'
<1>. USE DEF memory, metaBin, logsBin, tmpBin
<1>1. /\ pc = "truncate" /\ pc' = "boot-meta" /\ UNCHANGED <<memory, metaBin, tmpBin>>
      /\ logs' = SubSeq(logs, 1, Len(memLog)) /\ logsStable' = Stable(logsStable \cup {logs'})
  BY DEF TruncateLogFile, Good, CallsSucceed
<1>2. /\ ~Booting /\ ~Booting' /\ InLogCall = FALSE /\ InLogCall' = FALSE
      /\ InMetaCall = FALSE /\ InMetaCall' = TRUE
  BY <1>1 DEF Booting, InLogCall, InMetaCall
<1>3. /\ memLog = ReadLog(logs) /\ LogOutcomes = {memLog} /\ MetaOutcomes = {memMeta}
      /\ memMeta.commitIndex <= Len(memLog) /\ logs \in LogRecords /\ memMeta \in MetaData
  BY <1>1, <1>2 DEF Good, TypeOK, LogsInv, MetaInv
<1>4. logs' = memLog /\ ReadLog(logs') = memLog
  BY <1>1, <1>3, ReadRead
<1>5. MetaOutcomes' = MetaOutcomes
  BY <1>1 DEF Good, Keeps, OutcomesAre
<1>6. LogOutcomes' = {memLog}
  <2>1. CASE "kill" \in faults
    BY <1>4, <2>1 DEF Keeps, OutcomesAre
  <2>2. CASE "kill" \notin faults
    <3>1. logsStable' = logsStable \cup {logs'}
      BY <1>1, <2>2 DEF Good, OneCrash, Stable
    <3>2. LogOutcomes = {ReadLog(c) : c \in logsStable} /\ LogOutcomes' = {ReadLog(c) : c \in logsStable'}
      BY <2>2 DEF Good, Keeps, OutcomesAre
    <3>. QED  BY <1>3, <1>4, <3>1, <3>2
  <2>. QED  BY <2>1, <2>2
<1>7. LogsInv'
  BY <1>1, <1>2, <1>4, <1>6 DEF LogsInv
<1>8. MetaInv'
  BY <1>1, <1>2, <1>3, <1>5 DEF MetaInv
<1>9. UNCHANGED LogStore!vars
  BY <1>1, <1>2, <1>3, <1>6 DEF LogStore!vars
<1>10. MetaStore!Call(memMeta)
  BY <1>1, <1>2, <1>3, <1>5 DEF MetaStore!Call, MetaStore!Shift
<1>11. CommitCovered'
  BY <1>3, <1>5, <1>6, Covered
<1>. QED  BY <1>3, <1>7, <1>8, <1>9, <1>10, <1>11 DEF LogGoal, MetaGoal, MetaStore!Next

-----------------------------------------------------------------------------
(* The files as stable stores *)

LEMMA GoodStep ==
  ASSUME Good, Keeps, Next
  PROVE  LogGoal /\ MetaGoal /\ CommitCovered'
<1>1. ASSUME NEW step, Fails(step) PROVE FALSE
  BY <1>1 DEF Fails, Good, CallsSucceed
<1>. QED  BY <1>1, MetaCallGood, LogCallGood, CrashGood, InitStorageGood, ReadFilesGood, TruncateLogFileGood
          DEF Next, Failure, Boot

LEMMA GoodStays ==
  ASSUME Good, TypeOK', UNCHANGED vars
  PROVE  LogGoal /\ MetaGoal /\ CommitCovered'
<1>. USE DEF vars, memory, metaBin, logsBin, tmpBin
<1>1. UNCHANGED <<LogOutcomes, MetaOutcomes, Booting, InLogCall, InMetaCall, ReadLog(logs), ReadMeta(meta)>>
  BY DEF LogOutcomes, MetaOutcomes, KillContents, Booting, InLogCall, InMetaCall
<1>2. LogsInv' /\ MetaInv' /\ CommitCovered'
  BY <1>1 DEF Good, LogsInv, MetaInv, CommitCovered, Stable
<1>3. UNCHANGED LogStore!vars /\ UNCHANGED MetaStore!vars
  BY <1>1 DEF LogStore!vars, MetaStore!vars
<1>. QED  BY <1>2, <1>3 DEF LogGoal, MetaGoal

\* What holds in every state, and shows that a step is one of the abstract stores.
StoreIInv == TypeOK /\ OneCrash /\ StoreInv

LEMMA StoreStep ==
  StoreIInv /\ [Next]_vars =>
    /\ StoreIInv'
    /\ CallsSucceed => [LogStore!Next]_(LogStore!vars) /\ [MetaStore!Next]_(MetaStore!vars)
<1>. SUFFICES ASSUME StoreIInv, [Next]_vars
              PROVE  /\ StoreIInv'
                     /\ CallsSucceed =>
                          [LogStore!Next]_(LogStore!vars) /\ [MetaStore!Next]_(MetaStore!vars)
  OBVIOUS
<1>1. faults' = faults
  BY DEF Next, vars
<1>2. TypeOK' /\ FilesInv'
  BY FilesTypes DEF StoreIInv, StoreInv
<1>3. OneCrash' /\ (CallsSucceed' <=> CallsSucceed)
  BY <1>1 DEF StoreIInv, OneCrash, CallsSucceed
<1>4. OutcomesAre /\ OutcomesAre'
  BY <1>2, <1>3, Outcomes, OutcomesAfter DEF StoreIInv
<1>5. CASE CallsSucceed
  <2>1. Good /\ Keeps
    BY <1>1, <1>2, <1>4, <1>5 DEF StoreIInv, StoreInv, Good, Keeps
  <2>2. LogGoal /\ MetaGoal /\ CommitCovered'
    BY <1>2, <2>1, GoodStep, GoodStays
  <2>. QED  BY <1>2, <1>3, <2>2 DEF LogGoal, MetaGoal, StoreIInv, StoreInv
<1>6. CASE ~CallsSucceed
  BY <1>2, <1>3, <1>6 DEF StoreIInv, StoreInv
<1>. QED  BY <1>5, <1>6

LEMMA StoreStart ==
  ASSUME OneKindOfCrash, Init
  PROVE  StoreIInv /\ LogStore!Init /\ MetaStore!Init
<1>1. TypeOK /\ FilesInv /\ OneCrash
  BY FilesStart DEF Init, OneKindOfCrash, OneCrash
<1>2. /\ pc = "init" /\ memMeta = Default /\ memLog = <<>> /\ meta = Absent
      /\ metaStable = Stable({Absent}) /\ logs = <<>> /\ logsStable = Stable({<<>>})
  BY DEF Init
<1>3. ReadLog(<<>>) = <<>> /\ ReadMeta(Absent) = Default
  BY Contents, ReadWhole DEF ReadMeta
<1>4. LogOutcomes = {<<>>} /\ MetaOutcomes = {Default}
  BY <1>1, <1>2, <1>3, Outcomes DEF OutcomesAre, OneCrash, Stable
<1>5. Booting /\ InLogCall = FALSE /\ InMetaCall = FALSE
      /\ pc \notin {"truncate", "idle", "boot-meta", "meta-sync", "log-write", "log-sync",
                    "tmp-write", "tmp-sync", "tmp-rename", "dir-sync"}
  BY <1>2 DEF Booting, InLogCall, InMetaCall
<1>6. LogsInv /\ MetaInv
  BY <1>2, <1>3, <1>4, <1>5 DEF LogsInv, MetaInv
<1>7. CommitCovered
  BY <1>4 DEF CommitCovered, Default
<1>. QED  BY <1>1, <1>2, <1>3, <1>4, <1>5, <1>6, <1>7
          DEF StoreIInv, StoreInv, LogStore!Init, MetaStore!Init

\* The invariant of the calls, for each kind of crash.
THEOREM StoreInvariant == OneKindOfCrash => (Spec => []StoreInv)
<1>. SUFFICES ASSUME OneKindOfCrash PROVE Spec => []StoreInv
  OBVIOUS
<1>1. Init => StoreIInv
  BY StoreStart
<1>2. StoreIInv => StoreInv
  BY DEF StoreIInv
<1>. QED  BY <1>1, <1>2, StoreStep, PTL DEF Spec

\* While calls succeed, no crash leaves a commit index past the log it leaves.
THEOREM CommitIsCovered == OneKindOfCrash => (Spec => []CommitCovered)
<1>. SUFFICES ASSUME OneKindOfCrash PROVE Spec => []CommitCovered
  OBVIOUS
<1>1. StoreInv => CommitCovered
  BY DEF StoreInv, CommitCovered
<1>. QED  BY <1>1, StoreInvariant, PTL

\* writelog, rewriteLog and recover() keep logs.bin as a stable store: a crash
\* leaves the log before the call or the one after it, and a call that returned
\* is not undone.
THEOREM LogIsStableStore == OneKindOfCrash => (Spec => LogIsStable)
<1>. SUFFICES ASSUME OneKindOfCrash PROVE Spec => LogIsStable
  OBVIOUS
<1>1. Init => StoreIInv /\ LogStore!Init
  BY StoreStart
<1>2. StoreIInv /\ [Next]_vars => StoreIInv' /\ [CallsSucceed => LogStore!Next]_(LogStore!vars)
  BY StoreStep
<1>. QED  BY <1>1, <1>2, PTL DEF Spec, LogIsStable

\* updateMetaData and recover() keep metadata.bin as one, but for the defaults
\* that a crash inside a call may leave.
THEOREM MetaIsStableStore == OneKindOfCrash => (Spec => MetaIsStable)
<1>. SUFFICES ASSUME OneKindOfCrash PROVE Spec => MetaIsStable
  OBVIOUS
<1>1. Init => StoreIInv /\ MetaStore!Init
  BY StoreStart
<1>2. StoreIInv /\ [Next]_vars => StoreIInv' /\ [CallsSucceed => MetaStore!Next]_(MetaStore!vars)
  BY StoreStep
<1>. QED  BY <1>1, <1>2, PTL DEF Spec, MetaIsStable
=============================================================================
