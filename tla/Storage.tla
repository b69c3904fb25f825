------------------------------ MODULE Storage ------------------------------
(***************************************************************************)
(* The two files of storage.cpp, one system call at a time, with a crash   *)
(* between any two of them, and what recover() (server.cpp) makes of what  *)
(* it finds.  raft_mutex is held through every call, so one is under way   *)
(* at a time.                                                              *)
(*                                                                         *)
(* A file is what a read finds in it now, and next to it the set of        *)
(* contents a power failure may leave: fsync makes the two agree.  A       *)
(* killed process leaves what a read finds.  The .txt copies are never     *)
(* read and not modelled.                                                  *)
(***************************************************************************)
EXTENDS Naturals, Sequences

CONSTANTS
  Entry,        \* log entries
  Vote,         \* values of votedFor
  NoVote,
  Torn,         \* a file or a record of which only a part is there
  Absent,       \* metadata.bin before the first boot
  MaxLen,       \* bound: entries in the log
  MaxRecords,   \* bound: nothing is appended to a file of so many records
  Worlds        \* what may go wrong: sets of the faults below

\* The process is killed; the machine loses power; open, write, fsync, rename and
\* truncate may fail; readLogs may fail to open or read logs.bin.
Faults == {"kill", "power", "write", "read"}

ASSUME FaultAssumption == Worlds \subseteq SUBSET Faults
ASSUME ContentAssumption == Torn \notin Entry /\ NoVote \in Vote /\ {MaxLen, MaxRecords} \subseteq Nat

VARIABLES
  faults,                \* what may go wrong in this behaviour
  pc,                    \* the next system call, "idle" between calls
  memMeta, memLog,       \* metadata and log_entries
  meta, metaStable,      \* metadata.bin
  logs, logsStable,      \* logs.bin, a sequence of records
  tmp, tmpStable         \* logs.bin.tmp

memory  == <<memMeta, memLog>>
metaBin == <<meta, metaStable>>
logsBin == <<logs, logsStable>>
tmpBin  == <<tmp, tmpStable>>
vars == <<faults, pc, memory, metaBin, logsBin, tmpBin>>

-----------------------------------------------------------------------------
MetaData == [votedFor : Vote, commitIndex : 0..MaxLen]
ASSUME MarkAssumption == {Torn, Absent} \cap MetaData = {}

Default  == [votedFor |-> NoVote, commitIndex |-> 0]
Log      == UNION {[1..k -> Entry] : k \in 0..MaxLen}
Record   == Entry \cup {Torn}

\* getMetaData: the defaults unless the whole record is there.
ReadMeta(c) == IF c \in {Torn, Absent} THEN Default ELSE c

\* Mutant: the records are counted, and their CRCs not compared.
Valid_All(c) == Len(c)

\* readLogs: DeserializeLogEntry stops at the first record that is not whole.
Valid(c) ==
  CHOOSE k \in 0..Len(c) :
    (\A i \in 1..k : c[i] # Torn) /\ (k < Len(c) => c[k + 1] = Torn)
ReadLog(c) == SubSeq(c, 1, Valid(c))

\* What a write or a series of them may have left when the power fails.
Partial(c, new) ==
  {c \o SubSeq(new, 1, k) : k \in 0..Len(new)}
    \cup {Append(c \o SubSeq(new, 1, k), Torn) : k \in 0..Len(new) - 1}

\* Only a power failure tells the stable contents from what a read finds.
Stable(contents) == IF "power" \in faults THEN contents ELSE {}

Init ==
  /\ faults \in Worlds
  /\ pc = "init"
  /\ memMeta = Default /\ memLog = <<>>
  /\ meta = Absent /\ metaStable = Stable({Absent})
  /\ logs = <<>> /\ logsStable = Stable({<<>>})
  /\ tmp = <<>> /\ tmpStable = Stable({<<>>})

\* A call that fails returns false, and no caller looks at it.
Fails(step) ==
  /\ "write" \in faults
  /\ pc = step
  /\ pc' = "idle"
  /\ UNCHANGED <<memory, metaBin, logsBin, tmpBin>>

-----------------------------------------------------------------------------
(* updateMetaData *)

\* open(O_TRUNC) leaves an empty file.
TruncateMeta == meta' = Torn /\ metaStable' = Stable(metaStable \cup {Torn})

UpdateMetaData(m) ==
  /\ pc = "idle"
  /\ memMeta' = m
  /\ \/ pc' = "meta-write" /\ TruncateMeta
     \/ "write" \in faults /\ pc' = "idle" /\ UNCHANGED metaBin
  /\ UNCHANGED <<memLog, logsBin, tmpBin>>

WriteMeta ==
  /\ pc = "meta-write"
  /\ pc' = "meta-sync"
  /\ meta' = memMeta /\ metaStable' = Stable(metaStable \cup {memMeta})
  /\ UNCHANGED <<memory, logsBin, tmpBin>>

\* Mutant: updateMetaData without its fsync.
SyncMeta_Skipped ==
  /\ pc = "meta-sync"
  /\ pc' = "idle"
  /\ UNCHANGED <<memory, metaBin, logsBin, tmpBin>>

SyncMeta ==
  /\ pc = "meta-sync"
  /\ pc' = "idle"
  /\ metaStable' = Stable({meta})
  /\ UNCHANGED <<memory, meta, logsBin, tmpBin>>

-----------------------------------------------------------------------------
(* writelog *)

WriteLog(e) ==
  /\ pc = "idle"
  /\ Len(memLog) < MaxLen /\ Len(logs) < MaxRecords
  /\ memLog' = Append(memLog, e)
  /\ \/ pc' = "log-write"
     \/ "write" \in faults /\ pc' = "idle"
  /\ UNCHANGED <<memMeta, metaBin, logsBin, tmpBin>>

\* The record of the last entry at the end of the file (O_APPEND).
AppendRecord ==
  /\ pc = "log-write"
  /\ pc' = "log-sync"
  /\ logs' = Append(logs, memLog[Len(memLog)])
  /\ logsStable' = Stable(logsStable \cup Partial(logs, <<memLog[Len(memLog)]>>))
  /\ UNCHANGED <<memory, metaBin, tmpBin>>

\* A short write: the part that fitted stays in the file.
ShortWrite ==
  /\ "write" \in faults
  /\ pc = "log-write"
  /\ pc' = "idle"
  /\ logs' = Append(logs, Torn)
  /\ logsStable' = Stable(logsStable \cup {logs'})
  /\ UNCHANGED <<memory, metaBin, tmpBin>>

\* Mutant: writelog without its fsync.
SyncLog_Skipped ==
  /\ pc = "log-sync"
  /\ pc' = "idle"
  /\ UNCHANGED <<memory, metaBin, logsBin, tmpBin>>

SyncLog ==
  /\ pc = "log-sync"
  /\ pc' = "idle"
  /\ logsStable' = Stable({logs})
  /\ UNCHANGED <<memory, metaBin, logs, tmpBin>>

-----------------------------------------------------------------------------
(* rewriteLog *)

\* A follower's log after step 4 or 5 of handleAppendEntries: the committed
\* part is kept.
RewriteLog(l) ==
  /\ pc = "idle"
  /\ l # memLog
  /\ Len(l) >= memMeta.commitIndex
  /\ \A i \in 1..memMeta.commitIndex : l[i] = memLog[i]
  /\ memLog' = l
  /\ \/ pc' = "tmp-write" /\ tmp' = <<>> /\ tmpStable' = Stable({<<>>})
     \/ "write" \in faults /\ pc' = "idle" /\ UNCHANGED tmpBin
  /\ UNCHANGED <<memMeta, metaBin, logsBin>>

\* Mutant: the log is rewritten in place.
WriteTmp_InPlace ==
  /\ pc = "tmp-write"
  /\ pc' = "tmp-sync"
  /\ tmp' = memLog
  /\ logs' = <<>>
  /\ UNCHANGED <<memory, metaBin, logsStable, tmpStable>>

WriteTmp ==
  /\ pc = "tmp-write"
  /\ pc' = "tmp-sync"
  /\ tmp' = memLog
  /\ tmpStable' = Stable(Partial(<<>>, memLog))
  /\ UNCHANGED <<memory, metaBin, logsBin>>

SyncTmp ==
  /\ pc = "tmp-sync"
  /\ pc' = "tmp-rename"
  /\ tmpStable' = Stable({tmp})
  /\ UNCHANGED <<memory, metaBin, logsBin, tmp>>

\* rename: the name may survive a power failure or not, the content is that
\* of the new file.
RenameTmp ==
  /\ pc = "tmp-rename"
  /\ pc' = "dir-sync"
  /\ logs' = tmp /\ logsStable' = Stable(logsStable \cup tmpStable)
  /\ UNCHANGED <<memory, metaBin, tmpBin>>

\* fsync of the directory.
SyncDir ==
  /\ pc = "dir-sync"
  /\ pc' = "idle"
  /\ logsStable' = Stable(tmpStable)
  /\ tmp' = <<>> /\ tmpStable' = Stable({<<>>})
  /\ UNCHANGED <<memory, metaBin, logs>>

-----------------------------------------------------------------------------
(* Crash and recover() *)

\* A killed process may be inside the write of writelog.
KillContents ==
  {logs} \cup IF pc = "log-write" THEN {Append(logs, Torn)} ELSE {}

Reboot ==
  /\ pc' = "init"
  /\ memMeta' = Default /\ memLog' = <<>>
  /\ tmp' = <<>> /\ tmpStable' = Stable({<<>>})

CrashKill ==
  /\ "kill" \in faults
  /\ Reboot
  /\ logs' \in KillContents /\ logsStable' = Stable(logsStable \cup {logs'})
  /\ UNCHANGED metaBin

CrashPower ==
  /\ "power" \in faults
  /\ Reboot
  /\ logs' \in logsStable /\ logsStable' = Stable({logs'})
  /\ meta' \in metaStable /\ metaStable' = Stable({meta'})

\* initStorage.  A logs.bin that is not there reads like an empty one.
InitStorage ==
  /\ pc = "init"
  /\ pc' = "read"
  /\ IF meta = Absent THEN meta' = Default /\ metaStable' = Stable({Default})
     ELSE UNCHANGED metaBin
  /\ UNCHANGED <<memory, logsBin, tmpBin>>

Clipped(m, l) ==
  IF m.commitIndex > Len(l) THEN [m EXCEPT !.commitIndex = Len(l)] ELSE m

\* getMetaData and readLogs, and the size test; readLogs gives no entry and
\* zero valid bytes when it fails.
ReadFiles ==
  /\ pc = "read"
  /\ memLog' = ReadLog(logs) \/ ("read" \in faults /\ memLog' = <<>>)
  /\ memMeta' = Clipped(ReadMeta(meta), memLog')
  /\ pc' = IF Len(logs) > Len(memLog') THEN "truncate" ELSE "boot-meta"
  /\ UNCHANGED <<metaBin, logsBin, tmpBin>>

\* Mutant: the torn tail stays, and later records are appended behind it.
TruncateLogFile_Not ==
  /\ pc = "truncate"
  /\ pc' = "boot-meta"
  /\ UNCHANGED <<memory, metaBin, logsBin, tmpBin>>

TruncateLogFile ==
  /\ pc = "truncate"
  /\ pc' = "boot-meta"
  /\ \/ logs' = SubSeq(logs, 1, Len(memLog)) /\ logsStable' = Stable(logsStable \cup {logs'})
     \/ "write" \in faults /\ UNCHANGED logsBin
  /\ UNCHANGED <<memory, metaBin, tmpBin>>

\* The updateMetaData at the end of recover().
RecoverMeta ==
  /\ pc = "boot-meta"
  /\ pc' = "meta-write"
  /\ TruncateMeta
  /\ UNCHANGED <<memory, logsBin, tmpBin>>

-----------------------------------------------------------------------------
MetaCall == (\E m \in MetaData : m.commitIndex <= Len(memLog) /\ UpdateMetaData(m))
              \/ WriteMeta \/ SyncMeta
LogCall  == (\E e \in Entry : WriteLog(e)) \/ AppendRecord \/ ShortWrite \/ SyncLog
              \/ (\E l \in Log : RewriteLog(l)) \/ WriteTmp \/ SyncTmp \/ RenameTmp \/ SyncDir
Failure  == CrashKill \/ CrashPower
              \/ \E step \in {"meta-write", "meta-sync", "log-write", "log-sync", "tmp-write",
                              "tmp-sync", "tmp-rename", "dir-sync", "boot-meta"} : Fails(step)
Boot     == InitStorage \/ ReadFiles \/ TruncateLogFile \/ RecoverMeta

Next == (MetaCall \/ LogCall \/ Failure \/ Boot) /\ UNCHANGED faults

Spec == Init /\ [][Next]_vars

-----------------------------------------------------------------------------
(* Properties *)

\* What recover() would read after a crash now.
LogOutcomes ==
  {ReadLog(c) : c \in (IF "kill" \in faults THEN KillContents ELSE {}) \cup (IF "power" \in faults THEN logsStable ELSE {})}
MetaOutcomes ==
  {ReadMeta(c) : c \in (IF "kill" \in faults THEN {meta} ELSE {}) \cup (IF "power" \in faults THEN metaStable ELSE {})}

LogRecords == Seq(Record)

\* Every variable has the type of the file or field it models.
TypeOK ==
  /\ faults \in Worlds
  /\ pc \in {"idle", "init", "read", "truncate", "boot-meta", "meta-write", "meta-sync",
             "log-write", "log-sync", "tmp-write", "tmp-sync", "tmp-rename", "dir-sync"}
  /\ memMeta \in MetaData /\ memLog \in Seq(Entry)
  /\ meta \in MetaData \cup {Torn, Absent} /\ metaStable \subseteq MetaData \cup {Torn, Absent}
  /\ logs \in LogRecords /\ logsStable \subseteq LogRecords
  /\ tmp \in LogRecords /\ tmpStable \subseteq LogRecords

CallsSucceed == faults \cap {"write", "read"} = {}

\* While calls succeed, the commit index that a crash leaves never points past the
\* log that it leaves: recover() has nothing to clip, whatever became of the files.
CommitCovered ==
  CallsSucceed => \A m \in MetaOutcomes, l \in LogOutcomes : m.commitIndex <= Len(l)

\* Booting: memory is not read yet, and what counts is what will be.
Booting == pc \in {"init", "read"}
InLogCall == pc \in {"log-write", "log-sync", "tmp-write", "tmp-sync", "tmp-rename", "dir-sync"}
InMetaCall == pc \in {"boot-meta", "meta-write", "meta-sync"}

\* logs.bin is a stable store while calls succeed: whatever the crash, recover()
\* reads the log before the call or the one after it, and once a call has returned
\* it is the latter (storage.cpp:171, "a crash mid-write never leaves a half-written log").
LogStore == INSTANCE StableStore WITH
  Values <- Log, Initial <- <<>>, Lost <- {},
  value <- IF Booting THEN ReadLog(logs) ELSE memLog,
  outcomes <- LogOutcomes, busy <- InLogCall
LogIsStable == LogStore!Init /\ [][CallsSucceed => LogStore!Next]_(LogStore!vars)

\* metadata.bin is one too while calls succeed, but for a crash inside
\* updateMetaData, which may leave the defaults.
MetaStore == INSTANCE StableStore WITH
  Values <- MetaData, Initial <- Default, Lost <- {Default},
  value <- IF Booting THEN ReadMeta(meta) ELSE memMeta,
  outcomes <- MetaOutcomes, busy <- InMetaCall
MetaIsStable == MetaStore!Init /\ [][CallsSucceed => MetaStore!Next]_(MetaStore!vars)

\* Short of a power failure, whatever call fails or is cut off by a kill, the log
\* that can be read only grows or is replaced by the one in memory: rewriteLog
\* touches nothing before its rename, and a short write of writelog spoils no
\* record before it.
RecordsKept ==
  [][LET old == ReadLog(logs)  new == ReadLog(logs')
     IN  \/ "power" \in faults
         \/ new = memLog'
         \/ Len(new) >= Len(old) /\ SubSeq(new, 1, Len(old)) = old]_vars
=============================================================================
