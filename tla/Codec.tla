------------------------------- MODULE Codec -------------------------------
(***************************************************************************)
(* How commands, log entries and AppendEntries become bytes and are read   *)
(* back: command.cpp, log.cpp and rcp.cpp.  A cell stands for one field of *)
(* fixed width or for one character of a key or value; a CRC32 is the      *)
(* sequence of cells it was computed over.  Lengths of keys and values     *)
(* travel modulo LenMod (2^16).                                            *)
(***************************************************************************)
EXTENDS Naturals, Sequences

CONSTANT LenMod      \* one more than the largest length that fits its field

ASSUME LenModAssumption == LenMod \in Nat \ {0}

Cell(k, v) == [kind |-> k, val |-> v]
Text(kind, n) == [j \in 1..n |-> Cell(kind, j)]

-----------------------------------------------------------------------------
(* command.cpp *)

\* A PUT or DELETE as handlePut and handleDelete make it: key_len and value_len
\* are casts to u_int16_t, the strings are kept whole.
Command(op, key, value) ==
  [operation |-> op, key_len |-> Len(key) % LenMod, value_len |-> Len(value) % LenMod,
   key |-> key, value |-> value]

Serialize(c) ==
  <<Cell("op", c.operation), Cell("len", c.key_len), Cell("len", c.value_len)>>
    \o c.key \o c.value

\* Mutant: the two length fields change places.
Deserialize_Swapped(b) ==
  LET kl == b[3].val  vl == b[2].val
  IN  [operation |-> b[1].val, key_len |-> kl, value_len |-> vl,
       key |-> SubSeq(b, 4, 3 + kl), value |-> SubSeq(b, 4 + kl, 3 + kl + vl)]

Deserialize(b) ==
  LET kl == b[2].val  vl == b[3].val
  IN  [operation |-> b[1].val, key_len |-> kl, value_len |-> vl,
       key |-> SubSeq(b, 4, 3 + kl), value |-> SubSeq(b, 4 + kl, 3 + kl + vl)]

-----------------------------------------------------------------------------
(* log.cpp *)

SerializeLogEntry(e) ==
  LET b == <<Cell("term", e.term), Cell("index", e.index)>> \o Serialize(e.cmd)
  IN  Append(b, Cell("crc", b))

\* Term, index, operation, two lengths and the CRC: 25 bytes.
MinCells == 6

\* The cells of the record at pos, by its own length fields, without its CRC.
Covered(data, pos) == SubSeq(data, pos + 1, pos + 5 + data[pos + 4].val + data[pos + 5].val)

\* A whole record with its CRC at pos.
WholeAt(data, pos) ==
  LET end == pos + MinCells + data[pos + 4].val + data[pos + 5].val
  IN  /\ Len(data) >= end
      /\ data[end].kind = "crc" /\ data[end].val = Covered(data, pos)

\* Mutant: valid_bytes counts the record that was not whole.
Stopped_Past(data, pos) == Len(data)

\* Where the loop leaves valid_bytes: at the start of the record it stopped in.
Stopped(data, pos) == pos

\* One round of the loop, which stops at a record that is not whole.
ReadRecord(data, r) ==
  LET pos == r.valid_bytes
      b   == Covered(data, pos)
  IN  IF Len(data) < pos + MinCells \/ ~WholeAt(data, pos)
      THEN [r EXCEPT !.valid_bytes = Stopped(data, pos)]
      ELSE [logs |-> Append(r.logs, [term |-> b[1].val, index |-> b[2].val,
                                     cmd |-> Deserialize(SubSeq(b, 3, Len(b)))]),
            valid_bytes |-> pos + Len(b) + 1]

\* After each number of rounds; there are no more than cells.
Rounds(data) ==
  LET read[n \in 0..Len(data)] ==
        IF n = 0 THEN [logs |-> <<>>, valid_bytes |-> 0] ELSE ReadRecord(data, read[n - 1])
  IN  read
DeserializeLogEntry(data) == Rounds(data)[Len(data)]

\* The records of the first n entries, and of them all.
Records(es) ==
  LET written[n \in 0..Len(es)] ==
        IF n = 0 THEN <<>> ELSE written[n - 1] \o SerializeLogEntry(es[n])
  IN  written
SerializeAll(es) == Records(es)[Len(es)]

-----------------------------------------------------------------------------
(* rcp.cpp *)

\* Every entry of an AppendEntries is preceded by its length.
Frame(e) == <<Cell("size", Len(SerializeLogEntry(e)))>> \o SerializeLogEntry(e)
Frames(es) ==
  LET written[n \in 0..Len(es)] == IF n = 0 THEN <<>> ELSE written[n - 1] \o Frame(es[n])
  IN  written
Framed(es) == Frames(es)[Len(es)]

SerializeAppendEntriesArgs(a) ==
  <<Cell("term", a.term), Cell("leader", a.leaderId), Cell("prev", a.prevLogIndex),
    Cell("prevTerm", a.prevLogTerm), Cell("commit", a.leaderCommit),
    Cell("count", Len(a.entries))>> \o Framed(a.entries)

\* One entry is taken out of a body that has been read up to u.at; one that
\* cannot be parsed is left out, without a word.
Unframe(b, u) ==
  LET size   == b[u.at + 1].val
      parsed == DeserializeLogEntry(SubSeq(b, u.at + 2, u.at + 1 + size)).logs
  IN  IF Len(b) <= u.at \/ Len(b) < u.at + 1 + size THEN u
      ELSE [at |-> u.at + 1 + size,
            entries |-> IF parsed = <<>> THEN u.entries ELSE Append(u.entries, parsed[1])]

\* After each number of entries.
Unframings(b, count) ==
  LET taken[n \in 0..count] ==
        IF n = 0 THEN [at |-> 0, entries |-> <<>>] ELSE Unframe(b, taken[n - 1])
  IN  taken
Unframed(b, count) == Unframings(b, count)[count].entries

DeserializeAppendEntriesArgs(b) ==
  [term |-> b[1].val, leaderId |-> b[2].val, prevLogIndex |-> b[3].val,
   prevLogTerm |-> b[4].val, leaderCommit |-> b[5].val,
   entries |-> Unframed(SubSeq(b, 7, Len(b)), b[6].val)]

SerializeAppendEntriesReply(r) == <<Cell("term", r.term), Cell("success", r.success)>>
DeserializeAppendEntriesReply(b) == [term |-> b[1].val, success |-> b[2].val]

\* sendRpc: the header tells the length of the body.
Rpc(body) == <<Cell("header", Len(body))>> \o body

\* Mutant: the entries of a body may be missing.
RecvRpc_Partial(stream) ==
  stream # <<>> /\ (Len(stream) >= 1 + stream[1].val \/ Len(stream) > 6)

\* recvRpc: header and body arrive whole, or the call fails.
RecvRpc(stream) == stream # <<>> /\ Len(stream) >= 1 + stream[1].val
Body(stream) == Tail(stream)
=============================================================================
