------------------------------- MODULE HashJob -------------------------------
(***************************************************************************)
(* The Hadoop job of hw5: the record reader of HashInputFormat, the mapper *)
(* and reducer of HadoopSort and the record writer of HashOutputFormat,    *)
(* with what they rely on in the framework: splits, tasks that are tried   *)
(* again when they fail, the shuffle, and the commit of what the last      *)
(* attempt of a reduce task wrote.                                         *)
(*                                                                         *)
(* A byte is <<nonce, place>>, its place in the record of that nonce; a    *)
(* record that is handed on is the position of its first byte in the       *)
(* input, which does not change while a job runs.                          *)
(***************************************************************************)
EXTENDS Integers, Sequences, FiniteSets

CONSTANTS
  Hash,           \* the BLAKE3 hash of every nonce
  RecordBytes,    \* 16
  BufferBytes,    \* 16384, of the reader and of the writer
  SplitBytes,     \* the block size of HDFS
  Parts,          \* the reduce tasks, 16
  PartOf,         \* HashPartitioner: the reduce task of every key
  MaxAttempts     \* bound: how often a task is tried, mapreduce.*.maxattempts

ASSUME JobAssumption ==
  /\ \A n \in DOMAIN Hash : Hash[n] \in Nat /\ PartOf[Hash[n]] \in Parts
  /\ RecordBytes \in Nat \ {0}
  /\ BufferBytes \in Nat \ {0} /\ BufferBytes % RecordBytes = 0
  /\ SplitBytes \in Nat \ {0} /\ SplitBytes % RecordBytes = 0
  /\ MaxAttempts \in Nat \ {0}

VARIABLES
  input,      \* the bytes of input/data.bin
  job,        \* "none", "map", "reduce", "succeeded" or "failed"
  reader,     \* the record reader of every split, its fields
  handed,     \* the records every map task has been handed, as positions
  task,       \* the attempts of every map task, and whether it is done
  writer,     \* the record writer of every reduce task, and its attempts
  output      \* the committed parts; empty when there is no directory output

jobVars == <<job, reader, handed, task, writer, output>>

Smaller(a, b) == IF a < b THEN a ELSE b

-----------------------------------------------------------------------------
(* Map tasks *)

Splits == 1 .. ((Len(input) + SplitBytes - 1) \div SplitBytes)

(* initialize, for the split of task t. *)
Initialized(t) ==
  [start_position   |-> (t - 1) * SplitBytes,
   end_position     |-> Smaller(t * SplitBytes, Len(input)),
   current_position |-> (t - 1) * SplitBytes,
   buffer_idx       |-> 0,
   buffer_length    |-> 0]

(* The job is submitted.  It is refused when there is no input, or when    *)
(* the directory output is there already.                                  *)
SubmitJob ==
  \/ /\ input # <<>> /\ DOMAIN output = {}
     /\ job' = "map"
     /\ reader' = [t \in Splits |-> Initialized(t)]
     /\ handed' = [t \in Splits |-> <<>>]
     /\ task' = [t \in Splits |-> [attempt |-> 1, done |-> FALSE]]
     /\ output' = [p \in Parts |-> <<>>]
     /\ UNCHANGED <<input, writer>>
  \/ /\ input = <<>> \/ DOMAIN output # {}
     /\ job' = "failed"
     /\ UNCHANGED <<input, reader, handed, task, writer, output>>

(* Where in the input the next byte of the buffer comes from. *)
Position(r) == r.current_position - (r.buffer_length - r.buffer_idx)

(* Variant: the rest of the last buffer is read again.                     *)
Refilled_Rewinds(r, n) ==
  [r EXCEPT !.buffer_idx = 0, !.buffer_length = n,
            !.current_position = r.start_position + n]

(* in.read returned n bytes at current_position. *)
Refilled(r, n) ==
  [r EXCEPT !.buffer_idx = 0, !.buffer_length = n, !.current_position = @ + n]

BytesToRead(r) == Smaller(r.end_position - r.current_position, BufferBytes)

(* The reader as nextKeyValue uses it: as it is, or after a read, which by *)
(* the contract of a positional read may return fewer bytes than asked for.*)
Filled(r) ==
  IF r.buffer_idx >= r.buffer_length
  THEN {Refilled(r, n) : n \in 1 .. BytesToRead(r)}
  ELSE {r}

AtEnd(r) == r.current_position >= r.end_position /\ r.buffer_idx >= r.buffer_length

HoldsRecord(r) == r.buffer_length - r.buffer_idx >= RecordBytes

MapRuns(t) == job = "map" /\ t \in DOMAIN task /\ ~task[t].done

(* nextKeyValue returns TRUE, and the mapper passes the record on under    *)
(* its hash.                                                               *)
NextRecord(t) ==
  /\ MapRuns(t) /\ ~AtEnd(reader[t])
  /\ \E r \in Filled(reader[t]) :
       /\ HoldsRecord(r)
       /\ handed' = [handed EXCEPT ![t] = Append(@, Position(r))]
       /\ reader' = [reader EXCEPT ![t] = [r EXCEPT !.buffer_idx = @ + RecordBytes]]
  /\ UNCHANGED <<input, job, task, writer, output>>

(* nextKeyValue returns FALSE: at the end of the split, or because a part  *)
(* of a record is left in the buffer, and the task is done.                *)
NoRecord(t) ==
  /\ MapRuns(t)
  /\ \/ AtEnd(reader[t]) /\ UNCHANGED reader
     \/ /\ ~AtEnd(reader[t])
        /\ \E r \in Filled(reader[t]) : ~HoldsRecord(r) /\ reader' = [reader EXCEPT ![t] = r]
  /\ task' = [task EXCEPT ![t].done = TRUE]
  /\ UNCHANGED <<input, job, handed, writer, output>>

(* A map task fails and is tried again with a new reader, or fails the job.*)
MapFails(t) ==
  /\ MapRuns(t)
  /\ \/ /\ task[t].attempt < MaxAttempts
        /\ task' = [task EXCEPT ![t].attempt = @ + 1]
        /\ reader' = [reader EXCEPT ![t] = Initialized(t)]
        /\ handed' = [handed EXCEPT ![t] = <<>>]
        /\ UNCHANGED job
     \/ /\ task[t].attempt = MaxAttempts
        /\ job' = "failed"
        /\ UNCHANGED <<task, reader, handed>>
  /\ UNCHANGED <<input, writer, output>>

-----------------------------------------------------------------------------
(* Shuffle and reduce tasks *)

(* The key is the hash, the first bytes of the record.  Where records are  *)
(* out of step it is some key, that of the record the first byte is of.    *)
KeyAt(position) == Hash[input[position + 1][1]]

Handed == UNION {{<<t, n>> : n \in DOMAIN handed[t]} : t \in DOMAIN handed}

PositionOf(h) == handed[h[1]][h[2]]

(* The shuffle brings a reduce task its records in the order of their keys.*)
ShuffledBefore(g, h) ==
  LET a == KeyAt(PositionOf(g))
      b == KeyAt(PositionOf(h))
  IN a < b \/ (a = b /\ (g[1] < h[1] \/ (g[1] = h[1] /\ g[2] < h[2])))

Shuffled(p) ==
  LET mine == {h \in Handed : PartOf[KeyAt(PositionOf(h))] = p} IN
  [n \in 1 .. Cardinality(mine) |->
     PositionOf(CHOOSE h \in mine : Cardinality({g \in mine : ShuffledBefore(g, h)}) = n - 1)]

(* getRecordWriter: every attempt has a file of its own.                   *)
NewWriter(p, attempt) ==
  [todo |-> Shuffled(p), buffer |-> <<>>, out |-> <<>>, attempt |-> attempt, done |-> FALSE]

StartReduce ==
  /\ job = "map" /\ \A t \in DOMAIN task : task[t].done
  /\ job' = "reduce"
  /\ writer' = [p \in Parts |-> NewWriter(p, 1)]
  /\ UNCHANGED <<input, reader, handed, task, output>>

ReduceRuns(p) == job = "reduce" /\ ~writer[p].done

(* Variant: the record that did not fit is forgotten.                      *)
Buffered_Drops(w, record) ==
  IF (Len(w.buffer) + 1) * RecordBytes > BufferBytes
  THEN [w EXCEPT !.out = @ \o w.buffer, !.buffer = <<>>]
  ELSE [w EXCEPT !.buffer = Append(@, record)]

(* write: a full buffer goes to the file first.                            *)
Buffered(w, record) ==
  IF (Len(w.buffer) + 1) * RecordBytes > BufferBytes
  THEN [w EXCEPT !.out = @ \o w.buffer, !.buffer = <<record>>]
  ELSE [w EXCEPT !.buffer = Append(@, record)]

WriteRecord(p) ==
  LET w == writer[p] IN
  /\ ReduceRuns(p) /\ w.todo # <<>>
  /\ writer' = [writer EXCEPT ![p] = [Buffered(w, Head(w.todo)) EXCEPT !.todo = Tail(w.todo)]]
  /\ UNCHANGED <<input, job, reader, handed, task, output>>

(* close writes the rest of the buffer; the framework then commits the file*)
CloseWriter(p) ==
  /\ ReduceRuns(p) /\ writer[p].todo = <<>>
  /\ writer' = [writer EXCEPT ![p].out = @ \o writer[p].buffer, ![p].buffer = <<>>, ![p].done = TRUE]
  /\ output' = [output EXCEPT ![p] = writer'[p].out]
  /\ UNCHANGED <<input, job, reader, handed, task>>

(* The file of the attempt that failed is discarded.                       *)
ReduceFails(p) ==
  /\ ReduceRuns(p)
  /\ \/ /\ writer[p].attempt < MaxAttempts
        /\ writer' = [writer EXCEPT ![p] = NewWriter(p, writer[p].attempt + 1)]
        /\ UNCHANGED job
     \/ /\ writer[p].attempt = MaxAttempts
        /\ job' = "failed"
        /\ UNCHANGED writer
  /\ UNCHANGED <<input, reader, handed, task, output>>

JobDone ==
  /\ job = "reduce" /\ \A p \in Parts : writer[p].done
  /\ job' = "succeeded"
  /\ UNCHANGED <<input, reader, handed, task, writer, output>>

(* What the cluster does of itself when nothing fails.                     *)
JobProgress ==
  \/ \E t \in DOMAIN task : NextRecord(t) \/ NoRecord(t)
  \/ StartReduce \/ JobDone
  \/ \E p \in Parts : WriteRecord(p) \/ CloseWriter(p)

JobFault == (\E t \in DOMAIN task : MapFails(t)) \/ (\E p \in Parts : ReduceFails(p))

=============================================================================
