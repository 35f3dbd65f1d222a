---------------------------- MODULE HadoopProofs ----------------------------
(***************************************************************************)
(* The record reader of the Hadoop job stays in step with the records of   *)
(* its split, for every size of records, buffers and splits, whatever the  *)
(* input holds, whatever a read returns and however often a task is tried; *)
(* a job that starts undisturbed gets the pieces the script has in mind;   *)
(* and the parts of a job that succeeds hold each record once, in order.   *)
(***************************************************************************)
EXTENDS HadoopCluster, FiniteSetTheorems, SequenceTheorems, TLAPS

Byte == Int \X Int

Reader ==
  [start_position : Int, end_position : Int, current_position : Int,
   buffer_idx : Int, buffer_length : Int]

(* A reader is where the records it has handed on end.  What is left in    *)
(* its buffer lies before the end of the split.                            *)
ReaderInStep(r, n) ==
  /\ Position(r) = r.start_position + n * RecordBytes
  /\ r.buffer_idx <= r.buffer_length
  /\ r.buffer_idx < r.buffer_length => r.current_position <= r.end_position

(* What a split's reader has handed on. *)
HandedInStep(r, h) ==
  \A n \in DOMAIN h :
    /\ h[n] = r.start_position + (n - 1) * RecordBytes
    /\ h[n] + RecordBytes <= r.end_position

TypeInv ==
  /\ input \in Seq(Byte) /\ data \in Seq(Byte)
  /\ i \in Nat \ {0}
  /\ DOMAIN reader \subseteq Int
  /\ reader \in [DOMAIN reader -> Reader]
  /\ handed \in [DOMAIN reader -> Seq(Int)]
  /\ DOMAIN task = DOMAIN reader

IInv ==
  /\ TypeInv
  /\ \A t \in DOMAIN reader :
       ReaderInStep(reader[t], Len(handed[t])) /\ HandedInStep(reader[t], handed[t])

-----------------------------------------------------------------------------
(* Integers and pieces *)

LEMMA ProductInt ==
  ASSUME NEW a \in Int, NEW b \in Int
  PROVE  a * b \in Int
  OBVIOUS

LEMMA ProductNat ==
  ASSUME NEW a \in Nat, NEW b \in Nat
  PROVE  a * b \in Nat
  OBVIOUS

LEMMA OneMore ==
  ASSUME NEW n \in Int, NEW b \in Int
  PROVE  (n + 1) * b = n * b + b
  OBVIOUS

LEMMA OneLess ==
  ASSUME NEW n \in Int, NEW b \in Int
  PROVE  b * (n - 1) = b * n - b
  OBVIOUS

(* A piece of the input is a sequence of bytes. *)
LEMMA PieceType ==
  ASSUME NEW n \in Nat \ {0}
  PROVE  Bytes(start_index(n), end_index(n)) \in Seq(Byte)
<1> DEFINE first == start_index(n)
           size == (end_index(n) - first) * RecordBytes
<1>1. RecordBytes \in Nat \ {0} /\ total_hash_count \in Nat \ {0}
  BY JobAssumption, ClusterAssumption
<1>2. first \in Int /\ end_index(n) \in Int /\ end_index(n) - first = total_hash_count
  <2>1. total_hash_count * (n - 1) = total_hash_count * n - total_hash_count
    BY <1>1, OneLess
  <2>2. total_hash_count * n \in Int /\ total_hash_count * (n - 1) \in Int
    BY <1>1, ProductInt
  <2> QED
    BY <1>1, <2>1, <2>2 DEF start_index, end_index
<1>3. size \in Nat
  BY <1>1, <1>2, ProductNat
<1>4. ASSUME NEW b \in 1 .. size
      PROVE  <<first + (b - 1) \div RecordBytes, (b - 1) % RecordBytes>> \in Byte
  <2> HIDE DEF first, size
  <2>1. (b - 1) \div RecordBytes \in Int /\ (b - 1) % RecordBytes \in Int
    BY <1>1, <1>3
  <2> QED
    BY <1>2, <2>1 DEF Byte
<1>5. Bytes(first, end_index(n)) \in [1 .. size -> Byte]
  BY <1>4 DEF Bytes
<1> QED
  <2> HIDE DEF first, size
  <2>1. \A m \in Nat : \A s \in [1 .. m -> Byte] : s \in Seq(Byte)
    OBVIOUS
  <2>2. Bytes(first, end_index(n)) \in Seq(Byte)
    BY <1>3, <1>5, <2>1
  <2> QED
    BY <2>2 DEF first

-----------------------------------------------------------------------------
(* The reader *)

(* A new reader has handed on nothing and is at the start of its split.    *)
LEMMA NewReader ==
  ASSUME NEW t \in Int, input \in Seq(Byte)
  PROVE  /\ Initialized(t) \in Reader
         /\ ReaderInStep(Initialized(t), 0)
<1>1. SplitBytes \in Nat /\ RecordBytes \in Nat
  BY JobAssumption
<1>2. (t - 1) * SplitBytes \in Int /\ t * SplitBytes \in Int /\ Len(input) \in Int
  BY <1>1, ProductInt
<1>3. Smaller(t * SplitBytes, Len(input)) \in Int
  BY <1>2 DEF Smaller
<1> QED
  BY <1>1, <1>2, <1>3 DEF Initialized, Reader, ReaderInStep, Position

(* What Refilled changes of a reader, and what it leaves. *)
LEMMA Refilling ==
  ASSUME NEW r \in Reader, NEW n \in Int, NEW s, s = Refilled(r, n)
  PROVE  /\ s \in Reader
         /\ s.buffer_idx = 0 /\ s.buffer_length = n
         /\ s.current_position = r.current_position + n
         /\ s.start_position = r.start_position /\ s.end_position = r.end_position
<1> DEFINE b == 0
           c == r.current_position + n
<1>1. b \in Int /\ c \in Int
  BY DEF Reader
<1>2. s = [r EXCEPT !.buffer_idx = b, !.buffer_length = n, !.current_position = c]
  BY DEF Refilled
<1> HIDE DEF b, c
<1>3. /\ s \in Reader
      /\ s.buffer_idx = b /\ s.buffer_length = n /\ s.current_position = c
      /\ s.start_position = r.start_position /\ s.end_position = r.end_position
  BY <1>1, <1>2 DEF Reader
<1> QED
  BY <1>3 DEF b, c

(* What handing on a record changes of a reader, and what it leaves. *)
LEMMA Skipping ==
  ASSUME NEW r \in Reader, NEW n \in Int, NEW s, s = [r EXCEPT !.buffer_idx = @ + n]
  PROVE  /\ s \in Reader
         /\ s.buffer_idx = r.buffer_idx + n
         /\ s.start_position = r.start_position /\ s.end_position = r.end_position
         /\ s.current_position = r.current_position /\ s.buffer_length = r.buffer_length
<1> DEFINE b == r.buffer_idx + n
<1>1. b \in Int
  BY DEF Reader
<1>2. s = [r EXCEPT !.buffer_idx = b]
  OBVIOUS
<1> HIDE DEF b
<1>3. /\ s \in Reader /\ s.buffer_idx = b
      /\ s.start_position = r.start_position /\ s.end_position = r.end_position
      /\ s.current_position = r.current_position /\ s.buffer_length = r.buffer_length
  BY <1>1, <1>2 DEF Reader
<1> QED
  BY <1>3 DEF b

(* A read moves the reader over no byte, and not past the split.           *)
LEMMA FilledInStep ==
  ASSUME NEW r \in Reader, NEW n \in Nat, ReaderInStep(r, n), NEW s \in Filled(r)
  PROVE  /\ s \in Reader /\ ReaderInStep(s, n)
         /\ s.start_position = r.start_position /\ s.end_position = r.end_position
<1>1. CASE r.buffer_idx >= r.buffer_length
  <2>1. PICK m \in 1 .. BytesToRead(r) : s = Refilled(r, m)
    BY <1>1 DEF Filled
  <2>2. BufferBytes \in Int
    BY JobAssumption
  <2>3. m \in Int /\ m <= r.end_position - r.current_position /\ m >= 1
    BY <2>1, <2>2 DEF BytesToRead, Smaller, Reader
  <2>4. /\ s.buffer_idx = 0 /\ s.buffer_length = m
        /\ s.current_position = r.current_position + m
        /\ s.start_position = r.start_position /\ s.end_position = r.end_position
        /\ s \in Reader
    BY <2>1, <2>3, Refilling
  <2>5. Position(s) = Position(r)
    BY <1>1, <2>3, <2>4 DEF Position, Reader, ReaderInStep
  <2> QED
    BY <2>3, <2>4, <2>5 DEF Reader, ReaderInStep
<1>2. CASE ~(r.buffer_idx >= r.buffer_length)
  BY <1>2 DEF Filled
<1> QED
  BY <1>1, <1>2

(* Handing on a record the buffer holds keeps the reader in step.          *)
LEMMA HandingOn ==
  ASSUME NEW r \in Reader, NEW h \in Seq(Int), HoldsRecord(r),
         ReaderInStep(r, Len(h)), HandedInStep(r, h),
         NEW s, s = [r EXCEPT !.buffer_idx = @ + RecordBytes],
         NEW g, g = Append(h, Position(r))
  PROVE  /\ s \in Reader /\ g \in Seq(Int)
         /\ ReaderInStep(s, Len(g)) /\ HandedInStep(s, g)
<1>1. RecordBytes \in Nat \ {0}
  BY JobAssumption
<1>2. /\ s \in Reader
      /\ s.start_position = r.start_position /\ s.end_position = r.end_position
      /\ s.current_position = r.current_position /\ s.buffer_length = r.buffer_length
      /\ s.buffer_idx = r.buffer_idx + RecordBytes
  BY <1>1, Skipping
<1>3. Position(r) \in Int /\ Position(s) = Position(r) + RecordBytes
  BY <1>1, <1>2 DEF Position, Reader
<1>4. /\ g \in Seq(Int) /\ Len(g) = Len(h) + 1 /\ Len(h) \in Nat
      /\ g[Len(h) + 1] = Position(r) /\ \A n \in DOMAIN h : g[n] = h[n]
      /\ DOMAIN g = 1 .. (Len(h) + 1) /\ DOMAIN h = 1 .. Len(h)
  BY <1>3
<1>5. ReaderInStep(s, Len(g))
  <2>1. (Len(h) + 1) * RecordBytes = Len(h) * RecordBytes + RecordBytes
    BY <1>1, <1>4, OneMore
  <2>2. Len(h) * RecordBytes \in Int
    BY <1>1, <1>4, ProductInt
  <2>3. Position(s) = s.start_position + Len(g) * RecordBytes
    BY <1>1, <1>2, <1>3, <1>4, <2>1, <2>2 DEF ReaderInStep, Reader
  <2>4. s.buffer_idx <= s.buffer_length /\ r.buffer_idx < r.buffer_length
    BY <1>1, <1>2 DEF HoldsRecord, Reader
  <2> QED
    BY <1>2, <2>3, <2>4 DEF ReaderInStep
<1>6. Position(r) + RecordBytes <= r.end_position
  BY <1>1 DEF HoldsRecord, Position, ReaderInStep, Reader
<1>7. HandedInStep(s, g)
  <2> SUFFICES ASSUME NEW n \in DOMAIN g
               PROVE  /\ g[n] = s.start_position + (n - 1) * RecordBytes
                      /\ g[n] + RecordBytes <= s.end_position
    BY DEF HandedInStep
  <2>1. CASE n \in DOMAIN h
    BY <1>2, <1>4, <2>1 DEF HandedInStep
  <2>2. CASE n = Len(h) + 1
    <3>1. n - 1 = Len(h)
      BY <1>4, <2>2
    <3> QED
      BY <1>2, <1>4, <1>6, <2>2, <3>1 DEF ReaderInStep
  <2> QED
    BY <1>4, <2>1, <2>2
<1> QED
  BY <1>2, <1>4, <1>5, <1>7

-----------------------------------------------------------------------------
(* The invariant *)

USE DEF IInv

LEMMA InitIInv == Init => IInv
<1> SUFFICES ASSUME Init PROVE IInv
  OBVIOUS
<1>1. <<>> \in Seq(Byte) /\ DOMAIN <<>> = {}
  OBVIOUS
<1>2. TypeInv
  BY <1>1 DEF Init, TypeInv
<1> QED
  BY <1>1, <1>2 DEF Init

(* One reader and what it has handed on change together. *)
LEMMA OneReader ==
  ASSUME IInv, NEW t \in DOMAIN reader, NEW r \in Reader, NEW h \in Seq(Int),
         ReaderInStep(r, Len(h)), HandedInStep(r, h),
         reader' = [reader EXCEPT ![t] = r], handed' = [handed EXCEPT ![t] = h],
         DOMAIN task' = DOMAIN task, UNCHANGED <<input, data, i>>
  PROVE  IInv'
<1>1. /\ reader' \in [DOMAIN reader -> Reader] /\ DOMAIN reader' = DOMAIN reader
      /\ handed' \in [DOMAIN reader -> Seq(Int)]
  BY DEF TypeInv
<1>2. TypeInv'
  BY <1>1 DEF TypeInv
<1>3. ASSUME NEW u \in DOMAIN reader
      PROVE  ReaderInStep(reader'[u], Len(handed'[u])) /\ HandedInStep(reader'[u], handed'[u])
  BY DEF TypeInv
<1> QED
  BY <1>1, <1>2, <1>3

LEMMA NextRecordIInv ==
  ASSUME IInv, UNCHANGED <<data, i>>, NEW t \in DOMAIN task, NextRecord(t)
  PROVE  IInv'
<1>1. t \in DOMAIN reader /\ reader[t] \in Reader /\ handed[t] \in Seq(Int)
  BY DEF TypeInv
<1>2. ReaderInStep(reader[t], Len(handed[t])) /\ HandedInStep(reader[t], handed[t])
  BY <1>1
<1>3. PICK r \in Filled(reader[t]) :
        /\ HoldsRecord(r)
        /\ handed' = [handed EXCEPT ![t] = Append(@, Position(r))]
        /\ reader' = [reader EXCEPT ![t] = [r EXCEPT !.buffer_idx = @ + RecordBytes]]
  BY DEF NextRecord
<1>4. /\ r \in Reader /\ ReaderInStep(r, Len(handed[t]))
      /\ r.start_position = reader[t].start_position
      /\ r.end_position = reader[t].end_position
  BY <1>1, <1>2, FilledInStep
<1>5. HandedInStep(r, handed[t])
  BY <1>2, <1>4 DEF HandedInStep
<1> DEFINE s == [r EXCEPT !.buffer_idx = @ + RecordBytes]
           g == Append(handed[t], Position(r))
<1>6. s \in Reader /\ g \in Seq(Int) /\ ReaderInStep(s, Len(g)) /\ HandedInStep(s, g)
  BY <1>1, <1>3, <1>4, <1>5, HandingOn
<1>7. handed' = [handed EXCEPT ![t] = g] /\ reader' = [reader EXCEPT ![t] = s]
  BY <1>3
<1>8. task' = task /\ UNCHANGED <<input, data, i>>
  BY DEF NextRecord
<1> QED
  <2> HIDE DEF s, g
  <2> QED
    BY <1>1, <1>6, <1>7, <1>8, OneReader

LEMMA NoRecordIInv ==
  ASSUME IInv, UNCHANGED <<data, i>>, NEW t \in DOMAIN task, NoRecord(t)
  PROVE  IInv'
<1>1. t \in DOMAIN reader /\ reader[t] \in Reader /\ handed[t] \in Seq(Int)
  BY DEF TypeInv
<1>2. ReaderInStep(reader[t], Len(handed[t])) /\ HandedInStep(reader[t], handed[t])
  BY <1>1
<1>3. DOMAIN task' = DOMAIN task /\ UNCHANGED <<input, handed, data, i>>
  BY DEF NoRecord
<1>4. PICK r \in {reader[t]} \cup Filled(reader[t]) : reader' = [reader EXCEPT ![t] = r]
  <2>1. CASE reader' = reader
    <3>1. reader' = [reader EXCEPT ![t] = reader[t]]
      BY <1>1, <2>1 DEF TypeInv
    <3> QED
      BY <3>1
  <2>2. CASE \E r \in Filled(reader[t]) : ~HoldsRecord(r) /\ reader' = [reader EXCEPT ![t] = r]
    BY <2>2
  <2> QED
    BY <2>1, <2>2 DEF NoRecord
<1>5. /\ r \in Reader /\ ReaderInStep(r, Len(handed[t]))
      /\ r.start_position = reader[t].start_position
      /\ r.end_position = reader[t].end_position
  BY <1>1, <1>2, <1>4, FilledInStep
<1>6. HandedInStep(r, handed[t])
  BY <1>2, <1>5 DEF HandedInStep
<1>7. handed' = [handed EXCEPT ![t] = handed[t]]
  BY <1>1, <1>3 DEF TypeInv
<1> QED
  BY <1>1, <1>3, <1>4, <1>5, <1>6, <1>7, OneReader

LEMMA MapFailsIInv ==
  ASSUME IInv, UNCHANGED <<data, i>>, NEW t \in DOMAIN task, MapFails(t)
  PROVE  IInv'
<1>1. t \in DOMAIN reader /\ t \in Int /\ input \in Seq(Byte)
  BY DEF TypeInv
<1>2. UNCHANGED <<input, data, i>> /\ DOMAIN task' = DOMAIN task
  BY DEF MapFails
<1>3. CASE UNCHANGED <<task, reader, handed>>
  BY <1>2, <1>3 DEF TypeInv
<1>4. CASE /\ reader' = [reader EXCEPT ![t] = Initialized(t)]
           /\ handed' = [handed EXCEPT ![t] = <<>>]
  <2>1. Initialized(t) \in Reader /\ ReaderInStep(Initialized(t), 0)
    BY <1>1, NewReader
  <2>2. <<>> \in Seq(Int) /\ Len(<<>>) = 0 /\ DOMAIN <<>> = {}
    OBVIOUS
  <2>3. HandedInStep(Initialized(t), <<>>)
    BY <2>2 DEF HandedInStep
  <2> QED
    BY <1>1, <1>2, <1>4, <2>1, <2>2, <2>3, OneReader
<1> QED
  BY <1>3, <1>4 DEF MapFails

LEMMA SubmitJobIInv ==
  ASSUME IInv, UNCHANGED <<data, i>>, SubmitJob
  PROVE  IInv'
<1>1. input \in Seq(Byte) /\ input' = input
  BY DEF TypeInv, SubmitJob
<1>2. CASE UNCHANGED <<reader, handed, task>>
  BY <1>1, <1>2 DEF TypeInv
<1>3. CASE /\ reader' = [t \in Splits |-> Initialized(t)]
           /\ handed' = [t \in Splits |-> <<>>]
           /\ task' = [t \in Splits |-> [attempt |-> 1, done |-> FALSE]]
  <2>1. Splits \subseteq Int
    BY DEF Splits
  <2>2. \A t \in Splits : Initialized(t) \in Reader /\ ReaderInStep(Initialized(t), 0)
    BY <1>1, <2>1, NewReader
  <2>3. <<>> \in Seq(Int) /\ Len(<<>>) = 0 /\ DOMAIN <<>> = {}
    OBVIOUS
  <2>4. TypeInv'
    BY <1>1, <1>3, <2>1, <2>2, <2>3 DEF TypeInv
  <2> QED
    BY <1>3, <2>2, <2>3, <2>4 DEF HandedInStep
<1> QED
  BY <1>2, <1>3 DEF SubmitJob

(* What no reader takes part in. *)
LEMMA OtherJobSteps ==
  ASSUME IInv, UNCHANGED <<input, data, i, reader, handed, task>>
  PROVE  IInv'
  BY DEF TypeInv

LEMMA ClusterIInv ==
  ASSUME IInv, JobProgress \/ JobFault, UNCHANGED scriptVars
  PROVE  IInv'
<1>1. UNCHANGED <<data, i>>
  BY DEF scriptVars
<1>2. ASSUME NEW t \in DOMAIN task, NextRecord(t) PROVE IInv'
  BY <1>1, <1>2, NextRecordIInv
<1>3. ASSUME NEW t \in DOMAIN task, NoRecord(t) PROVE IInv'
  BY <1>1, <1>3, NoRecordIInv
<1>4. ASSUME NEW t \in DOMAIN task, MapFails(t) PROVE IInv'
  BY <1>1, <1>4, MapFailsIInv
<1>5. CASE StartReduce \/ JobDone
  BY <1>1, <1>5, OtherJobSteps DEF StartReduce, JobDone
<1>6. ASSUME NEW p \in Parts, WriteRecord(p) \/ CloseWriter(p) \/ ReduceFails(p) PROVE IInv'
  BY <1>1, <1>6, OtherJobSteps DEF WriteRecord, CloseWriter, ReduceFails
<1> QED
  BY <1>2, <1>3, <1>4, <1>5, <1>6 DEF JobProgress, JobFault

(* The input and data.bin remain sequences of bytes. *)
LEMMA FilesIInv ==
  ASSUME IInv, UNCHANGED jobVars, input' \in Seq(Byte), data' \in Seq(Byte), i' \in Nat \ {0}
  PROVE  IInv'
  BY DEF TypeInv, jobVars

LEMMA CreateFilesIInv ==
  ASSUME IInv, CreateFiles
  PROVE  IInv'
<1> DEFINE piece == Bytes(start_index(i), end_index(i))
<1>1. piece \in Seq(Byte)
  BY PieceType DEF TypeInv
<1>2. UNCHANGED <<jobVars, input, i>>
  BY DEF CreateFiles
<1>3. data' \in Seq(Byte)
  <2> HIDE DEF piece
  <2>1. \A b \in 1 .. (Len(piece) - 1) : SubSeq(piece, 1, b) \in Seq(Byte)
    BY <1>1
  <2>2. data \in Seq(Byte)
    BY DEF TypeInv
  <2>3. \/ data' = piece \/ data' = data
        \/ \E b \in 1 .. (Len(piece) - 1) : data' = SubSeq(piece, 1, b)
    BY DEF CreateFiles, piece
  <2> QED
    BY <1>1, <2>1, <2>2, <2>3
<1> QED
  BY <1>2, <1>3, FilesIInv DEF TypeInv

LEMMA AppendToFileIInv ==
  ASSUME IInv, AppendToFile
  PROVE  IInv'
<1>1. input \in Seq(Byte) /\ data \in Seq(Byte)
  BY DEF TypeInv
<1>2. \A b \in 0 .. (Len(data) - 1) : SubSeq(data, 1, b) \in Seq(Byte)
  BY <1>1
<1>3. \E s \in Seq(Byte) : input' = input \o s
  BY <1>1, <1>2 DEF AppendToFile
<1>4. input' \in Seq(Byte)
  BY <1>1, <1>3
<1>5. UNCHANGED <<jobVars, data, i>>
  BY DEF AppendToFile
<1> QED
  BY <1>1, <1>4, <1>5, FilesIInv DEF TypeInv

LEMMA ScriptIInv ==
  ASSUME IInv, Script
  PROVE  IInv'
<1>1. i \in Nat \ {0} /\ input \in Seq(Byte) /\ data \in Seq(Byte) /\ <<>> \in Seq(Byte)
  BY DEF TypeInv
<1>2. CASE CreateFiles
  BY <1>2, CreateFilesIInv
<1>3. CASE AppendToFile
  BY <1>3, AppendToFileIInv
<1>4. CASE RemoveData
  BY <1>1, <1>4, FilesIInv DEF RemoveData
<1>5. CASE RunJob
  BY <1>5, SubmitJobIInv DEF RunJob
<1>6. CASE JobEnded
  <2>1. <<>> \in Seq(Byte) /\ DOMAIN <<>> = {}
    OBVIOUS
  <2> QED
    BY <1>1, <1>6, <2>1 DEF JobEnded, TypeInv
<1>7. CASE RemoveOutput
  BY <1>7, OtherJobSteps DEF RemoveOutput
<1>8. CASE RemoveInput
  <2>1. input' = <<>> \/ input' = input
    BY <1>8 DEF RemoveInput, InputRemoved
  <2>2. i' = 1 /\ data' = data /\ UNCHANGED jobVars
    BY <1>8 DEF RemoveInput
  <2>3. i' \in Nat \ {0}
    BY <2>2
  <2>4. input' \in Seq(Byte) /\ data' \in Seq(Byte)
    BY Zenon, <1>1, <2>1, <2>2
  <2> QED
    BY <2>2, <2>3, <2>4, FilesIInv
<1> QED
  BY <1>2, <1>3, <1>4, <1>5, <1>6, <1>7, <1>8 DEF Script

LEMMA NextIInv == IInv /\ [Next]_vars => IInv'
<1> SUFFICES ASSUME IInv, [Next]_vars PROVE IInv'
  OBVIOUS
<1>1. CASE Script
  BY <1>1, ScriptIInv
<1>2. CASE Cluster
  BY <1>2, ClusterIInv DEF Cluster
<1>3. CASE Fault
  <2>1. CASE Abort
    BY <2>1, FilesIInv DEF Abort, TypeInv
  <2> QED
    BY <1>3, <2>1, ClusterIInv DEF Fault
<1>4. CASE UNCHANGED vars
  BY <1>4, OtherJobSteps DEF vars, jobVars, scriptVars
<1> QED
  BY <1>1, <1>2, <1>3, <1>4 DEF Next, Ended

(* A map task is handed the records of its split in order, none twice and  *)
(* none left out, whatever reads return and however often it is tried      *)
(* (HashInputFormat.nextKeyValue).                                         *)
THEOREM ReaderStaysInStep == Spec => []InStep
<1>1. IInv => InStep
  BY DEF TypeInv, InStep, HandedInStep
<1> QED
  BY <1>1, InitIInv, NextIInv, PTL DEF Spec

-----------------------------------------------------------------------------
(* The measurement *)

(* The records of the first n pieces.                                      *)
Through(n) == Bytes(0, n * total_hash_count)

(* Without a disturbance the input holds the pieces that were appended and *)
(* data.bin the piece that is next; the job's directory is out of the way. *)
MeasureInv ==
  /\ pc # "running" => job = "none"
  /\ value \in Nat \ {0}
  /\ pc # "ended" => value <= Len(Values)
  /\ pc \in {"create", "append", "rm_data"} => i <= Values[value]
  /\ ~disturbed =>
       /\ pc \in {"create", "append"} => input = Through(i - 1)
       /\ pc = "append" => data = Bytes(start_index(i), end_index(i))
       /\ pc = "rm_data" => input = Through(i)
       /\ pc \in {"submit", "running"} => input = Through(Values[value])
       /\ pc \in {"create", "append", "rm_data", "submit", "rm_input"} => DOMAIN output = {}

LEMMA OneQuotient ==
  ASSUME NEW q \in Int, NEW r \in Int, NEW d \in Nat \ {0}, 0 <= r, r < d
  PROVE  (q * d + r) \div d = q /\ (q * d + r) % d = r
<1> DEFINE a == q * d + r
           e == a \div d
           s == a % d
<1>1. q * d \in Int /\ a \in Int
  BY ProductInt
<1>2. e \in Int /\ s \in Int /\ 0 <= s /\ s < d /\ a = e * d + s
  <2> HIDE DEF a
  <2> QED
    BY <1>1
<1> HIDE DEF e, s
<1>3. e * d \in Int /\ (e - q) * d = e * d - q * d
  BY <1>1, <1>2
<1>4. ~(e - q >= 1)
  <2> SUFFICES ASSUME e - q >= 1 PROVE FALSE
    OBVIOUS
  <2>1. (e - q) * d >= d
    BY <1>2
  <2> QED
    BY <1>1, <1>2, <1>3, <2>1
<1>5. ~(e - q <= -1)
  <2> SUFFICES ASSUME e - q <= -1 PROVE FALSE
    OBVIOUS
  <2>1. (e - q) * d <= -d
    BY <1>2
  <2> QED
    BY <1>1, <1>2, <1>3, <2>1
<1>6. e = q
  BY <1>2, <1>4, <1>5
<1>7. s = r
  BY <1>1, <1>2, <1>6
<1> QED
  BY <1>6, <1>7 DEF e, s

(* Bytes counted from a multiple of the record's size.                     *)
LEMMA Shifted ==
  ASSUME NEW m \in Nat, NEW x \in Nat, NEW d \in Nat \ {0}
  PROVE  (m * d + x) \div d = m + x \div d /\ (m * d + x) % d = x % d
<1> DEFINE q == x \div d
           r == x % d
<1>1. q \in Int /\ r \in Int /\ 0 <= r /\ r < d /\ x = q * d + r
  OBVIOUS
<1> HIDE DEF q, r
<1>2. m * d + x = (m + q) * d + r
  BY <1>1
<1>3. ((m + q) * d + r) \div d = m + q /\ ((m + q) * d + r) % d = r
  BY <1>1, OneQuotient, m + q \in Int
<1> QED
  BY <1>2, <1>3 DEF q, r

(* What Bytes gives: so many bytes, and which.                             *)
LEMMA BytesAre ==
  ASSUME NEW m \in Nat, NEW n \in Nat, m <= n
  PROVE  /\ Bytes(m, n) \in Seq(Byte)
         /\ (n - m) * RecordBytes \in Nat
         /\ Len(Bytes(m, n)) = (n - m) * RecordBytes
         /\ \A b \in 1 .. ((n - m) * RecordBytes) :
              Bytes(m, n)[b] = <<m + (b - 1) \div RecordBytes, (b - 1) % RecordBytes>>
<1> DEFINE size == (n - m) * RecordBytes
           f(b) == <<m + (b - 1) \div RecordBytes, (b - 1) % RecordBytes>>
<1>1. RecordBytes \in Nat \ {0}
  BY JobAssumption
<1>2. size \in Nat
  BY <1>1, ProductNat, n - m \in Nat
<1>3. Bytes(m, n) = [b \in 1 .. size |-> f(b)]
  BY DEF Bytes
<1> HIDE DEF size
<1>4. ASSUME NEW b \in 1 .. size PROVE f(b) \in Byte
  <2>1. b - 1 \in Nat
    BY <1>2
  <2>2. (b - 1) \div RecordBytes \in Int /\ (b - 1) % RecordBytes \in Int
    BY <1>1, <2>1
  <2> QED
    BY <2>2 DEF Byte
<1> HIDE DEF f
<1>5. Bytes(m, n) \in Seq(Byte) /\ Len(Bytes(m, n)) = size
  BY <1>2, <1>3, <1>4
<1>6. \A b \in 1 .. size : Bytes(m, n)[b] = f(b)
  BY <1>3
<1> QED
  BY <1>2, <1>5, <1>6 DEF size, f

(* A piece appended to the pieces before it.                               *)
LEMMA PiecesJoin ==
  ASSUME NEW n \in Nat \ {0}
  PROVE  Through(n - 1) \o Bytes(start_index(n), end_index(n)) = Through(n)
<1> DEFINE m == start_index(n)
           l == end_index(n)
           R == RecordBytes
<1>1. R \in Nat \ {0} /\ total_hash_count \in Nat \ {0}
  BY JobAssumption, ClusterAssumption
<1>2. /\ m \in Nat /\ l \in Nat /\ m <= l
      /\ (n - 1) * total_hash_count = m /\ n * total_hash_count = l
  <2>1. total_hash_count * (n - 1) = total_hash_count * n - total_hash_count
    BY <1>1, OneLess
  <2>2. total_hash_count * n \in Nat /\ total_hash_count * (n - 1) \in Nat
    BY <1>1, ProductNat, n - 1 \in Nat
  <2>3. /\ (n - 1) * total_hash_count = total_hash_count * (n - 1)
        /\ n * total_hash_count = total_hash_count * n
    BY <1>1
  <2> QED
    BY <1>1, <2>1, <2>2, <2>3 DEF start_index, end_index
<1> HIDE DEF m, l, R
<1>3. Through(n - 1) = Bytes(0, m) /\ Through(n) = Bytes(0, l)
  BY <1>2 DEF Through
<1>4. /\ Bytes(0, m) \in Seq(Byte) /\ Bytes(m, l) \in Seq(Byte) /\ Bytes(0, l) \in Seq(Byte)
      /\ Len(Bytes(0, m)) = m * R /\ Len(Bytes(m, l)) = (l - m) * R
      /\ Len(Bytes(0, l)) = l * R
      /\ m * R \in Nat /\ l * R \in Nat /\ (l - m) * R \in Nat
      /\ \A b \in 1 .. (m * R) : Bytes(0, m)[b] = <<0 + (b - 1) \div R, (b - 1) % R>>
      /\ \A b \in 1 .. (l * R) : Bytes(0, l)[b] = <<0 + (b - 1) \div R, (b - 1) % R>>
      /\ \A b \in 1 .. ((l - m) * R) : Bytes(m, l)[b] = <<m + (b - 1) \div R, (b - 1) % R>>
  <2>1. m - 0 = m /\ l - 0 = l /\ 0 <= m /\ 0 <= l
    BY <1>2
  <2>2. /\ Bytes(0, m) \in Seq(Byte) /\ (m - 0) * R \in Nat
        /\ Len(Bytes(0, m)) = (m - 0) * R
        /\ \A b \in 1 .. ((m - 0) * R) : Bytes(0, m)[b] = <<0 + (b - 1) \div R, (b - 1) % R>>
    BY <1>2, <2>1, BytesAre DEF R
  <2>3. /\ Bytes(0, l) \in Seq(Byte) /\ (l - 0) * R \in Nat
        /\ Len(Bytes(0, l)) = (l - 0) * R
        /\ \A b \in 1 .. ((l - 0) * R) : Bytes(0, l)[b] = <<0 + (b - 1) \div R, (b - 1) % R>>
    BY <1>2, <2>1, BytesAre DEF R
  <2>4. /\ Bytes(m, l) \in Seq(Byte) /\ (l - m) * R \in Nat
        /\ Len(Bytes(m, l)) = (l - m) * R
        /\ \A b \in 1 .. ((l - m) * R) : Bytes(m, l)[b] = <<m + (b - 1) \div R, (b - 1) % R>>
    BY <1>2, BytesAre DEF R
  <2> QED
    BY <2>1, <2>2, <2>3, <2>4
<1>5. m * R + (l - m) * R = l * R
  BY <1>1, <1>2
<1> DEFINE joined == Bytes(0, m) \o Bytes(m, l)
<1>6. /\ joined \in Seq(Byte) /\ Len(joined) = l * R
      /\ \A b \in 1 .. (l * R) :
           joined[b] = IF b <= m * R THEN Bytes(0, m)[b] ELSE Bytes(m, l)[b - m * R]
  BY <1>4, <1>5
<1> HIDE DEF joined
<1>7. ASSUME NEW b \in 1 .. (l * R) PROVE joined[b] = Bytes(0, l)[b]
  <2>1. CASE b <= m * R
    <3>1. b \in 1 .. (m * R)
      BY <1>4, <2>1
    <3> QED
      BY <1>4, <1>6, <2>1, <3>1
  <2>2. CASE ~(b <= m * R)
    <3> DEFINE x == b - m * R - 1
    <3>1. x \in Nat /\ b - m * R \in 1 .. ((l - m) * R) /\ b - m * R - 1 = x
          /\ b - 1 = m * R + x
      BY <1>4, <1>5, <2>2
    <3> HIDE DEF x
    <3>2. (m * R + x) \div R = m + x \div R /\ (m * R + x) % R = x % R
      <4>1. m \in Nat /\ x \in Nat /\ R \in Nat \ {0}
        BY <1>1, <1>2, <3>1
      <4> QED
        BY Zenon, <4>1, Shifted
    <3>3. joined[b] = <<m + x \div R, x % R>>
      BY <1>4, <1>6, <2>2, <3>1
    <3>4. Bytes(0, l)[b] = <<0 + (m * R + x) \div R, (m * R + x) % R>>
      BY <1>4, <3>1
    <3>5. m + x \div R \in Int
      BY <1>1, <1>2, <3>1
    <3> QED
      BY <3>2, <3>3, <3>4, <3>5
  <2> QED
    BY <2>1, <2>2
<1>8. joined = Bytes(0, l)
  BY <1>4, <1>6, <1>7
<1> QED
  BY <1>3, <1>8 DEF joined, m, l

LEMMA NoPiece == Through(0) = <<>>
<1>1. total_hash_count \in Nat /\ 0 * total_hash_count = 0
  BY ClusterAssumption
<1>2. Through(0) = Bytes(0, 0)
  BY <1>1 DEF Through
<1>3. (0 - 0) * RecordBytes = 0 /\ RecordBytes \in Nat
  BY JobAssumption
<1>4. Bytes(0, 0) \in Seq(Byte) /\ Len(Bytes(0, 0)) = 0
  BY <1>3, BytesAre
<1> QED
  BY <1>2, <1>4

LEMMA InitMeasure == Init => MeasureInv
<1> SUFFICES ASSUME Init PROVE MeasureInv
  OBVIOUS
<1>1. /\ pc = "create" /\ value = 1 /\ i = 1 /\ job = "none" /\ input = <<>>
      /\ DOMAIN output = {}
  BY DEF Init
<1>2. Len(Values) \in Nat \ {0} /\ Values[1] \in Nat \ {0}
  BY ClusterAssumption
<1>3. input = Through(i - 1)
  BY <1>1, NoPiece
<1> QED
  BY <1>1, <1>2, <1>3 DEF MeasureInv

(* The size that is measured.                                              *)
LEMMA SizeMeasured ==
  ASSUME MeasureInv, pc # "ended"
  PROVE  value \in 1 .. Len(Values) /\ Values[value] \in Nat \ {0}
<1>1. Len(Values) \in Nat
  BY ClusterAssumption
<1>2. value \in 1 .. Len(Values)
  BY <1>1 DEF MeasureInv
<1> QED
  BY <1>2, ClusterAssumption

(* The commands that make one piece of the input.                          *)
LEMMA PieceMeasure ==
  ASSUME IInv, MeasureInv, CreateFiles \/ AppendToFile \/ RemoveData
  PROVE  MeasureInv'
<1>1. i \in Nat \ {0} /\ pc # "ended"
  BY DEF TypeInv, CreateFiles, AppendToFile, RemoveData
<1>2. Values[value] \in Nat \ {0}
  BY <1>1, SizeMeasured
<1>3. CASE CreateFiles
  <2>1. /\ pc = "create" /\ pc' = "append" /\ UNCHANGED <<input, job, output, value, i>>
        /\ ~disturbed' => ~disturbed /\ data' = Bytes(start_index(i), end_index(i))
    BY <1>3 DEF CreateFiles, Undisturbed, Disturbed, jobVars
  <2>2. Through(i - 1)' = Through(i - 1)
    BY <2>1 DEF Through, Bytes
  <2>3. Bytes(start_index(i), end_index(i))' = Bytes(start_index(i), end_index(i))
    BY <2>1 DEF Bytes, start_index, end_index
  <2> QED
    BY <2>1, <2>2, <2>3 DEF MeasureInv
<1>4. CASE AppendToFile
  <2>1. /\ pc = "append" /\ pc' = "rm_data" /\ UNCHANGED <<job, output, value, i>>
        /\ ~disturbed' => ~disturbed /\ input' = input \o data
    BY <1>4 DEF AppendToFile, Undisturbed, Disturbed, jobVars
  <2>2. ~disturbed' => input' = Through(i)
    BY <1>1, <2>1, PiecesJoin DEF MeasureInv
  <2>3. Through(i)' = Through(i)
    BY <2>1 DEF Through, Bytes
  <2> QED
    BY <2>1, <2>2, <2>3 DEF MeasureInv
<1>5. CASE RemoveData
  <2>1. /\ pc = "rm_data" /\ i' = i + 1 /\ UNCHANGED <<input, job, output, value, disturbed>>
        /\ \/ i + 1 <= Values[value] /\ pc' = "create"
           \/ ~(i + 1 <= Values[value]) /\ pc' = "submit"
    BY <1>5 DEF RemoveData, jobVars
  <2>2. i <= Values[value] /\ (~disturbed => input = Through(i))
    BY <2>1 DEF MeasureInv
  <2>3. Through(i' - 1) = Through(i)
    BY <1>1, <2>1
  <2>4. CASE pc' = "create"
    <3>1. i' <= Values[value]
      BY <2>1, <2>4
    <3>2. ~disturbed' => input' = Through(i - 1)'
      BY <2>1, <2>2, <2>3 DEF Through, Bytes
    <3> QED
      BY <2>1, <2>4, <3>1, <3>2 DEF MeasureInv
  <2>5. CASE pc' = "submit"
    <3>1. i = Values[value]
      BY <1>1, <1>2, <2>1, <2>2, <2>5
    <3>2. ~disturbed' => input' = Through(Values[value])'
      BY <2>1, <2>2, <3>1 DEF Through, Bytes
    <3> QED
      BY <2>1, <2>5, <3>2 DEF MeasureInv
  <2> QED
    BY <2>1, <2>4, <2>5
<1> QED
  BY <1>3, <1>4, <1>5

(* The job and the clean-up.                                               *)
LEMMA JobMeasure ==
  ASSUME IInv, MeasureInv, RunJob \/ JobEnded \/ RemoveOutput \/ RemoveInput \/ Abort
  PROVE  MeasureInv'
<1>1. value \in Nat \ {0} /\ Len(Values) \in Nat /\ Len(Values) >= 1
  BY ClusterAssumption DEF MeasureInv
<1>2. CASE RunJob
  <2>1. pc = "submit" /\ pc' = "running" /\ UNCHANGED <<input, value, i, data, disturbed>>
    BY <1>2 DEF RunJob, SubmitJob
  <2> QED
    BY <2>1 DEF MeasureInv, Through, Bytes
<1>3. CASE JobEnded
  <2>1. pc = "running" /\ pc' = "rm_output" /\ job' = "none" /\ UNCHANGED value
    BY <1>3 DEF JobEnded
  <2> QED
    BY <2>1 DEF MeasureInv
<1>4. CASE RemoveOutput
  <2>1. /\ pc = "rm_output" /\ pc' = "rm_input" /\ UNCHANGED <<job, value>>
        /\ ~disturbed' => DOMAIN output' = {}
    BY <1>4 DEF RemoveOutput, Undisturbed, Disturbed
  <2> QED
    BY <2>1 DEF MeasureInv
<1>5. CASE RemoveInput
  <2>1. /\ pc = "rm_input" /\ UNCHANGED <<job, output>> /\ value' = value + 1 /\ i' = 1
        /\ ~disturbed' => input' = <<>> /\ DOMAIN output = {}
        /\ \/ value + 1 <= Len(Values) /\ pc' = "create"
           \/ ~(value + 1 <= Len(Values)) /\ pc' = "ended"
    BY <1>5 DEF RemoveInput, InputRemoved, NextValue, Disturbed, jobVars
  <2>2. CASE pc' = "ended"
    BY <1>1, <2>1, <2>2 DEF MeasureInv
  <2>3. CASE value + 1 <= Len(Values) /\ pc' = "create"
    <3>1. value' \in 1 .. Len(Values) /\ value' \in Nat \ {0}
      BY <1>1, <2>1, <2>3
    <3>2. Values[value'] \in Nat \ {0}
      BY <3>1, ClusterAssumption
    <3>3. i' <= Values[value'] /\ i' - 1 = 0
      BY <2>1, <3>2
    <3>4. Through(i - 1)' = <<>>
      BY <3>3, NoPiece DEF Through, Bytes
    <3> QED
      BY <2>1, <2>3, <3>1, <3>3, <3>4 DEF MeasureInv
  <2> QED
    BY <2>1, <2>2, <2>3
<1>6. CASE Abort
  <2>1. pc # "running" /\ pc' = "create" /\ disturbed' /\ value' = 1 /\ i' = 1 /\ UNCHANGED job
    BY <1>6 DEF Abort, Disturbed, jobVars
  <2>2. Values[1] \in Nat \ {0}
    BY <1>1, ClusterAssumption
  <2> QED
    BY <1>1, <2>1, <2>2 DEF MeasureInv
<1> QED
  BY <1>2, <1>3, <1>4, <1>5, <1>6

LEMMA NextMeasure == IInv /\ MeasureInv /\ [Next]_vars => MeasureInv'
<1> SUFFICES ASSUME IInv, MeasureInv, [Next]_vars PROVE MeasureInv'
  OBVIOUS
<1>1. CASE Script \/ Abort
  BY <1>1, PieceMeasure, JobMeasure DEF Script
<1>2. CASE Cluster \/ (JobFault /\ UNCHANGED scriptVars)
  <2>1. UNCHANGED <<pc, value, i, data, disturbed>>
    BY <1>2 DEF Cluster, scriptVars
  <2>2. job # "none" /\ UNCHANGED input
    BY <1>2 DEF Cluster, JobProgress, JobFault, NextRecord, NoRecord, MapFails, MapRuns,
       StartReduce, JobDone, WriteRecord, CloseWriter, ReduceFails, ReduceRuns
  <2>3. pc = "running"
    BY <2>2 DEF MeasureInv
  <2> QED
    BY <2>1, <2>2, <2>3 DEF MeasureInv, Through, Bytes
<1>3. CASE UNCHANGED vars
  <2>1. UNCHANGED <<pc, value, i, data, disturbed, job, input, output>>
    BY <1>3 DEF vars, jobVars, scriptVars
  <2> QED
    BY <2>1 DEF MeasureInv, Through, Bytes, start_index, end_index
<1> QED
  BY <1>1, <1>2, <1>3 DEF Next, Fault, Ended

(* A measurement nothing disturbed since the last complete clean-up gives  *)
(* the job exactly the pieces it is about, for all sizes of records and    *)
(* pieces and all lists of sizes, whatever failed before                   *)
(* (run_hadoop_cluster1.sh, create_files.c).                               *)
THEOREM ScriptMeasures == Spec => []MeasuresValue
<1>1. MeasureInv => MeasuresValue
  BY DEF MeasureInv, MeasuresValue, Through
<1> QED
  BY <1>1, InitMeasure, NextMeasure, InitIInv, NextIInv, PTL DEF Spec

-----------------------------------------------------------------------------
(* Counting off *)

(* The elements of a finite set with a strict total order can be counted   *)
(* off: each has a number of elements before it, and every number below the*)
(* size of the set is that of one element.                                 *)
LEMMA Ranks ==
  ASSUME NEW S, IsFiniteSet(S), NEW before \in [S -> SUBSET S],
         \A h \in S : h \notin before[h],
         \A g, h \in S : g \in before[h] => before[g] \subseteq before[h],
         \A g, h \in S : g = h \/ g \in before[h] \/ h \in before[g]
  PROVE  /\ Cardinality(S) \in Nat
         /\ \A h \in S : Cardinality(before[h]) \in 0 .. (Cardinality(S) - 1)
         /\ \A g, h \in S :
              g \in before[h] => Cardinality(before[g]) < Cardinality(before[h])
         /\ \A m \in 0 .. (Cardinality(S) - 1) : \E h \in S : Cardinality(before[h]) = m
<1> DEFINE C == Cardinality(S)
           N == 0 .. (C - 1)
           rank == [h \in S |-> Cardinality(before[h])]
<1>1. C \in Nat
  BY FS_CardinalityType
<1>2. ASSUME NEW h \in S, NEW T \in SUBSET S, before[h] \subseteq T, h \in T
      PROVE  Cardinality(before[h]) \in Nat /\ Cardinality(before[h]) < Cardinality(T)
  <2>1. IsFiniteSet(T) /\ before[h] \in SUBSET T /\ before[h] # T
    BY <1>2, FS_Subset
  <2>2. Cardinality(T) \in Nat /\ Cardinality(before[h]) \in Nat
    BY <2>1, FS_Subset, FS_CardinalityType
  <2>3. Cardinality(before[h]) <= Cardinality(T) /\ Cardinality(before[h]) # Cardinality(T)
    BY <2>1, FS_Subset
  <2> QED
    BY <2>2, <2>3
<1>3. ASSUME NEW h \in S
      PROVE  Cardinality(before[h]) \in N
  <2>1. before[h] \subseteq S /\ S \in SUBSET S
    OBVIOUS
  <2>2. Cardinality(before[h]) \in Nat /\ Cardinality(before[h]) < C
    BY <1>2, <2>1
  <2> QED
    BY <1>1, <2>2
<1>4. ASSUME NEW g \in S, NEW h \in S, g \in before[h]
      PROVE  Cardinality(before[g]) < Cardinality(before[h])
  <2>1. before[g] \subseteq before[h] /\ before[h] \in SUBSET S
    BY <1>4
  <2> QED
    BY <1>2, <1>4, <2>1
<1>5. rank \in [S -> N] /\ \A h \in S : rank[h] = Cardinality(before[h])
  BY <1>3
<1> HIDE DEF rank
<1>6. rank \in Injection(S, N)
  <2>1. ASSUME NEW g \in S, NEW h \in S, rank[g] = rank[h] PROVE g = h
    <3>1. rank[g] \in Int /\ ~(rank[g] < rank[h]) /\ ~(rank[h] < rank[g])
      BY <1>5, <2>1
    <3> QED
      BY <1>4, <1>5, <3>1
  <2> HIDE DEF N
  <2> QED
    BY <1>5, <2>1 DEF Injection, IsInjective
<1>7. IsFiniteSet(N) /\ Cardinality(N) = C
  <2>1. 0 \in Int /\ C - 1 \in Int /\ (0 > C - 1 => C = 0) /\ (C - 1) - 0 + 1 = C
    BY <1>1
  <2>2. Cardinality(N) = IF 0 > C - 1 THEN 0 ELSE (C - 1) - 0 + 1
    BY <2>1, FS_Interval
  <2> QED
    BY <2>1, <2>2, FS_Interval
<1> HIDE DEF N
<1>8. rank \in Surjection(S, N)
  BY <1>6, <1>7, FS_Injection
<1>9. \A m \in N : \E h \in S : Cardinality(before[h]) = m
  BY <1>5, <1>8 DEF Surjection
<1> QED
  BY <1>1, <1>3, <1>4, <1>9 DEF N

-----------------------------------------------------------------------------
(* The bytes the input is made of are of records that have a hash.         *)
KnownByte == (DOMAIN Hash) \X Int

KnownInv == input \in Seq(KnownByte) /\ data \in Seq(KnownByte)

LEMMA InitKnown == Init => KnownInv
<1>1. <<>> \in Seq(KnownByte)
  OBVIOUS
<1> QED
  BY <1>1 DEF Init, KnownInv

(* The nonces of the pieces a measurement is made of.                      *)
LEMMA PieceKnown ==
  ASSUME IInv, MeasureInv, pc = "create"
  PROVE  Bytes(start_index(i), end_index(i)) \in Seq(KnownByte)
<1> DEFINE m == start_index(i)
           l == end_index(i)
           R == RecordBytes
           size == (l - m) * R
<1>1. /\ R \in Nat \ {0} /\ total_hash_count \in Nat \ {0}
      /\ i \in Nat \ {0} /\ Values[value] \in Nat \ {0} /\ i <= Values[value]
      /\ value \in DOMAIN Values
  <2>1. Values \in Seq(Nat \ {0})
    BY ClusterAssumption
  <2>2. value \in 1 .. Len(Values) /\ Values[value] \in Nat \ {0}
    BY SizeMeasured
  <2>3. value \in DOMAIN Values
    BY <2>1, <2>2
  <2>4. R \in Nat \ {0} /\ total_hash_count \in Nat \ {0}
    BY JobAssumption, ClusterAssumption
  <2>5. i <= Values[value]
    BY DEF MeasureInv
  <2>6. i \in Nat \ {0}
    BY DEF TypeInv
  <2> QED
    BY <2>2, <2>3, <2>4, <2>5, <2>6
<1>2. m \in Nat /\ l \in Nat /\ m <= l /\ l <= Values[value] * total_hash_count
      /\ Values[value] * total_hash_count \in Nat
  <2>1. total_hash_count * (i - 1) = total_hash_count * i - total_hash_count
    BY <1>1, OneLess
  <2>2. total_hash_count * i \in Nat /\ total_hash_count * (i - 1) \in Nat
    BY <1>1, ProductNat, i - 1 \in Nat
  <2>3. total_hash_count * i <= total_hash_count * Values[value]
    BY <1>1
  <2>4. total_hash_count * Values[value] = Values[value] * total_hash_count
    BY <1>1
  <2>5. Values[value] * total_hash_count \in Nat
    BY <1>1, ProductNat
  <2> QED
    BY <1>1, <2>1, <2>2, <2>3, <2>4, <2>5 DEF start_index, end_index
<1> HIDE DEF m, l, R
<1>3. /\ size \in Nat /\ Bytes(m, l) \in Seq(Byte) /\ Len(Bytes(m, l)) = size
      /\ \A b \in 1 .. size : Bytes(m, l)[b] = <<m + (b - 1) \div R, (b - 1) % R>>
  BY <1>2, BytesAre DEF R
<1>4. ASSUME NEW b \in 1 .. size PROVE Bytes(m, l)[b] \in KnownByte
  <2> DEFINE q == (b - 1) \div R
             r == (b - 1) % R
  <2>1. q \in Int /\ r \in Int /\ 0 <= r /\ r < R /\ b - 1 = q * R + r
    <3>1. b - 1 \in Int
      BY <1>3
    <3> QED
      BY <1>1, <3>1
  <2>2. Bytes(m, l)[b] = <<m + q, r>>
    BY <1>3
  <2> HIDE DEF q, r
  <2>3. q < l - m
    <3> SUFFICES ASSUME ~(q < l - m) PROVE FALSE
      OBVIOUS
    <3>1. q * R >= (l - m) * R
      BY <1>1, <1>2, <2>1
    <3>2. b - 1 < (l - m) * R /\ (l - m) * R \in Nat
      BY <1>3
    <3>3. q * R \in Int
      BY <1>1, <2>1, ProductInt
    <3> QED
      BY <2>1, <3>1, <3>2, <3>3
  <2>4. q >= 0
    <3> SUFFICES ASSUME ~(q >= 0) PROVE FALSE
      OBVIOUS
    <3>1. q <= -1 /\ b - 1 >= 0
      BY <1>3, <2>1
    <3>2. q * R <= (-1) * R /\ (-1) * R = -R /\ q * R \in Int
      BY <1>1, <2>1, <3>1
    <3> QED
      BY <1>1, <2>1, <3>1, <3>2
  <2>5. m + q \in 0 .. (Values[value] * total_hash_count - 1)
    BY <1>2, <2>1, <2>3, <2>4
  <2>6. m + q \in DOMAIN Hash
    BY <1>1, <2>5, ClusterAssumption
  <2> QED
    BY <2>1, <2>2, <2>6 DEF KnownByte
<1> HIDE DEF size
<1>5. Bytes(m, l) \in Seq(KnownByte)
  BY <1>3, <1>4
<1> QED
  BY <1>5 DEF m, l

LEMMA NextKnown == IInv /\ MeasureInv /\ KnownInv /\ [Next]_vars => KnownInv'
<1> SUFFICES ASSUME IInv, MeasureInv, KnownInv, [Next]_vars PROVE KnownInv'
  OBVIOUS
<1>1. input \in Seq(KnownByte) /\ data \in Seq(KnownByte) /\ <<>> \in Seq(KnownByte)
  BY DEF KnownInv
<1>2. CASE CreateFiles
  <2> DEFINE piece == Bytes(start_index(i), end_index(i))
  <2>1. piece \in Seq(KnownByte)
    BY <1>2, PieceKnown DEF CreateFiles
  <2>2. UNCHANGED input /\ (\/ data' = piece \/ data' = data
                            \/ \E b \in 1 .. (Len(piece) - 1) : data' = SubSeq(piece, 1, b))
    BY <1>2 DEF CreateFiles
  <2> HIDE DEF piece
  <2>3. \A b \in 1 .. (Len(piece) - 1) : SubSeq(piece, 1, b) \in Seq(KnownByte)
    BY <2>1
  <2>4. data' \in Seq(KnownByte)
    BY <1>1, <2>1, <2>2, <2>3
  <2> QED
    BY <1>1, <2>2, <2>4 DEF KnownInv
<1>3. CASE AppendToFile
  <2>1. \A b \in 0 .. (Len(data) - 1) : SubSeq(data, 1, b) \in Seq(KnownByte)
    BY <1>1
  <2>2. UNCHANGED data /\ \E s \in Seq(KnownByte) : input' = input \o s
    BY <1>1, <1>3, <2>1 DEF AppendToFile
  <2>3. input' \in Seq(KnownByte)
    BY <1>1, <2>2
  <2> QED
    BY <1>1, <2>2, <2>3 DEF KnownInv
<1>4. CASE RemoveData \/ RemoveInput
  <2>1. input' \in {input, <<>>} /\ data' \in {data, <<>>}
    BY <1>4 DEF RemoveData, RemoveInput, InputRemoved
  <2> QED
    BY <1>1, <2>1 DEF KnownInv
<1>5. CASE RunJob \/ JobEnded \/ RemoveOutput \/ Abort \/ UNCHANGED vars
  <2>1. UNCHANGED <<input, data>>
    BY <1>5 DEF RunJob, SubmitJob, JobEnded, RemoveOutput, Abort, vars, scriptVars
  <2> QED
    BY <1>1, <2>1 DEF KnownInv
<1>6. CASE Cluster \/ (JobFault /\ UNCHANGED scriptVars)
  <2>1. UNCHANGED <<input, data>>
    BY <1>6 DEF Cluster, scriptVars, JobProgress, JobFault, NextRecord, NoRecord, MapFails,
       StartReduce, JobDone, WriteRecord, CloseWriter, ReduceFails
  <2> QED
    BY <1>1, <2>1 DEF KnownInv
<1> QED
  BY <1>2, <1>3, <1>4, <1>5, <1>6 DEF Next, Script, Fault, Ended

-----------------------------------------------------------------------------
(* The splits lie one after the other, and a map task that is done has no  *)
(* record left in its buffer.                                              *)
SplitInv ==
  /\ job = "none" => DOMAIN reader = {}
  /\ DOMAIN reader \subseteq Splits
  /\ job \in {"map", "reduce", "succeeded"} => DOMAIN reader = Splits
  /\ task \in [DOMAIN reader -> [attempt : Int, done : BOOLEAN]]
  /\ \A t \in DOMAIN reader :
       /\ reader[t].start_position = (t - 1) * SplitBytes
       /\ reader[t].end_position = Smaller(t * SplitBytes, Len(input))
       /\ task[t].done => ~HoldsRecord(reader[t])

LEMMA InitSplit == Init => SplitInv
  BY DEF Init, SplitInv

(* The steps of one map task.                                              *)
LEMMA OneSplit ==
  ASSUME IInv, SplitInv, NEW t \in DOMAIN reader, NEW r \in Reader,
         reader' = [reader EXCEPT ![t] = r],
         r.start_position = reader[t].start_position,
         r.end_position = reader[t].end_position,
         NEW k \in [attempt : Int, done : BOOLEAN], task' = [task EXCEPT ![t] = k],
         k.done => ~HoldsRecord(r),
         UNCHANGED <<input, job>>
  PROVE  SplitInv'
<1>1. /\ DOMAIN reader' = DOMAIN reader
      /\ task' \in [DOMAIN reader -> [attempt : Int, done : BOOLEAN]]
      /\ Splits' = Splits
  BY DEF SplitInv, Splits
<1>2. ASSUME NEW u \in DOMAIN reader
      PROVE  /\ reader'[u].start_position = (u - 1) * SplitBytes
             /\ reader'[u].end_position = Smaller(u * SplitBytes, Len(input))
             /\ task'[u].done => ~HoldsRecord(reader'[u])
  <2>1. CASE u = t
    BY <2>1 DEF SplitInv, TypeInv
  <2>2. CASE u # t
    BY <2>2 DEF SplitInv, TypeInv
  <2> QED
    BY <2>1, <2>2
<1> QED
  BY <1>1, <1>2 DEF SplitInv

LEMMA MapSplit ==
  ASSUME IInv, SplitInv, NEW t \in DOMAIN task, NextRecord(t) \/ NoRecord(t) \/ MapFails(t)
  PROVE  SplitInv'
<1>1. /\ t \in DOMAIN reader /\ reader[t] \in Reader /\ t \in Int
      /\ ReaderInStep(reader[t], Len(handed[t]))
      /\ handed[t] \in Seq(Int) /\ Len(handed[t]) \in Nat
  BY DEF TypeInv
<1>2. /\ task[t] \in [attempt : Int, done : BOOLEAN] /\ ~task[t].done
      /\ task = [task EXCEPT ![t] = task[t]]
  BY <1>1 DEF SplitInv, NextRecord, NoRecord, MapFails, MapRuns
<1>3. CASE NextRecord(t)
  <2>1. PICK r \in Filled(reader[t]) :
          reader' = [reader EXCEPT ![t] = [r EXCEPT !.buffer_idx = @ + RecordBytes]]
    BY <1>3 DEF NextRecord
  <2>2. /\ r \in Reader /\ r.start_position = reader[t].start_position
        /\ r.end_position = reader[t].end_position
    BY <1>1, FilledInStep
  <2> DEFINE s == [r EXCEPT !.buffer_idx = @ + RecordBytes]
  <2>3. /\ s \in Reader /\ s.start_position = r.start_position
        /\ s.end_position = r.end_position
    BY <2>2, Skipping, JobAssumption
  <2>4. reader' = [reader EXCEPT ![t] = s] /\ task' = task /\ UNCHANGED <<input, job>>
    BY <1>3, <2>1 DEF NextRecord
  <2> HIDE DEF s
  <2> QED
    BY <1>1, <1>2, <2>2, <2>3, <2>4, OneSplit
<1>4. CASE NoRecord(t)
  <2>1. PICK r \in {reader[t]} \cup Filled(reader[t]) :
          reader' = [reader EXCEPT ![t] = r] /\ ~HoldsRecord(r)
    <3>1. CASE AtEnd(reader[t]) /\ UNCHANGED reader
      <4>1. reader' = [reader EXCEPT ![t] = reader[t]]
        BY <1>1, <3>1 DEF TypeInv
      <4>2. ~HoldsRecord(reader[t])
        BY <1>1, <3>1, JobAssumption DEF HoldsRecord, AtEnd, Reader
      <4> QED
        BY <4>1, <4>2
    <3>2. CASE \E r \in Filled(reader[t]) :
                 ~HoldsRecord(r) /\ reader' = [reader EXCEPT ![t] = r]
      BY <3>2
    <3> QED
      BY <1>4, <3>1, <3>2 DEF NoRecord
  <2>2. /\ r \in Reader /\ r.start_position = reader[t].start_position
        /\ r.end_position = reader[t].end_position
    BY <1>1, <2>1, FilledInStep
  <2> DEFINE k == [task[t] EXCEPT !.done = TRUE]
  <2>3. k \in [attempt : Int, done : BOOLEAN]
    BY <1>2
  <2>4. task' = [task EXCEPT ![t] = k] /\ UNCHANGED <<input, job>>
    BY <1>4 DEF NoRecord
  <2> HIDE DEF k
  <2> QED
    BY <1>1, <2>1, <2>2, <2>3, <2>4, OneSplit
<1>5. CASE MapFails(t) /\ UNCHANGED <<task, reader, handed>>
  BY <1>5 DEF MapFails, SplitInv, Splits
<1>6. CASE /\ MapFails(t)
           /\ task' = [task EXCEPT ![t].attempt = @ + 1]
           /\ reader' = [reader EXCEPT ![t] = Initialized(t)]
           /\ UNCHANGED job
  <2>1. Initialized(t) \in Reader
    BY <1>1, NewReader DEF TypeInv
  <2>2. /\ Initialized(t).start_position = reader[t].start_position
        /\ Initialized(t).end_position = reader[t].end_position
    BY <1>1 DEF SplitInv, Initialized
  <2> DEFINE k == [task[t] EXCEPT !.attempt = @ + 1]
  <2>3. k \in [attempt : Int, done : BOOLEAN] /\ ~k.done
    BY <1>2
  <2>4. task' = [task EXCEPT ![t] = k] /\ UNCHANGED <<input, job>>
    BY <1>6 DEF MapFails
  <2> HIDE DEF k
  <2> QED
    BY <1>1, <1>6, <2>1, <2>2, <2>3, <2>4, OneSplit
<1> QED
  BY <1>3, <1>4, <1>5, <1>6 DEF MapFails

LEMMA NextSplit == IInv /\ MeasureInv /\ SplitInv /\ [Next]_vars => SplitInv'
<1> SUFFICES ASSUME IInv, MeasureInv, SplitInv, [Next]_vars PROVE SplitInv'
  OBVIOUS
<1>1. ASSUME NEW t \in DOMAIN task, NextRecord(t) \/ NoRecord(t) \/ MapFails(t)
      PROVE  SplitInv'
  BY <1>1, MapSplit
<1>2. CASE RunJob
  <2>1. CASE job' = "failed" /\ UNCHANGED <<input, reader, handed, task, writer, output>>
    BY <2>1 DEF SplitInv, Splits
  <2>2. CASE /\ job' = "map" /\ UNCHANGED input
             /\ reader' = [t \in Splits |-> Initialized(t)]
             /\ task' = [t \in Splits |-> [attempt |-> 1, done |-> FALSE]]
    <3>1. DOMAIN reader' = Splits /\ Splits' = Splits
      BY <2>2 DEF Splits
    <3>2. ASSUME NEW t \in Splits
          PROVE  /\ Initialized(t).start_position = (t - 1) * SplitBytes
                 /\ Initialized(t).end_position = Smaller(t * SplitBytes, Len(input))
      BY DEF Initialized
    <3>3. task' \in [Splits -> [attempt : Int, done : BOOLEAN]]
          /\ \A t \in Splits : ~task'[t].done
      BY <2>2
    <3> QED
      BY <2>2, <3>1, <3>2, <3>3 DEF SplitInv
  <2> QED
    BY <1>2, <2>1, <2>2 DEF RunJob, SubmitJob
<1>3. CASE JobEnded
  <2>1. DOMAIN reader' = {} /\ task' = <<>> /\ job' = "none"
    BY <1>3 DEF JobEnded
  <2> QED
    BY <2>1 DEF SplitInv
<1>4. CASE CreateFiles \/ AppendToFile \/ RemoveData \/ RemoveOutput \/ RemoveInput \/ Abort
  <2>1. pc # "running" /\ UNCHANGED <<job, reader, task>>
    BY <1>4 DEF CreateFiles, AppendToFile, RemoveData, RemoveOutput, RemoveInput, Abort, jobVars
  <2>2. DOMAIN reader = {} /\ job = "none"
    BY <2>1 DEF MeasureInv, SplitInv
  <2> QED
    BY <2>1, <2>2 DEF SplitInv
<1>5. CASE StartReduce \/ JobDone
  <2>1. UNCHANGED <<input, reader, task>> /\ job \in {"map", "reduce"} /\ job' # "none"
    BY <1>5 DEF StartReduce, JobDone
  <2> QED
    BY <2>1 DEF SplitInv, Splits
<1>6. ASSUME NEW p \in Parts, WriteRecord(p) \/ CloseWriter(p) \/ ReduceFails(p)
      PROVE  SplitInv'
  <2>1. UNCHANGED <<input, reader, task>> /\ (job' = job \/ job' = "failed")
    BY <1>6 DEF WriteRecord, CloseWriter, ReduceFails
  <2> QED
    BY <2>1 DEF SplitInv, Splits
<1>7. CASE UNCHANGED vars
  BY <1>7 DEF vars, jobVars, SplitInv, Splits
<1>8. CASE Cluster \/ (JobFault /\ UNCHANGED scriptVars)
  BY <1>1, <1>5, <1>6, <1>8 DEF Cluster, JobProgress, JobFault
<1> QED
  BY <1>2, <1>3, <1>4, <1>7, <1>8 DEF Next, Script, Fault, Ended

(* The records of a split that is done: what its reader has handed on.     *)
LEMMA SplitRead ==
  ASSUME IInv, NEW t \in DOMAIN reader, ~HoldsRecord(reader[t])
  PROVE  RecordsOf(t) = {handed[t][n] : n \in DOMAIN handed[t]}
<1> DEFINE r == reader[t]
           h == handed[t]
           R == RecordBytes
           S == r.start_position
           last == IF r.current_position < r.end_position THEN Position(r) ELSE r.end_position
<1>1. r \in Reader /\ h \in Seq(Int) /\ ReaderInStep(r, Len(h)) /\ HandedInStep(r, h)
      /\ R \in Nat \ {0}
  BY JobAssumption DEF TypeInv
<1>2. /\ Len(h) \in Nat /\ DOMAIN h = 1 .. Len(h) /\ S \in Int /\ last \in Int
      /\ Position(r) \in Int /\ Position(r) = S + Len(h) * R /\ Len(h) * R \in Int
      /\ last < Position(r) + R
      /\ (last = Position(r) \/ last = r.end_position)
      /\ \A n \in DOMAIN h : h[n] = S + (n - 1) * R /\ h[n] + R <= r.end_position
  <2>1. Len(h) * R \in Int
    BY <1>1, ProductInt
  <2> QED
    BY <1>1, <2>1 DEF Reader, Position, ReaderInStep, HandedInStep, HoldsRecord
<1>3. RecordsOf(t) = {p \in S .. (last - R) : (p - S) % R = 0}
  BY DEF RecordsOf
<1> HIDE DEF r, h, R, S, last
<1>4. ASSUME NEW n \in DOMAIN h PROVE h[n] \in RecordsOf(t)
  <2>1. n - 1 \in Nat /\ n <= Len(h)
    BY <1>2
  <2>2. (n - 1) * R \in Nat /\ h[n] \in Int /\ h[n] - S = (n - 1) * R
    <3>1. (n - 1) * R \in Nat
      BY <1>1, <2>1, ProductNat
    <3>2. S \in Int /\ h[n] = S + (n - 1) * R
      BY <1>2
    <3> QED
      BY <3>1, <3>2
  <2>3. (n - 1) * R + R <= Len(h) * R
    <3>1. n * R <= Len(h) * R /\ n * R = (n - 1) * R + R
      BY <1>1, <1>2
    <3> QED
      BY <3>1
  <2>4. h[n] \in S .. (last - R)
    <3>1. h[n] + R <= Position(r)
      BY <1>1, <1>2, <2>2, <2>3
    <3>2. h[n] + R <= last
      BY <1>2, <3>1
    <3>3. R \in Int /\ S \in Int /\ last \in Int /\ S <= h[n]
      BY <1>1, <1>2, <2>2
    <3> QED
      BY <2>2, <3>2, <3>3
  <2>5. (h[n] - S) % R = 0
    <3>1. ((n - 1) * R + 0) % R = 0
      <4>1. n - 1 \in Int /\ 0 \in Int /\ R \in Nat \ {0} /\ 0 <= 0 /\ 0 < R
        BY <1>1, <2>1
      <4> QED
        BY Zenon, <4>1, OneQuotient
    <3> QED
      BY <2>2, <3>1
  <2> QED
    BY <1>3, <2>4, <2>5
<1>5. ASSUME NEW p \in RecordsOf(t) PROVE \E n \in DOMAIN h : p = h[n]
  <2>1. p \in Int /\ S <= p /\ p <= last - R /\ (p - S) % R = 0
    BY <1>1, <1>2, <1>3
  <2> DEFINE q == (p - S) \div R
  <2>2. q \in Int /\ p - S = q * R
    <3>1. p - S \in Int
      BY <1>2, <2>1
    <3>2. \A x \in Int : x % R = 0 => x \div R \in Int /\ x = (x \div R) * R
      BY <1>1
    <3> QED
      BY <2>1, <3>1, <3>2
  <2> HIDE DEF q
  <2>3. q * R \in Int /\ q * R >= 0 /\ q * R < Len(h) * R
    BY <1>1, <1>2, <2>1, <2>2, ProductInt
  <2>4. q >= 0
    BY <1>1, <2>2, <2>3
  <2>5. q < Len(h)
    BY <1>1, <1>2, <2>2, <2>3
  <2>6. q + 1 \in DOMAIN h /\ (q + 1) - 1 = q
    BY <1>2, <2>2, <2>4, <2>5
  <2>7. h[q + 1] = S + q * R
    BY <1>2, <2>6
  <2> QED
    BY <1>2, <2>1, <2>2, <2>3, <2>6, <2>7
<1> QED
  BY <1>4, <1>5 DEF h

-----------------------------------------------------------------------------
(* The shuffle *)

LEMMA SmallerFits ==
  ASSUME NEW a \in Int, NEW b \in Int, NEW x \in Int, x <= Smaller(a, b)
  PROVE  x <= a /\ x <= b
  BY DEF Smaller

(* A record that was handed on lies in the input, has a key, and belongs to*)
(* one reduce task.                                                        *)
LEMMA HandedKnown ==
  ASSUME IInv, SplitInv, KnownInv, NEW h \in Handed
  PROVE  /\ h = <<h[1], h[2]>> /\ h[1] \in DOMAIN reader /\ h[2] \in DOMAIN handed[h[1]]
         /\ h[1] \in Int /\ h[2] \in Int
         /\ PositionOf(h) \in Int
         /\ (h[1] - 1) * SplitBytes <= PositionOf(h)
         /\ PositionOf(h) + RecordBytes <= h[1] * SplitBytes
         /\ KeyAt(PositionOf(h)) \in Int
         /\ PartOf[KeyAt(PositionOf(h))] \in Parts
<1>1. PICK t \in DOMAIN reader : h \in {<<t, n>> : n \in DOMAIN handed[t]}
  BY DEF Handed, TypeInv
<1>2. PICK n \in DOMAIN handed[t] : h = <<t, n>>
  BY <1>1
<1>3. /\ h = <<h[1], h[2]>> /\ h[1] = t /\ h[2] = n
      /\ PositionOf(h) = handed[t][n]
  BY <1>2 DEF PositionOf
<1>4. /\ reader[t] \in Reader /\ handed[t] \in Seq(Int) /\ t \in Int /\ t >= 1
      /\ n \in Int /\ n >= 1 /\ handed[t][n] \in Int
      /\ HandedInStep(reader[t], handed[t])
      /\ reader[t].start_position = (t - 1) * SplitBytes
      /\ reader[t].end_position = Smaller(t * SplitBytes, Len(input))
  BY <1>1, <1>2 DEF TypeInv, SplitInv, Splits
<1>5. RecordBytes \in Nat \ {0} /\ SplitBytes \in Nat \ {0}
  BY JobAssumption
<1>6. /\ (t - 1) * SplitBytes \in Nat /\ t * SplitBytes \in Int
      /\ (n - 1) * RecordBytes \in Nat
  <2>1. t - 1 \in Nat /\ n - 1 \in Nat /\ t \in Int /\ SplitBytes \in Nat /\ RecordBytes \in Nat
    BY <1>4, <1>5
  <2> QED
    BY <2>1, ProductNat, ProductInt
<1>7. Len(input) \in Int /\ input \in Seq(KnownByte)
  BY DEF TypeInv, KnownInv
<1>8. /\ handed[t][n] = (t - 1) * SplitBytes + (n - 1) * RecordBytes
      /\ handed[t][n] + RecordBytes <= t * SplitBytes
      /\ handed[t][n] + RecordBytes <= Len(input)
  <2>1. /\ handed[t][n] = reader[t].start_position + (n - 1) * RecordBytes
        /\ handed[t][n] + RecordBytes <= reader[t].end_position
    BY <1>2, <1>4 DEF HandedInStep
  <2>2. handed[t][n] + RecordBytes <= Smaller(t * SplitBytes, Len(input))
    BY <1>4, <2>1
  <2>3. handed[t][n] + RecordBytes \in Int
    BY <1>4, <1>5
  <2>4. handed[t][n] + RecordBytes <= t * SplitBytes /\ handed[t][n] + RecordBytes <= Len(input)
    BY <1>6, <1>7, <2>2, <2>3, SmallerFits
  <2> QED
    BY <1>4, <2>1, <2>4
<1>9. handed[t][n] + 1 \in DOMAIN input
  <2> DEFINE x == handed[t][n]
             a == (t - 1) * SplitBytes
             b == (n - 1) * RecordBytes
  <2>1. /\ x \in Int /\ a \in Nat /\ b \in Nat /\ x = a + b
        /\ RecordBytes \in Nat \ {0} /\ x + RecordBytes <= Len(input)
    BY <1>4, <1>5, <1>6, <1>8
  <2> HIDE DEF x, a, b
  <2>2. x + 1 \in 1 .. Len(input)
    BY <1>7, <2>1
  <2> QED
    BY <1>7, <2>2 DEF x
<1>10. input[handed[t][n] + 1] \in KnownByte
  BY <1>7, <1>9
<1>11. input[handed[t][n] + 1][1] \in DOMAIN Hash
  BY <1>10 DEF KnownByte
<1>12. /\ KeyAt(handed[t][n]) \in Nat /\ PartOf[KeyAt(handed[t][n])] \in Parts
  BY <1>11, JobAssumption DEF KeyAt
<1>13. (t - 1) * SplitBytes <= handed[t][n]
  <2> DEFINE x == handed[t][n]
             a == (t - 1) * SplitBytes
             b == (n - 1) * RecordBytes
  <2>1. x \in Int /\ a \in Nat /\ b \in Nat /\ x = a + b
    BY <1>4, <1>6, <1>8
  <2> HIDE DEF x, a, b
  <2>2. a <= x
    BY <2>1
  <2> QED
    BY <2>2 DEF x, a
<1>14. /\ t \in DOMAIN reader /\ n \in DOMAIN handed[t] /\ t \in Int /\ n \in Int
       /\ handed[t][n] \in Int
       /\ (t - 1) * SplitBytes <= handed[t][n]
       /\ handed[t][n] + RecordBytes <= t * SplitBytes
       /\ KeyAt(handed[t][n]) \in Int
       /\ PartOf[KeyAt(handed[t][n])] \in Parts
  BY <1>2, <1>4, <1>8, <1>12, <1>13
<1> QED
  BY Zenon, <1>3, <1>14

(* No record is handed on twice.                                           *)
LEMMA PositionsDiffer ==
  ASSUME IInv, SplitInv, KnownInv, NEW g \in Handed, NEW h \in Handed,
         PositionOf(g) = PositionOf(h)
  PROVE  g = h
<1> DEFINE t == g[1]
           u == h[1]
           m == g[2]
           n == h[2]
<1>1. RecordBytes \in Nat \ {0} /\ SplitBytes \in Nat \ {0}
  BY JobAssumption
<1>2. /\ g = <<t, m>> /\ h = <<u, n>>
      /\ t \in Int /\ u \in Int /\ m \in Int /\ n \in Int
      /\ PositionOf(g) \in Int
      /\ (t - 1) * SplitBytes <= PositionOf(g) /\ PositionOf(g) < t * SplitBytes
      /\ (u - 1) * SplitBytes <= PositionOf(g) /\ PositionOf(g) < u * SplitBytes
      /\ t \in DOMAIN reader /\ u \in DOMAIN reader
      /\ m \in DOMAIN handed[t] /\ n \in DOMAIN handed[u]
  <2>1. /\ g = <<t, m>> /\ t \in Int /\ m \in Int /\ PositionOf(g) \in Int
        /\ (t - 1) * SplitBytes <= PositionOf(g)
        /\ PositionOf(g) + RecordBytes <= t * SplitBytes
        /\ t \in DOMAIN reader /\ m \in DOMAIN handed[t]
    BY HandedKnown
  <2>2. /\ h = <<u, n>> /\ u \in Int /\ n \in Int
        /\ (u - 1) * SplitBytes <= PositionOf(g)
        /\ PositionOf(g) + RecordBytes <= u * SplitBytes
        /\ u \in DOMAIN reader /\ n \in DOMAIN handed[u]
    BY HandedKnown
  <2>3. t * SplitBytes \in Int /\ u * SplitBytes \in Int
    BY <1>1, <2>1, <2>2, ProductInt
  <2>4. \A x, a, b, c \in Int : c \in Nat \ {0} /\ x + c <= a => x < a
    OBVIOUS
  <2>5. PositionOf(g) < t * SplitBytes /\ PositionOf(g) < u * SplitBytes
    BY <1>1, <2>1, <2>2, <2>3, <2>4
  <2> QED
    BY <2>1, <2>2, <2>5
<1>3. PositionOf(g) = handed[t][m] /\ PositionOf(h) = handed[u][n]
  BY DEF PositionOf
<1> HIDE DEF t, u, m, n
<1>4. t = u
  <2>1. \A a, b \in Int : a < b => a * SplitBytes <= (b - 1) * SplitBytes
    BY <1>1
  <2>2. t - 1 \in Int /\ u - 1 \in Int
    BY <1>2
  <2>3. /\ t * SplitBytes \in Int /\ u * SplitBytes \in Int
        /\ (t - 1) * SplitBytes \in Int /\ (u - 1) * SplitBytes \in Int
    BY <1>1, <1>2, <2>2, ProductInt
  <2>4. ~(t < u) /\ ~(u < t)
    BY <1>2, <2>1, <2>3
  <2> QED
    BY <1>2, <2>4
<1>5. m = n
  <2>1. HandedInStep(reader[t], handed[t]) /\ reader[t].start_position \in Int
    BY <1>2 DEF TypeInv, Reader
  <2>2. /\ handed[t][m] = reader[t].start_position + (m - 1) * RecordBytes
        /\ handed[t][n] = reader[t].start_position + (n - 1) * RecordBytes
    BY <1>2, <1>4, <2>1 DEF HandedInStep
  <2>3. (m - 1) * RecordBytes \in Int /\ (n - 1) * RecordBytes \in Int
    BY <1>1, <1>2, ProductInt, m - 1 \in Int, n - 1 \in Int
  <2>4. (m - 1) * RecordBytes = (n - 1) * RecordBytes
    <3>1. handed[t][m] = handed[t][n]
      BY <1>3, <1>4
    <3>2. \A s, a, b \in Int : s + a = s + b => a = b
      OBVIOUS
    <3> QED
      BY <2>1, <2>2, <2>3, <3>1, <3>2
  <2>5. \A a, b \in Int : a * RecordBytes = b * RecordBytes => a = b
    BY <1>1
  <2>6. m - 1 = n - 1
    BY <1>2, <2>4, <2>5
  <2> QED
    BY <1>2, <2>6
<1> QED
  BY <1>2, <1>4, <1>5

LEMMA HandedFinite ==
  ASSUME IInv, SplitInv
  PROVE  IsFiniteSet(Handed)
<1> DEFINE Of(t) == {<<t, n>> : n \in DOMAIN handed[t]}
           All == {Of(t) : t \in DOMAIN handed}
<1>1. IsFiniteSet(DOMAIN handed)
  <2>1. Len(input) \in Int /\ SplitBytes \in Nat \ {0}
    BY JobAssumption DEF TypeInv
  <2>2. 1 \in Int /\ (Len(input) + SplitBytes - 1) \div SplitBytes \in Int
    BY <2>1
  <2>3. IsFiniteSet(Splits)
    BY <2>2, FS_Interval DEF Splits
  <2>4. DOMAIN handed \in SUBSET Splits
    BY DEF SplitInv, TypeInv
  <2> QED
    BY <2>3, <2>4, FS_Subset
<1>2. ASSUME NEW t \in DOMAIN handed PROVE IsFiniteSet(Of(t))
  <2>1. handed[t] \in Seq(Int) /\ Len(handed[t]) \in Nat /\ DOMAIN handed[t] = 1 .. Len(handed[t])
    BY DEF TypeInv
  <2> DEFINE f == [n \in DOMAIN handed[t] |-> <<t, n>>]
  <2>2. f \in Surjection(DOMAIN handed[t], Of(t))
    BY DEF Surjection
  <2>3. IsFiniteSet(DOMAIN handed[t])
    BY <2>1, FS_Interval, 1 \in Int, Len(handed[t]) \in Int
  <2> HIDE DEF f, Of
  <2> QED
    BY <2>2, <2>3, FS_Surjection
<1>3. IsFiniteSet(All)
  <2> DEFINE f == [t \in DOMAIN handed |-> Of(t)]
  <2>1. f \in Surjection(DOMAIN handed, All)
    BY DEF Surjection
  <2> HIDE DEF f, All
  <2> QED
    BY <1>1, <2>1, FS_Surjection
<1>4. \A T \in All : IsFiniteSet(T)
  BY <1>2
<1>5. Handed = UNION All
  BY DEF Handed
<1> HIDE DEF All
<1> QED
  BY <1>3, <1>4, <1>5, FS_UNION

(* What a reduce task is brought.                                          *)
Mine(p) == {h \in Handed : PartOf[KeyAt(PositionOf(h))] = p}

(* f counts them off in the order in which they are brought.               *)
CountsOff(f, N, p) ==
  /\ f \in [1 .. N -> Mine(p)]
  /\ Shuffled(p) = [n \in 1 .. N |-> PositionOf(f[n])]
  /\ \A h \in Mine(p) : \E n \in 1 .. N : f[n] = h
  /\ \A m, n \in 1 .. N : m < n => ShuffledBefore(f[m], f[n]) /\ f[m] # f[n]

(* The shuffle brings a reduce task each of its records once, in order.    *)
LEMMA ShuffledIs ==
  ASSUME IInv, SplitInv, KnownInv, NEW p
  PROVE  \E N \in Nat : \E f : CountsOff(f, N, p)
<1> DEFINE M == Mine(p)
           before == [h \in M |-> {g \in M : ShuffledBefore(g, h)}]
           rank(h) == Cardinality(before[h])
           N == Cardinality(M)
           f == [n \in 1 .. N |-> CHOOSE h \in M : rank(h) = n - 1]
<1>1. IsFiniteSet(M)
  BY HandedFinite, FS_Subset DEF Mine
<1>2. ASSUME NEW h \in M
      PROVE  /\ h = <<h[1], h[2]>> /\ h[1] \in Int /\ h[2] \in Int
             /\ KeyAt(PositionOf(h)) \in Int
  BY HandedKnown DEF Mine
<1>3. /\ before \in [M -> SUBSET M]
      /\ \A h \in M : before[h] = {g \in M : ShuffledBefore(g, h)}
  OBVIOUS
<1> DEFINE key(h) == KeyAt(PositionOf(h))
<1>4. \A g, h : ShuffledBefore(g, h) <=>
         \/ key(g) < key(h)
         \/ key(g) = key(h) /\ (g[1] < h[1] \/ (g[1] = h[1] /\ g[2] < h[2]))
  BY DEF ShuffledBefore
<1>5. \A h \in M : h = <<h[1], h[2]>> /\ h[1] \in Int /\ h[2] \in Int /\ key(h) \in Int
  BY <1>2
<1> HIDE DEF key, M, before
<1>6. \A g \in M : ~ShuffledBefore(g, g)
  BY <1>4, <1>5
<1>7. ASSUME NEW g \in M, NEW h \in M, NEW k \in M, ShuffledBefore(g, h), ShuffledBefore(h, k)
      PROVE  ShuffledBefore(g, k)
  BY <1>4, <1>5, <1>7
<1>8. \A g, h \in M : g = h \/ ShuffledBefore(g, h) \/ ShuffledBefore(h, g)
  <2> SUFFICES ASSUME NEW g \in M, NEW h \in M, ~ShuffledBefore(g, h), ~ShuffledBefore(h, g)
               PROVE  g = h
    OBVIOUS
  <2>1. /\ g = <<g[1], g[2]>> /\ g[1] \in Int /\ g[2] \in Int /\ key(g) \in Int
        /\ h = <<h[1], h[2]>> /\ h[1] \in Int /\ h[2] \in Int /\ key(h) \in Int
    BY <1>5
  <2>2. g[1] = h[1] /\ g[2] = h[2]
    BY <1>4, <2>1
  <2> QED
    BY <2>1, <2>2
<1>9. /\ \A h \in M : h \notin before[h]
      /\ \A g, h \in M : g \in before[h] => before[g] \subseteq before[h]
      /\ \A g, h \in M : g = h \/ g \in before[h] \/ h \in before[g]
  BY <1>3, <1>6, <1>7, <1>8
<1>10. /\ N \in Nat
       /\ \A h \in M : rank(h) \in 0 .. (N - 1)
       /\ \A g, h \in M : g \in before[h] => rank(g) < rank(h)
       /\ \A m \in 0 .. (N - 1) : \E h \in M : rank(h) = m
  BY <1>1, <1>3, <1>9, Ranks
<1>11. Shuffled(p) = [n \in 1 .. N |-> PositionOf(f[n])]
  <2>1. ASSUME NEW n \in 1 .. N
        PROVE  (CHOOSE h \in M : Cardinality({g \in M : ShuffledBefore(g, h)}) = n - 1)
                 = (CHOOSE h \in M : rank(h) = n - 1)
    <3>1. \A h \in M : (Cardinality({g \in M : ShuffledBefore(g, h)}) = n - 1)
                         <=> (rank(h) = n - 1)
      BY <1>3
    <3> QED
      BY <3>1
  <2>2. Shuffled(p) =
          [n \in 1 .. N |->
             PositionOf(CHOOSE h \in M : Cardinality({g \in M : ShuffledBefore(g, h)}) = n - 1)]
    BY DEF Shuffled, M, Mine
  <2> QED
    BY <2>1, <2>2
<1> HIDE DEF rank, N
<1>12. ASSUME NEW n \in 1 .. N
       PROVE  f[n] \in M /\ rank(f[n]) = n - 1
  <2>1. n - 1 \in 0 .. (N - 1)
    BY <1>10
  <2>2. \E h \in M : rank(h) = n - 1
    BY <1>10, <2>1
  <2>3. f[n] = CHOOSE h \in M : rank(h) = n - 1
    OBVIOUS
  <2> HIDE DEF f
  <2> QED
    BY <2>2, <2>3
<1>13. f \in [1 .. N -> M]
  <2>1. f = [n \in 1 .. N |-> f[n]]
    OBVIOUS
  <2> HIDE DEF f
  <2> QED
    BY <1>12, <2>1
<1> HIDE DEF f
<1>14. ASSUME NEW h \in M PROVE \E n \in 1 .. N : f[n] = h
  <2>1. rank(h) \in 0 .. (N - 1)
    BY <1>10
  <2> DEFINE n == rank(h) + 1
  <2>2. n \in 1 .. N /\ n - 1 = rank(h)
    BY <1>10, <2>1
  <2> HIDE DEF n
  <2>3. f[n] \in M /\ rank(f[n]) = rank(h) /\ ~(rank(h) < rank(h))
    BY <1>12, <2>1, <2>2
  <2>4. f[n] = h
    BY <1>9, <1>10, <2>3
  <2> QED
    BY <2>2, <2>4
<1>15. ASSUME NEW m \in 1 .. N, NEW n \in 1 .. N, m < n
       PROVE  ShuffledBefore(f[m], f[n]) /\ f[m] # f[n]
  <2>1. /\ f[m] \in M /\ f[n] \in M /\ rank(f[m]) = m - 1 /\ rank(f[n]) = n - 1
        /\ m - 1 < n - 1 /\ ~(n - 1 < m - 1) /\ m - 1 # n - 1
    BY <1>10, <1>12, <1>15
  <2>2. f[m] # f[n] /\ f[n] \notin before[f[m]]
    BY <1>10, <2>1
  <2>3. f[m] \in before[f[n]]
    BY <1>9, <2>1, <2>2
  <2> QED
    BY <1>3, <2>1, <2>2, <2>3
<1> QED
  <2>1. CountsOff(f, N, p)
    BY <1>11, <1>13, <1>14, <1>15 DEF M, CountsOff
  <2> QED
    BY <1>10, <2>1

-----------------------------------------------------------------------------
(* The reduce tasks *)

Writer ==
  [todo : Seq(Int), buffer : Seq(Int), out : Seq(Int), attempt : Int, done : BOOLEAN]

(* What an attempt has written, buffered and still to write is what the    *)
(* shuffle brought, in this order.                                         *)
WriterInStep(w, s) ==
  /\ (w.out \o w.buffer) \o w.todo = s
  /\ w.done => w.out = s

(* A part that was committed is all of what the shuffle brought.           *)
ReduceInv ==
  /\ job = "map" => DOMAIN output = Parts
  /\ job \in {"reduce", "succeeded"} =>
       /\ \A t \in DOMAIN task : task[t].done
       /\ DOMAIN output = Parts
       /\ writer \in [Parts -> Writer]
       /\ \A p \in Parts :
            /\ WriterInStep(writer[p], Shuffled(p))
            /\ writer[p].done => output[p] = Shuffled(p)
  /\ job = "succeeded" => \A p \in Parts : writer[p].done

LEMMA ShuffledType ==
  ASSUME IInv, SplitInv, KnownInv, NEW p
  PROVE  Shuffled(p) \in Seq(Int)
<1>1. PICK N \in Nat : \E f : CountsOff(f, N, p)
  BY ShuffledIs
<1>2. PICK f : CountsOff(f, N, p)
  BY <1>1
<1>3. \A n \in 1 .. N : PositionOf(f[n]) \in Int
  BY <1>2, HandedKnown DEF Mine, CountsOff
<1> QED
  BY <1>2, <1>3 DEF CountsOff

LEMMA NewWriterInStep ==
  ASSUME NEW s \in Seq(Int), NEW a \in Int, NEW w,
         w = [todo |-> s, buffer |-> <<>>, out |-> <<>>, attempt |-> a, done |-> FALSE]
  PROVE  w \in Writer /\ WriterInStep(w, s)
<1>1. <<>> \in Seq(Int) /\ (<<>> \o <<>>) \o s = s
  OBVIOUS
<1> QED
  BY <1>1 DEF Writer, WriterInStep

(* Moving the first record of a sequence to the end of the one before it.  *)
LEMMA FirstMoves ==
  ASSUME NEW o \in Seq(Int), NEW b \in Seq(Int), NEW a \in Int, NEW r \in Seq(Int)
  PROVE  /\ ((o \o b) \o <<a>>) \o r = (o \o b) \o (<<a>> \o r)
         /\ (o \o Append(b, a)) \o r = (o \o b) \o (<<a>> \o r)
<1>1. <<a>> \in Seq(Int) /\ o \o b \in Seq(Int)
  OBVIOUS
<1>2. ((o \o b) \o <<a>>) \o r = (o \o b) \o (<<a>> \o r)
  BY <1>1, ConcatAssociative
<1>3. (o \o b) \o <<a>> = o \o (b \o <<a>>)
  BY <1>1, ConcatAssociative
<1>4. Append(b, a) = b \o <<a>>
  BY AppendIsConcat
<1> QED
  BY <1>2, <1>3, <1>4

LEMMA FirstTaken ==
  ASSUME NEW o \in Seq(Int), NEW b \in Seq(Int), NEW d \in Seq(Int), d # <<>>
  PROVE  /\ ((o \o b) \o <<Head(d)>>) \o Tail(d) = (o \o b) \o d
         /\ (o \o Append(b, Head(d))) \o Tail(d) = (o \o b) \o d
<1>1. Head(d) \in Int /\ Tail(d) \in Seq(Int) /\ d = <<Head(d)>> \o Tail(d)
  OBVIOUS
<1>2. \A a \in Int, r \in Seq(Int) :
        /\ ((o \o b) \o <<a>>) \o r = (o \o b) \o (<<a>> \o r)
        /\ (o \o Append(b, a)) \o r = (o \o b) \o (<<a>> \o r)
  BY FirstMoves
<1>3. /\ ((o \o b) \o <<Head(d)>>) \o Tail(d) = (o \o b) \o (<<Head(d)>> \o Tail(d))
      /\ (o \o Append(b, Head(d))) \o Tail(d) = (o \o b) \o (<<Head(d)>> \o Tail(d))
  BY Zenon, <1>1, <1>2
<1> QED
  BY Zenon, <1>1, <1>3

(* A record goes from what is to do into the buffer, which goes to the file*)
(* first when it is full.                                                  *)
LEMMA WriteInStep ==
  ASSUME NEW s \in Seq(Int), NEW w \in Writer, WriterInStep(w, s), ~w.done, w.todo # <<>>,
         NEW v, v = [Buffered(w, Head(w.todo)) EXCEPT !.todo = Tail(w.todo)]
  PROVE  v \in Writer /\ WriterInStep(v, s) /\ ~v.done
<1>1. /\ w.out \in Seq(Int) /\ w.buffer \in Seq(Int) /\ w.todo \in Seq(Int)
      /\ (w.out \o w.buffer) \o w.todo = s
  BY DEF Writer, WriterInStep
<1>2. /\ Head(w.todo) \in Int /\ Tail(w.todo) \in Seq(Int)
      /\ ((w.out \o w.buffer) \o <<Head(w.todo)>>) \o Tail(w.todo) = s
      /\ (w.out \o Append(w.buffer, Head(w.todo))) \o Tail(w.todo) = s
  <2>1. Head(w.todo) \in Int /\ Tail(w.todo) \in Seq(Int)
    BY <1>1
  <2>2. /\ ((w.out \o w.buffer) \o <<Head(w.todo)>>) \o Tail(w.todo)
             = (w.out \o w.buffer) \o w.todo
        /\ (w.out \o Append(w.buffer, Head(w.todo))) \o Tail(w.todo)
             = (w.out \o w.buffer) \o w.todo
    BY Zenon, <1>1, FirstTaken
  <2> QED
    BY Zenon, <1>1, <2>1, <2>2
<1>3. \/ v = [w EXCEPT !.out = w.out \o w.buffer, !.buffer = <<Head(w.todo)>>, !.todo = Tail(w.todo)]
      \/ v = [w EXCEPT !.buffer = Append(w.buffer, Head(w.todo)), !.todo = Tail(w.todo)]
  BY DEF Buffered, Writer
<1>4. /\ <<Head(w.todo)>> \in Seq(Int) /\ w.out \o w.buffer \in Seq(Int)
      /\ Append(w.buffer, Head(w.todo)) \in Seq(Int)
  BY <1>1, <1>2
<1>5. /\ v \in Writer /\ ~v.done /\ v.todo = Tail(w.todo)
      /\ \/ v.out = w.out \o w.buffer /\ v.buffer = <<Head(w.todo)>>
         \/ v.out = w.out /\ v.buffer = Append(w.buffer, Head(w.todo))
  BY <1>2, <1>3, <1>4 DEF Writer
<1> QED
  BY <1>2, <1>5 DEF WriterInStep

LEMMA InitReduce == Init => ReduceInv
  BY DEF Init, ReduceInv

LEMMA ShuffledStays ==
  ASSUME UNCHANGED <<input, handed>>, NEW p
  PROVE  Shuffled(p)' = Shuffled(p)
  BY DEF Shuffled, ShuffledBefore, Handed, PositionOf, KeyAt

(* One writer changes, and its part when it is done.                       *)
LEMMA OneWriter ==
  ASSUME ReduceInv, job = "reduce", NEW p \in Parts, NEW w \in Writer,
         WriterInStep(w, Shuffled(p)),
         writer' = [writer EXCEPT ![p] = w],
         \/ ~w.done /\ UNCHANGED output
         \/ output' = [output EXCEPT ![p] = Shuffled(p)],
         UNCHANGED <<input, job, handed, task>>
  PROVE  ReduceInv'
<1>1. writer' \in [Parts -> Writer] /\ DOMAIN output' = Parts /\ DOMAIN output = Parts
  BY DEF ReduceInv
<1>2. ASSUME NEW q \in Parts
      PROVE  /\ WriterInStep(writer'[q], Shuffled(q))
             /\ writer'[q].done => output'[q] = Shuffled(q)
  BY <1>1 DEF ReduceInv
<1>3. \A q \in Parts : Shuffled(q)' = Shuffled(q)
  BY ShuffledStays
<1>4. \A q \in Parts : /\ WriterInStep(writer[q], Shuffled(q))'
                       /\ (writer[q].done => output[q] = Shuffled(q))'
  BY <1>2, <1>3 DEF WriterInStep
<1> QED
  BY <1>1, <1>4 DEF ReduceInv

LEMMA ReduceSteps ==
  ASSUME IInv, SplitInv, KnownInv, ReduceInv, NEW p \in Parts,
         WriteRecord(p) \/ CloseWriter(p) \/ ReduceFails(p)
  PROVE  ReduceInv'
<1>1. /\ job = "reduce" /\ ~writer[p].done /\ writer[p] \in Writer
      /\ WriterInStep(writer[p], Shuffled(p))
  BY DEF WriteRecord, CloseWriter, ReduceFails, ReduceRuns, ReduceInv
<1>2. Shuffled(p) \in Seq(Int) /\ p \in DOMAIN writer
  BY <1>1, ShuffledType DEF ReduceInv
<1>3. CASE WriteRecord(p)
  <2> DEFINE w == writer[p]
             v == [Buffered(w, Head(w.todo)) EXCEPT !.todo = Tail(w.todo)]
  <2>1. w.todo # <<>> /\ UNCHANGED <<input, job, handed, task, output>>
    BY <1>3 DEF WriteRecord
  <2>2. v \in Writer /\ WriterInStep(v, Shuffled(p)) /\ ~v.done
    BY <1>1, <1>2, <2>1, WriteInStep
  <2>3. writer' = [writer EXCEPT ![p] = v]
    BY <1>3 DEF WriteRecord
  <2> HIDE DEF v
  <2> QED
    BY <1>1, <2>1, <2>2, <2>3, OneWriter
<1>4. CASE CloseWriter(p)
  <2> DEFINE w == writer[p]
             v == [w EXCEPT !.out = @ \o w.buffer, !.buffer = <<>>, !.done = TRUE]
  <2>1. w.todo = <<>> /\ UNCHANGED <<input, job, handed, task>>
    BY <1>4 DEF CloseWriter
  <2>2. writer' = [writer EXCEPT ![p] = v]
    BY <1>2, <1>4 DEF CloseWriter
  <2>3. /\ w.out \in Seq(Int) /\ w.buffer \in Seq(Int)
        /\ (w.out \o w.buffer) \o w.todo = Shuffled(p)
    BY <1>1 DEF Writer, WriterInStep
  <2>4. w.out \o w.buffer = Shuffled(p) /\ <<>> \in Seq(Int)
    <3>1. w.out \o w.buffer \in Seq(Int)
      BY <2>3
    <3>2. (w.out \o w.buffer) \o <<>> = w.out \o w.buffer
      BY <3>1, ConcatEmptySeq
    <3>3. (w.out \o w.buffer) \o <<>> = Shuffled(p)
      BY <2>1, <2>3
    <3>4. <<>> \in Seq(Int)
      OBVIOUS
    <3> QED
      BY <3>2, <3>3, <3>4
  <2>5. v.out = Shuffled(p) /\ v.buffer = <<>> /\ v.todo = <<>> /\ v \in Writer
    BY <1>1, <1>2, <2>1, <2>4 DEF Writer
  <2>6. (Shuffled(p) \o <<>>) \o <<>> = Shuffled(p)
    BY <1>2
  <2>7. WriterInStep(v, Shuffled(p))
    BY <2>5, <2>6 DEF WriterInStep
  <2>8. writer'[p] = v
    BY <1>2, <2>2
  <2>9. output' = [output EXCEPT ![p] = Shuffled(p)]
    BY <1>4, <2>5, <2>8 DEF CloseWriter
  <2> HIDE DEF v
  <2> QED
    BY <1>1, <2>1, <2>2, <2>5, <2>7, <2>9, OneWriter
<1>5. CASE /\ ReduceFails(p) /\ job' = job
           /\ writer' = [writer EXCEPT ![p] = NewWriter(p, writer[p].attempt + 1)]
  <2> DEFINE w == NewWriter(p, writer[p].attempt + 1)
  <2>1. UNCHANGED <<input, handed, task, output>>
    BY <1>5 DEF ReduceFails
  <2>2. writer[p].attempt + 1 \in Int
    BY <1>1 DEF Writer
  <2>3. w \in Writer /\ WriterInStep(w, Shuffled(p)) /\ ~w.done
    BY <1>2, <2>2, NewWriterInStep DEF NewWriter
  <2>4. writer' = [writer EXCEPT ![p] = w]
    BY <1>5
  <2> HIDE DEF w
  <2> QED
    BY <1>1, <1>5, <2>1, <2>3, <2>4, OneWriter
<1>6. CASE ReduceFails(p) /\ job' = "failed"
  BY <1>6 DEF ReduceInv
<1> QED
  BY <1>3, <1>4, <1>5, <1>6 DEF ReduceFails

LEMMA NextReduce ==
  IInv /\ MeasureInv /\ SplitInv /\ KnownInv /\ ReduceInv /\ [Next]_vars => ReduceInv'
<1> SUFFICES ASSUME IInv, MeasureInv, SplitInv, KnownInv, ReduceInv, [Next]_vars
             PROVE  ReduceInv'
  OBVIOUS
<1>1. CASE StartReduce
  <2>1. /\ job = "map" /\ job' = "reduce" /\ \A t \in DOMAIN task : task[t].done
        /\ writer' = [p \in Parts |-> NewWriter(p, 1)]
        /\ UNCHANGED <<input, handed, task, output>>
    BY <1>1 DEF StartReduce
  <2>2. ASSUME NEW p \in Parts
        PROVE  /\ NewWriter(p, 1) \in Writer /\ ~NewWriter(p, 1).done
               /\ WriterInStep(NewWriter(p, 1), Shuffled(p))
    BY ShuffledType, NewWriterInStep, 1 \in Int DEF NewWriter
  <2>3. writer' \in [Parts -> Writer] /\ DOMAIN output' = Parts
    BY <2>1, <2>2 DEF ReduceInv
  <2>4. ASSUME NEW p \in Parts
        PROVE  ~writer'[p].done /\ WriterInStep(writer[p], Shuffled(p))'
    <3>1. writer'[p] = NewWriter(p, 1)
      BY <2>1
    <3>2. WriterInStep(writer'[p], Shuffled(p)) /\ ~writer'[p].done
      BY Zenon, <2>2, <3>1
    <3>3. Shuffled(p)' = Shuffled(p)
      BY <2>1, ShuffledStays
    <3> QED
      BY <3>2, <3>3 DEF WriterInStep
  <2> QED
    BY <2>1, <2>3, <2>4 DEF ReduceInv
<1>2. ASSUME NEW p \in Parts, WriteRecord(p) \/ CloseWriter(p) \/ ReduceFails(p)
      PROVE  ReduceInv'
  BY <1>2, ReduceSteps
<1>3. CASE JobDone
  <2>1. /\ job = "reduce" /\ job' = "succeeded" /\ \A p \in Parts : writer[p].done
        /\ UNCHANGED <<input, handed, task, writer, output>>
    BY <1>3 DEF JobDone
  <2>2. \A p \in Parts : Shuffled(p)' = Shuffled(p)
    BY <2>1, ShuffledStays
  <2> QED
    BY <2>1, <2>2 DEF ReduceInv, WriterInStep
<1>4. ASSUME NEW t \in DOMAIN task, NextRecord(t) \/ NoRecord(t) \/ MapFails(t)
      PROVE  ReduceInv'
  <2>1. job = "map" /\ job' \in {"map", "failed"} /\ UNCHANGED output
    BY <1>4 DEF NextRecord, NoRecord, MapFails, MapRuns
  <2> QED
    BY <2>1 DEF ReduceInv
<1>5. CASE RunJob
  <2>1. job' = "failed" \/ (job' = "map" /\ output' = [p \in Parts |-> <<>>])
    BY <1>5 DEF RunJob, SubmitJob
  <2> QED
    BY <2>1 DEF ReduceInv
<1>6. CASE JobEnded
  BY <1>6 DEF JobEnded, ReduceInv
<1>7. CASE CreateFiles \/ AppendToFile \/ RemoveData \/ RemoveOutput \/ RemoveInput \/ Abort
  <2>1. pc # "running" /\ UNCHANGED job
    BY <1>7 DEF CreateFiles, AppendToFile, RemoveData, RemoveOutput, RemoveInput, Abort, jobVars
  <2>2. job' = "none"
    BY <2>1 DEF MeasureInv
  <2> QED
    BY <2>2 DEF ReduceInv
<1>8. CASE UNCHANGED vars
  <2>1. UNCHANGED <<input, handed, job, task, writer, output>>
    BY <1>8 DEF vars, jobVars
  <2>2. \A p \in Parts : Shuffled(p)' = Shuffled(p)
    BY <2>1, ShuffledStays
  <2> QED
    BY <2>1, <2>2 DEF ReduceInv, WriterInStep
<1>9. CASE Cluster \/ (JobFault /\ UNCHANGED scriptVars)
  BY <1>1, <1>2, <1>3, <1>4, <1>9 DEF Cluster, JobProgress, JobFault
<1> QED
  BY <1>5, <1>6, <1>7, <1>8, <1>9 DEF Next, Script, Fault, Ended

(* The records of splits read to their ends are those of the whole input:  *)
(* no record lies across the border of two splits.                         *)
LEMMA SplitsCover ==
  ASSUME IInv, SplitInv, job = "succeeded", \A t \in DOMAIN task : ReadToEnd(t)
  PROVE  UNION {RecordsOf(t) : t \in DOMAIN task} = InputRecords
<1> DEFINE R == RecordBytes
           S == SplitBytes
           L == Len(input)
<1>1. R \in Nat \ {0} /\ S \in Nat \ {0} /\ S % R = 0 /\ L \in Nat
  BY JobAssumption DEF TypeInv
<1>2. PICK k \in Nat \ {0} : S = k * R
  <2> DEFINE q == S \div R
             r == S % R
  <2> HIDE DEF S, R
  <2>1. q \in Int /\ r \in Int /\ 0 <= r /\ r < R /\ S = q * R + r
    BY <1>1
  <2>2. r = 0
    BY <1>1
  <2> HIDE DEF q, r
  <2>3. q * R = S
    BY <1>1, <2>1, <2>2
  <2>4. ~(q <= 0)
    BY <1>1, <2>1, <2>3
  <2> QED
    BY <2>1, <2>3, <2>4
<1>3. /\ DOMAIN task = Splits
      /\ \A t \in Splits : /\ t \in Nat \ {0}
                            /\ reader[t].start_position = (t - 1) * S
                            /\ reader[t].end_position = Smaller(t * S, L)
                            /\ reader[t].current_position \in Int
  BY DEF SplitInv, Splits, TypeInv, Reader
<1>4. ASSUME NEW t \in Splits
      PROVE  RecordsOf(t) = {p \in ((t - 1) * S) .. (Smaller(t * S, L) - R) :
                               (p - (t - 1) * S) % R = 0}
  <2>1. /\ reader[t].current_position \in Int /\ reader[t].end_position \in Int
        /\ ~(reader[t].current_position < reader[t].end_position)
    <3>1. Smaller(t * S, L) \in Int
      BY <1>1, <1>3 DEF Smaller
    <3> QED
      BY <1>3, <3>1 DEF ReadToEnd
  <2> QED
    BY <1>3, <2>1 DEF RecordsOf
<1>5. ASSUME NEW t \in Splits, NEW p \in Int, (t - 1) * S <= p
      PROVE  /\ (p - (t - 1) * S) % R = p % R
             /\ (t - 1) * S \in Nat
  <2> DEFINE m == (t - 1) * k
             d == p - (t - 1) * S
  <2>1. t - 1 \in Nat /\ m \in Nat /\ (t - 1) * S = m * R
    <3>1. t - 1 \in Nat
      BY <1>3
    <3> HIDE DEF S, R
    <3> QED
      BY <1>1, <1>2, <3>1
  <2>2. (t - 1) * S \in Nat
    BY <1>1, <2>1
  <2>3. d \in Nat /\ p = m * R + d
    <3> HIDE DEF m, S, R
    <3> QED
      BY <1>5, <2>1, <2>2
  <2> HIDE DEF m, d, S, R
  <2>4. p % R = d % R
    <3>1. m \in Nat /\ d \in Nat /\ R \in Nat \ {0}
      BY <1>1, <2>1, <2>3
    <3>2. (m * R + d) % R = d % R
      BY Zenon, <3>1, Shifted
    <3> QED
      BY Zenon, <2>3, <3>2
  <2> QED
    BY <2>2, <2>4 DEF d
<1> HIDE DEF R, S
<1>6. ASSUME NEW t \in Splits, NEW p \in RecordsOf(t)
      PROVE  p \in InputRecords
  <2>1. p \in Int /\ (t - 1) * S <= p /\ p <= Smaller(t * S, L) - R /\ (p - (t - 1) * S) % R = 0
    BY <1>1, <1>3, <1>4 DEF Smaller
  <2>2. p >= 0 /\ p % R = 0
    BY <1>5, <2>1
  <2>3. p <= L - R
    BY <1>1, <1>3, <2>1 DEF Smaller
  <2> QED
    BY <1>1, <2>1, <2>2, <2>3 DEF InputRecords, R
<1>7. ASSUME NEW p \in InputRecords
      PROVE  \E t \in Splits : p \in RecordsOf(t)
  <2>1. p \in Nat /\ p + R <= L /\ p % R = 0
    BY <1>1 DEF InputRecords, R
  <2> DEFINE j == p \div S
             x == p % S
  <2>2. /\ j \in Nat /\ x \in Nat /\ x < S /\ p = j * S + x
    BY <1>1, <2>1
  <2> HIDE DEF j, x
  <2>3. j * S \in Nat /\ (j + 1) * S = j * S + S
    BY <1>1, <2>2, OneMore, ProductNat
  <2>4. j + 1 \in Splits
    <3> DEFINE q == (L + S - 1) \div S
               r == (L + S - 1) % S
    <3>1. q \in Int /\ r \in Int /\ 0 <= r /\ r < S /\ L + S - 1 = q * S + r
      BY <1>1
    <3> HIDE DEF q, r
    <3>2. SUFFICES ASSUME q <= j PROVE FALSE
      BY <1>1, <2>2, <3>1 DEF Splits, q, S
    <3>3. q * S <= j * S
      <4>1. j - q \in Nat /\ (j - q) * S = j * S - q * S /\ (j - q) * S \in Nat
        BY <1>1, <2>2, <3>1, <3>2
      <4> QED
        BY <1>1, <2>3, <3>1, <4>1, ProductInt
    <3> QED
      BY <1>1, <2>1, <2>2, <2>3, <3>1, <3>3, ProductInt
  <2> DEFINE t == j + 1
  <2> HIDE DEF t
  <2>5. /\ t \in Splits /\ (t - 1) * S \in Nat /\ (t - 1) * S <= p
        /\ p - (t - 1) * S = x /\ t * S = j * S + S
    <3>1. t - 1 = j /\ t = j + 1
      BY <2>2 DEF t
    <3>2. t * S = j * S + S /\ (t - 1) * S = j * S
      BY Zenon, <2>3, <3>1
    <3> QED
      BY <2>2, <2>3, <2>4, <3>2 DEF t
  <2>6. x % R = 0
    <3>1. (p - (t - 1) * S) % R = p % R
      BY <1>5, <2>1, <2>5
    <3> QED
      BY Zenon, <2>1, <2>5, <3>1
(* What is left of the split at p is a whole number of records, one at     *)
(* least.                                                                  *)
  <2>7. x + R <= S
    <3> DEFINE y == x \div R
    <3>1. y \in Nat /\ x = y * R
      BY <1>1, <2>2, <2>6
    <3> HIDE DEF y
    <3>2. y < k
      <4> SUFFICES ASSUME k <= y PROVE FALSE
        BY <1>2, <3>1
      <4>1. y - k \in Nat /\ (y - k) * R = y * R - k * R /\ (y - k) * R \in Nat
        BY <1>1, <1>2, <3>1
      <4> QED
        BY <1>1, <1>2, <2>2, <3>1, <4>1, ProductNat
    <3>3. k - y - 1 \in Nat /\ (k - y - 1) * R = k * R - y * R - R /\ (k - y - 1) * R \in Nat
      BY <1>1, <1>2, <3>1, <3>2
    <3> QED
      BY <1>1, <1>2, <3>1, <3>3, ProductNat
  <2>8. p <= Smaller(t * S, L) - R /\ Smaller(t * S, L) - R \in Int
    BY <1>1, <2>1, <2>2, <2>3, <2>5, <2>7 DEF Smaller
  <2>9. p \in ((t - 1) * S) .. (Smaller(t * S, L) - R) /\ (p - (t - 1) * S) % R = 0
    BY <2>1, <2>5, <2>6, <2>8
  <2> QED
    BY <1>4, <2>5, <2>9
<1> QED
  BY <1>3, <1>6, <1>7

LEMMA OutputIsComplete ==
  ASSUME IInv, SplitInv, KnownInv, ReduceInv
  PROVE  OutputComplete
<1> SUFFICES ASSUME job = "succeeded"
             PROVE  /\ {output[o[1]][o[2]] : o \in OutputRecords}
                         = UNION {RecordsOf(t) : t \in DOMAIN task}
                    /\ (\A t \in DOMAIN task : ReadToEnd(t)) =>
                         {output[o[1]][o[2]] : o \in OutputRecords} = InputRecords
                    /\ \A o, q \in OutputRecords :
                         output[o[1]][o[2]] = output[q[1]][q[2]] => o = q
                    /\ \A o, q \in OutputRecords :
                         o[1] = q[1] /\ o[2] < q[2] =>
                           KeyAt(output[o[1]][o[2]]) <= KeyAt(output[q[1]][q[2]])
  BY DEF OutputComplete
<1>1. /\ DOMAIN output = Parts /\ \A p \in Parts : output[p] = Shuffled(p)
      /\ \A t \in DOMAIN reader : RecordsOf(t) = {handed[t][n] : n \in DOMAIN handed[t]}
      /\ DOMAIN task = DOMAIN reader /\ DOMAIN handed = DOMAIN reader
  <2>1. \A p \in Parts : output[p] = Shuffled(p) /\ DOMAIN output = Parts
    BY DEF ReduceInv
  <2>2. DOMAIN output = Parts /\ DOMAIN task = DOMAIN reader /\ DOMAIN handed = DOMAIN reader
    BY DEF ReduceInv, TypeInv
  <2>3. \A t \in DOMAIN reader : ~HoldsRecord(reader[t])
    BY <2>2 DEF ReduceInv, SplitInv
  <2> QED
    BY <2>1, <2>2, <2>3, SplitRead
(* Every record of a part is one that was handed on.                       *)
<1>2. ASSUME NEW o \in OutputRecords
      PROVE  /\ o = <<o[1], o[2]>> /\ o[1] \in Parts /\ o[2] \in Int
             /\ \E h \in Mine(o[1]) : output[o[1]][o[2]] = PositionOf(h)
  <2>1. PICK p \in Parts : o \in {<<p, n>> : n \in DOMAIN output[p]}
    BY <1>1 DEF OutputRecords
  <2>2. PICK n \in DOMAIN output[p] : o = <<p, n>>
    BY <2>1
  <2>3. PICK N \in Nat : \E f : CountsOff(f, N, p)
    BY ShuffledIs
  <2>4. PICK f : CountsOff(f, N, p)
    BY <2>3
  <2>5. n \in DOMAIN Shuffled(p) /\ output[p][n] = Shuffled(p)[n]
    BY <1>1, <2>2
  <2>6. n \in 1 .. N /\ output[p][n] = PositionOf(f[n]) /\ f[n] \in Mine(p)
    BY <2>4, <2>5 DEF CountsOff
  <2> QED
    BY <2>2, <2>6
(* Two records of a part come in the order of the shuffle.                 *)
<1>3. ASSUME NEW o \in OutputRecords, NEW q \in OutputRecords, o[1] = q[1], o[2] < q[2]
      PROVE  /\ KeyAt(output[o[1]][o[2]]) <= KeyAt(output[q[1]][q[2]])
             /\ output[o[1]][o[2]] # output[q[1]][q[2]]
  <2> DEFINE p == o[1]
             m == o[2]
             n == q[2]
  <2>1. p \in Parts /\ m \in DOMAIN output[p] /\ n \in DOMAIN output[p]
    BY <1>1, <1>3 DEF OutputRecords
  <2>2. PICK N \in Nat : \E f : CountsOff(f, N, p)
    BY ShuffledIs
  <2>3. PICK f : CountsOff(f, N, p)
    BY <2>2
  <2>4. /\ m \in DOMAIN Shuffled(p) /\ n \in DOMAIN Shuffled(p)
        /\ output[p][m] = Shuffled(p)[m] /\ output[p][n] = Shuffled(p)[n]
    BY <1>1, <2>1
  <2>5. /\ m \in 1 .. N /\ n \in 1 .. N /\ m < n
        /\ output[p][m] = PositionOf(f[m]) /\ output[p][n] = PositionOf(f[n])
    BY <1>3, <2>3, <2>4 DEF CountsOff
  <2>6. /\ f[m] \in Handed /\ f[n] \in Handed
        /\ ShuffledBefore(f[m], f[n]) /\ f[m] # f[n]
    BY <2>3, <2>5 DEF CountsOff, Mine
  <2>7. KeyAt(PositionOf(f[m])) \in Int /\ KeyAt(PositionOf(f[n])) \in Int
    BY <2>6, HandedKnown
  <2>8. KeyAt(PositionOf(f[m])) <= KeyAt(PositionOf(f[n]))
    BY <2>6, <2>7 DEF ShuffledBefore
  <2>9. PositionOf(f[m]) # PositionOf(f[n])
    BY <2>6, PositionsDiffer
  <2> QED
    BY <1>3, <2>5, <2>8, <2>9
<1>4. ASSUME NEW o \in OutputRecords, NEW q \in OutputRecords,
             output[o[1]][o[2]] = output[q[1]][q[2]]
      PROVE  o = q
  <2>1. PICK g \in Mine(o[1]) : output[o[1]][o[2]] = PositionOf(g)
    BY <1>2
  <2>2. PICK h \in Mine(q[1]) : output[q[1]][q[2]] = PositionOf(h)
    BY <1>2
  <2>3. g \in Handed /\ h \in Handed /\ g = h
    BY <1>4, <2>1, <2>2, PositionsDiffer DEF Mine
  <2>4. o[1] = q[1]
    BY <2>3 DEF Mine
  <2>5. ~(o[2] < q[2]) /\ ~(q[2] < o[2])
    BY <1>3, <1>4, <2>4
  <2>6. o[2] \in Int /\ q[2] \in Int /\ o = <<o[1], o[2]>> /\ q = <<q[1], q[2]>>
    BY <1>2
  <2>7. o[2] = q[2]
    BY <2>5, <2>6
  <2> QED
    BY <2>4, <2>6, <2>7
(* Every record that was handed on is in a part.                           *)
<1>5. ASSUME NEW h \in Handed
      PROVE  \E o \in OutputRecords : output[o[1]][o[2]] = PositionOf(h)
  <2> DEFINE p == PartOf[KeyAt(PositionOf(h))]
  <2>1. p \in Parts /\ h \in Mine(p)
    BY HandedKnown DEF Mine
  <2> HIDE DEF p
  <2>2. PICK N \in Nat : \E f : CountsOff(f, N, p)
    BY ShuffledIs
  <2>3. PICK f : CountsOff(f, N, p)
    BY <2>2
  <2>4. PICK n \in 1 .. N : f[n] = h
    BY <2>1, <2>3 DEF CountsOff
  <2>5. n \in DOMAIN Shuffled(p) /\ Shuffled(p)[n] = PositionOf(h)
    BY <2>3, <2>4 DEF CountsOff
  <2>6. n \in DOMAIN output[p] /\ output[p][n] = PositionOf(h)
    BY <1>1, <2>1, <2>5
  <2>7. <<p, n>> \in OutputRecords
    BY <1>1, <2>1, <2>6 DEF OutputRecords
  <2>8. <<p, n>>[1] = p /\ <<p, n>>[2] = n
    OBVIOUS
  <2> QED
    BY <2>6, <2>7, <2>8
<1>6. {PositionOf(h) : h \in Handed} = UNION {RecordsOf(t) : t \in DOMAIN task}
  <2>1. ASSUME NEW h \in Handed
        PROVE  PositionOf(h) \in UNION {RecordsOf(t) : t \in DOMAIN task}
    <3>1. h[1] \in DOMAIN reader /\ h[2] \in DOMAIN handed[h[1]]
      BY HandedKnown
    <3>2. PositionOf(h) \in RecordsOf(h[1])
      BY <1>1, <3>1 DEF PositionOf
    <3> QED
      BY <1>1, <3>1, <3>2
  <2>2. ASSUME NEW t \in DOMAIN task, NEW r \in RecordsOf(t)
        PROVE  \E h \in Handed : r = PositionOf(h)
    <3>1. PICK n \in DOMAIN handed[t] : r = handed[t][n]
      BY <1>1
    <3>2. <<t, n>> \in Handed
      BY <1>1 DEF Handed
    <3>3. PositionOf(<<t, n>>) = handed[t][n]
      BY DEF PositionOf
    <3> QED
      BY <3>1, <3>2, <3>3
  <2> QED
    BY <2>1, <2>2
<1>7. {output[o[1]][o[2]] : o \in OutputRecords} = {PositionOf(h) : h \in Handed}
  <2>1. \A o \in OutputRecords : \E h \in Handed : output[o[1]][o[2]] = PositionOf(h)
    BY <1>2 DEF Mine
  <2> QED
    BY <1>5, <2>1
<1>8. {output[o[1]][o[2]] : o \in OutputRecords} = UNION {RecordsOf(t) : t \in DOMAIN task}
  BY <1>6, <1>7
<1>9. (\A t \in DOMAIN task : ReadToEnd(t)) =>
        {output[o[1]][o[2]] : o \in OutputRecords} = InputRecords
  BY <1>8, SplitsCover
<1> QED
  BY <1>3, <1>4, <1>8, <1>9

(* The parts of a job that succeeds hold once, and in order, every record  *)
(* the map tasks were handed; when every split was read to its end, these  *)
(* are all records of the input, and a read that ends inside a record      *)
(* leaves out that record and the rest of its split.  This is so for all   *)
(* inputs, sizes and hashes, however many attempts fail                    *)
(* (HashInputFormat.nextKeyValue, HashOutputFormat.write and close).       *)
THEOREM JobSorts == Spec => []OutputComplete
<1>1. Init => IInv /\ MeasureInv /\ KnownInv /\ SplitInv /\ ReduceInv
  BY InitIInv, InitMeasure, InitKnown, InitSplit, InitReduce
<1>2. IInv /\ MeasureInv /\ KnownInv /\ SplitInv /\ ReduceInv /\ [Next]_vars
        => (IInv /\ MeasureInv /\ KnownInv /\ SplitInv /\ ReduceInv)'
  BY NextIInv, NextMeasure, NextKnown, NextSplit, NextReduce
<1>3. IInv /\ SplitInv /\ KnownInv /\ ReduceInv => OutputComplete
  BY OutputIsComplete
<1> QED
  BY <1>1, <1>2, <1>3, PTL DEF Spec

=============================================================================
