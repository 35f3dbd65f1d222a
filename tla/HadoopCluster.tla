---------------------------- MODULE HadoopCluster ----------------------------
(***************************************************************************)
(* The measurement of the Hadoop sort: run_hadoop_cluster1.sh, which has   *)
(* create_files make one piece of the input after the other, appends each  *)
(* to the input in HDFS, runs the job of HashJob and cleans up.  The script*)
(* checks the result of no command.  It may also be cut off and started    *)
(* again, and finds what the run before left in the directory and in HDFS. *)
(***************************************************************************)
EXTENDS HashJob

CONSTANTS
  Values,             \* the sizes measured, <<16, 32>>
  total_hash_count,   \* the records of one piece
  MaxFaults           \* bound: commands that fail, and cut-offs of the script

ASSUME ClusterAssumption ==
  /\ Values \in Seq(Nat \ {0}) /\ Values # <<>>
  /\ total_hash_count \in Nat \ {0}
  /\ \A v \in DOMAIN Values : 0 .. (Values[v] * total_hash_count - 1) \subseteq DOMAIN Hash
  /\ MaxFaults \in Nat

VARIABLES
  pc,         \* the command of the script that is next
  value, i,   \* the index of the size measured, and the loop over its pieces
  data,       \* the bytes of data.bin; <<>> when there is none
  faults,     \* how many commands failed, and how often it was cut off
  disturbed   \* history: one of these since the last complete clean-up

scriptVars == <<pc, value, i, data, faults, disturbed>>
vars == <<input, jobVars, scriptVars>>

-----------------------------------------------------------------------------
(* create_files *)

(* The records of the nonces from first to last - 1, as bytes. *)
Bytes(first, last) ==
  [b \in 1 .. ((last - first) * RecordBytes) |->
     <<first + (b - 1) \div RecordBytes, (b - 1) % RecordBytes>>]

start_index(n) == total_hash_count * (n - 1)

end_index(n) == total_hash_count * n

Undisturbed == UNCHANGED <<faults, disturbed>>

Disturbed == faults < MaxFaults /\ faults' = faults + 1 /\ disturbed' = TRUE

(* create_files -n n.  It crashes without touching data.bin when malloc or *)
(* fopen fails, and does not notice that fwrite stored less than a piece.  *)
CreateFiles ==
  LET piece == Bytes(start_index(i), end_index(i)) IN
  /\ pc = "create"
  /\ \/ data' = piece /\ Undisturbed
     \/ UNCHANGED data /\ Disturbed
     \/ (\E b \in 1 .. (Len(piece) - 1) : data' = SubSeq(piece, 1, b)) /\ Disturbed
  /\ pc' = "append"
  /\ UNCHANGED <<input, jobVars, value, i>>

-----------------------------------------------------------------------------
(* The script *)

Init ==
  /\ input = <<>> /\ output = <<>> /\ data = <<>>
  /\ job = "none"
  /\ reader = <<>> /\ handed = <<>> /\ task = <<>> /\ writer = <<>>
  /\ pc = "create" /\ value = 1 /\ i = 1
  /\ faults = 0 /\ disturbed = FALSE

(* hdfs dfs -appendToFile, which may break off. *)
AppendToFile ==
  /\ pc = "append"
  /\ \/ input' = input \o data /\ Undisturbed
     \/ (\E b \in 0 .. (Len(data) - 1) : input' = input \o SubSeq(data, 1, b)) /\ Disturbed
  /\ pc' = "rm_data"
  /\ UNCHANGED <<jobVars, value, i, data>>

RemoveData ==
  /\ pc = "rm_data"
  /\ data' = <<>> /\ i' = i + 1
  /\ pc' = IF i + 1 <= Values[value] THEN "create" ELSE "submit"
  /\ UNCHANGED <<input, jobVars, value, faults, disturbed>>

(* yarn jar: the script waits for the job. *)
RunJob ==
  /\ pc = "submit"
  /\ SubmitJob
  /\ pc' = "running"
  /\ UNCHANGED <<value, i, data, faults, disturbed>>

JobEnded ==
  /\ pc = "running" /\ job \in {"succeeded", "failed"}
  /\ job' = "none"
  /\ reader' = <<>> /\ handed' = <<>> /\ task' = <<>> /\ writer' = <<>>
  /\ pc' = "rm_output"
  /\ UNCHANGED <<input, output, value, i, data, faults, disturbed>>

RemoveOutput ==
  /\ pc = "rm_output"
  /\ \/ output' = <<>> /\ Undisturbed
     \/ UNCHANGED output /\ Disturbed
  /\ pc' = "rm_input"
  /\ UNCHANGED <<input, job, reader, handed, task, writer, value, i, data>>

(* Variant: the loop measures the same size again.                         *)
NextValue_Same == value

NextValue == value + 1

(* Variant: the last command of a measurement was left out.                *)
InputRemoved_Not == input

InputRemoved == <<>>

(* The clean-up is complete when both commands did what they are for.      *)
RemoveInput ==
  /\ pc = "rm_input"
  /\ \/ /\ input' = InputRemoved /\ disturbed' = (DOMAIN output # {})
        /\ UNCHANGED faults
     \/ UNCHANGED input /\ Disturbed
  /\ value' = NextValue /\ i' = 1
  /\ pc' = IF NextValue <= Len(Values) THEN "create" ELSE "ended"
  /\ UNCHANGED <<jobVars, data>>

(* The script is cut off while no job runs, and started again. *)
Abort ==
  /\ pc \notin {"running", "ended"}
  /\ Disturbed
  /\ pc' = "create" /\ value' = 1 /\ i' = 1
  /\ UNCHANGED <<input, jobVars, data>>

Script ==
  \/ CreateFiles \/ AppendToFile \/ RemoveData \/ RunJob
  \/ JobEnded \/ RemoveOutput \/ RemoveInput

(* What the cluster does while the script waits. *)
Cluster == JobProgress /\ UNCHANGED scriptVars

Fault == (JobFault /\ UNCHANGED scriptVars) \/ Abort

Ended == pc = "ended" /\ UNCHANGED vars

Next == Script \/ Cluster \/ Fault \/ Ended

(* The script goes on when a command returns, and the cluster works on a   *)
(* job.  No fault is certain.                                              *)
Spec == Init /\ [][Next]_vars /\ WF_vars(Script) /\ WF_vars(Cluster)

-----------------------------------------------------------------------------
(* Properties *)

(* The positions of the records a split holds, as many as were handed on   *)
(* when the reader stopped at a part of a record.                          *)
RecordsOf(t) ==
  LET r == reader[t]
      last == IF r.current_position < r.end_position THEN Position(r) ELSE r.end_position
  IN  {p \in r.start_position .. (last - RecordBytes) : (p - r.start_position) % RecordBytes = 0}

OutputRecords == UNION {{<<p, n>> : n \in DOMAIN output[p]} : p \in DOMAIN output}

(* A map task is handed the records of its split one after the other from  *)
(* its start, however many bytes a read returned and however often the task*)
(* was tried: no record twice, none left out, none past the end of the     *)
(* split (HashInputFormat.nextKeyValue).                                   *)
InStep ==
  \A t \in DOMAIN handed : \A n \in DOMAIN handed[t] :
    /\ handed[t][n] = reader[t].start_position + (n - 1) * RecordBytes
    /\ handed[t][n] + RecordBytes <= reader[t].end_position

(* The positions of all whole records of the input. *)
InputRecords == {p \in 0 .. (Len(input) - RecordBytes) : p % RecordBytes = 0}

ReadToEnd(t) == reader[t].current_position >= reader[t].end_position

(* When the job succeeds, its parts hold once each record a map task was   *)
(* handed: all of a split that was read to its end, and, of a split in     *)
(* which a read broke off inside a record, everything before that one.  If *)
(* every split was read to its end, that is every record of the input.     *)
(* Every part is in the order of the hashes, whatever attempts failed      *)
(* (HashOutputFormat.write and close, HashInputFormat.nextKeyValue).       *)
OutputComplete ==
  job = "succeeded" /\ DOMAIN output # {} /\ pc = "running" =>
    /\ {output[o[1]][o[2]] : o \in OutputRecords} = UNION {RecordsOf(t) : t \in DOMAIN task}
    /\ (\A t \in DOMAIN task : ReadToEnd(t)) =>
         {output[o[1]][o[2]] : o \in OutputRecords} = InputRecords
    /\ \A o, q \in OutputRecords : output[o[1]][o[2]] = output[q[1]][q[2]] => o = q
    /\ \A o, q \in OutputRecords :
         o[1] = q[1] /\ o[2] < q[2] =>
           KeyAt(output[o[1]][o[2]]) <= KeyAt(output[q[1]][q[2]])

(* A measurement in which no command failed, and which began after a       *)
(* complete clean-up or in an empty HDFS, gives the job the records of the *)
(* nonces from 0 on, value pieces of them and nothing else, whatever       *)
(* happened in measurements before that; and the job finds no output in    *)
(* its way (run_hadoop_cluster1.sh, create_files.c).                       *)
MeasuresValue ==
  ~disturbed /\ pc \in {"submit", "running"} =>
    /\ input = Bytes(0, Values[value] * total_hash_count)
    /\ pc = "submit" => DOMAIN output = {}

(* The script comes to its end, with jobs that succeed or fail, whatever   *)
(* fails on the way (the loops of run_hadoop_cluster1.sh).                 *)
Ends == <>(pc = "ended")

=============================================================================
