# A specification of hashgen and its external sort

The repository holds course projects. Its program logic is `hashgen`
(`cs553-spring2024-hw5-dsasidharannair/hashgen.c`, 596 lines, and the older
copies in `cs553-spring2024-hw4-corrected-dsasidharannair`): a multithreaded C
program that generates a file of BLAKE3 hashes larger than memory and sorts it.
Around it are an older version in two programs, and a Hadoop job that sorts the
same records. This directory specifies them in TLA+, checks them with TLC and
proves their safety properties with TLAPS. Line numbers without a file are those of the hw5
`hashgen.c`.

## 1. Inventory

| component | state | operations |
|---|---|---|
| **Generating phase** (512-574; `hashing`, `sorting`, `writing_write`, `writing_sort`) | array `hashes`, `no_files`, loop counters `j`, `k`, the threads and their arguments, the bucket files | malloc and free of the array, create and join threads, hash one record, sort a slice, store a slice in a bucket |
| **ExternalSort** (187-339) | `inputs`, `records`, `idx`, `sorted`, `output`, loader threads | load a chunk of each bucket, merge step, refill, flush, drain |
| **The program over its files** (489-595, `delete_bins`; benchmark scripts) | working directory, life of the process | generate, merge, remove the buckets, be killed, be started again |
| **Options and utility modes** (350-508) | option variables | getopt; print head (`-p`) or tail (`-r`); `-v`; `-b`; sizes from `-m` and `-s` |
| **hw4 `hashgen.c`** | as hw5 | as hw5; differs only in `total_hash_count` (506-511), one of two fixed values |
| **hw4 `new.c`** | as the generating phase | writes buckets only, adds `write_threads` to `no_files` when each sorter has a writer (314) |
| **hw4 `external_sort.c`** | as ExternalSort | merges existing buckets with 16 load threads and appends to `output.bin`, checks neither `malloc`, `fopen` nor the first `fread` |
| **hw4 benchmark scripts** | the working directory | run hashgen for every combination of options, verify, remove `data.bin` |
| **hw5 `create_files.c`** | one array | writes one piece of consecutive nonces and hashes |
| **hw5 Hadoop sort** (`HashInputFormat`, `HashOutputFormat`, `HadoopSort`) | position and buffer of a reader, stream of a writer | next record of a split, write, close, job set-up |
| **hw5 cluster scripts** | input and output in HDFS | create and append pieces, run the job, remove both |
| **`SparkSort.py`, evaluation scripts, hw2, hw3, wa1** | none of their own | run benchmarks, read logs, draw plots |
| **BLAKE3, `hashverify`, `vault`** | vendored or prebuilt | called, not specified |

`cs553-spring2024-hw4-dsasidharannair` is an empty submodule.

How they interact. `main` and its threads share `hashes` without a lock; only
`pthread_join` separates the phases. The generating phase and `ExternalSort`
share only the files `bucket_<n>.bin` and the number `no_files`: a thread that
could not write its bucket tells nobody, and the merge finds out by opening it.
Runs share only the directory: the output is opened for appending, buckets are
overwritten, and `delete_bins` removes what `no_files` counts.

What is hard in it, and what correctness means:

* *Data races and phases.* Slices of one array, computed in four functions with
  two formulas and a remainder, must be disjoint within a phase and separated by
  the joins between phases.
* *Integer divisions.* `iterations`, slices, `write_iter`, `write_segment`,
  `records_per_read`, `divider` and the batches of loaders all truncate. Which
  options lose records, which produce buckets that are not sorted, and which read
  memory nobody wrote, is not obvious from the code, and nothing refuses them.
* *Unreported failures.* `fwrite` is checked nowhere, `fopen` of a bucket only to
  skip it. What is written must still be sorted and free of repetitions.
* *Refill and flush.* A chunk is consumed through `idx`, refilled in place or
  given up, while the output buffer is flushed at its own rhythm.
* *Kill and rerun.* Whatever a killed run leaves behind, the next one must write
  the right file and clean up.
* *Programs joined by hand.* `new.c` prints a number, a user types it after
  `external_sort -n`, a script types `rm` after each step: what one run leaves is
  what the next one finds.
* *Streams of bytes.* The Hadoop reader cuts records out of buffers that a read may
  leave partly filled, and is started again when a task fails.
* *Termination.* No `pthread_join` waits for ever and `while (1)` (285) ends.

`PROJECT.json` lists each hazard with its line and the properties about it.

## 2. Modules

    Options           the command line, the modes and the sizes
    Slices            how an array is cut among threads
    HashgenGlobals    options, sizes, bucket files: what the phases share
      Generate        the generating phase            (EXTENDS both)
      ExternalSort    the merge                       (EXTENDS HashgenGlobals)
        SortedFile      what the merge, and the program, promise (abstract)
      Hashgen         the program over its files; INSTANCEs Generate and ExternalSort
    BucketFiles       what the two programs of hw4 share
      NewGenerate     new.c                           (EXTENDS BucketFiles, Slices)
      MergeTool       external_sort.c                 (EXTENDS BucketFiles)
        TwoPrograms   one after the other             (EXTENDS both)
    HashJob           the Hadoop job
      HadoopCluster   create_files and the script around the job (EXTENDS HashJob)
    OptionProofs                                                 theorems: the command line
    SlicesProofs, GenerateProofs, RecordProofs                   theorems: generating
    MergeProofs                                                  theorems: merging
    HashgenProofs (INSTANCEs RecordProofs and MergeProofs)       theorems: the program
    TwoProgramProofs                                             theorems: the two programs
    HadoopProofs                                                 theorems: the Hadoop sort
    MCOptions, MCGenerate, MCExternalSort, MCHashgen, MCTwoPrograms, MCHadoopCluster
                      give TLC command lines, tables of hashes and counts

**HashgenGlobals.** A record is its nonce (a number); its hash is `Hash[nonce]`,
a number that compares as `memcmp` compares the ten bytes (82, 289). Two nonces
may have one hash, and in every instance some do. The sizes are constants,
`max_records` standing for `(max_mem * 1048576) / 16` (504 and again 232) and
`total_hash_count` for the value of 507. `bucket` is the directory: a function
from the numbers of existing files to their records. `pc` is where `main` is;
`spawned` and `joined` count the turns of the create and join loops.

**Generate.** One action per step of `main` or of a thread:

| action | code |
|---|---|
| `Malloc`, `LeaveLoop`, `Free` | head and end of the loop over `j` (512-514, 563) |
| `Create`, `NoArgument`, `Join` | one turn of a create or join loop (516-559) |
| `HashingDone`, `SortingDone`, `WritingWriteDone`, `WritingSortDone` | going on once all are joined; choice of writer (534), `no_files` (545, 561), next round `k` (549) |
| `HashRecord`, `HashReturn`, `NullStore` | one turn of `hashing`'s loop (102-112), its end, and the loop when `hashes` is NULL |
| `QSort` | `sorting` (117-126): any rearrangement of the slice sorted by hash |
| `OpenBucket` | `fopen(.., "wb")` in both writers (144, 174), which may fail |
| `WriteBucket` | `fwrite` and `fclose` (146, 176), which may store less |

A thread is a *slot*, its role and index (`<<"sorting", 2>>`), in state none,
running, writing (file open) or exited. `arg` is the argument, filled when the
thread is created. Hashing is stepped record by record, so its interleavings are
all explored. `qsort` is one step: no other thread touches its slice, which is
`RaceFree`, checked and proved without relying on the atomicity (it speaks of
every thread that is alive, not of the steps it takes).

**ExternalSort.** `Begin`, `CreateLoader`, `NoArgument`, `JoinLoader`,
`BatchDone`, `LoadFile(f)`, `OpenOutput`, `MergeStep`, `WildRead`, `MergeDone`,
`Drain`. A chunk is not stored: buckets do not change during the merge, so
`records[f][idx[f]]` is `bucket[f][read[f] - records_per_read + idx[f] + 1]`.
Memory nobody wrote is the value `"uninit"`. The test `records[i] != NULL` on it
may take it for NULL (the merge goes on without the bucket) or not (`WildRead`:
`pc = "undefined"`); the same for `inputs[i]` at 335 (`Drain`). A NULL that is
used ends the process (`"crashed"`), as does the division by zero at 234; the
checks that call `exit` lead to `"failed"`.

**Hashgen.** Runs `Generate`'s steps, then `ExternalSort`'s, then `DeleteBin` for
each number below `no_files`, then `Return`. `Kill` may come at any point;
`RunAgain` clears the memory, keeps the directory and removes the output if
`RemovesOutput` says so (the benchmark scripts do: `rm "data.bin"`). The next run starts
at once, or after runs with other options: the scripts change `-t`, `-o` and `-i` from
run to run in one directory (`run_bench_s.sh:9-23`). What such runs do to the directory
is a member of `OtherRuns`: the buckets they write, how far they removed buckets, and
their output (`After`). `foreign` is a history variable: the numbers of the buckets that
such a run wrote last. A kill during
a merge may leave a part of the buffer that was just being flushed. A bucket
whose writer is killed counts as empty: how much of it was written makes no
difference, as the next run opens it with `"wb"` before anything reads it. Full
flushes are multiples of the stdio buffer, so nothing of them stays behind in it
(524288 bytes for each megabyte of `-m`); the last, partial one is followed at
once by `fclose`, and `Drain` does both.

**SortedFile** is the abstract specification: the records that remain go to the
file one at a time, least hash first (`Emit`), until none remains (`Finish`); a
run may `Fail` and leave a prefix; another may `Restart` from nothing. It knows no
buckets, chunks, buffers or threads. `ExternalSort` implements it with
`remaining` = the whole chunks of loaded buckets that are not merged yet (`Sorts`);
`Hashgen` implements it with `remaining` = all nonces not yet merged
(`WritesSortedFile`), so the whole program, killed and rerun, is seen from outside
as that simple process. `Emit` is a `MergeStep`; flushes, refills, loading and the
whole generating phase are stutters.

**Options.** `GetOpt` is one turn of the loop over the options, `EndOfOptions`
chooses between a mode and the generating phase (423), `OpenFile`, `PrintHead`,
`PrintTail`, `CheckSort` and `HashVerify` are the modes, `Sizes` is 500-508 and ends
where `Generate` begins. A command line is a sequence of letters with the number
`atoi` makes of the argument; `edition` tells the hw4 from the hw5 program, which
differ in `total_hash_count` only. The product of line 504 is computed modulo 2^32
into an `int`, or, as compilers may, as `max_mem * 65536`; both outcomes of the
undefined overflow are modelled. `total_hash_count / max_records` converts a
negative `max_records` to `unsigned long long` and the quotient to `int`. Without
`-s` the size is whatever `Garbage` holds. An argument is any `int`, as `atoi` yields them:
a negative `-p` or `-r` is a `size_t` no file is long enough for (`CanRead`), and a count of
threads that is not positive makes an array of that length (500-502), which is undefined:
the program ends there (`BadLength`) or goes on.

**NewGenerate.** `new.c`. A thread's body is one step (`HashSlice`, `SortSlice`), a
writer's two (`OpenFile`, `WriteFile`): `RaceFree`, checked for every pair of threads
that are alive, is what allows it. Its main goes through the same phases as
`Generate`'s, but adds `write_threads` to `no_files` in the first branch (314). `options` is chosen
initially, so that one run covers many combinations of counts and failing calls.

**MergeTool.** `external_sort.c`. `chunk[f]` is stored here, because a chunk may hold
records nobody wrote: the first `fread` (48) is not checked, and what it leaves is
`Junk`, zero bytes or anything else. A bucket that is missing or cannot be opened (45) is a
NULL stream (`"crashed"`), a bucket of an incomplete last batch a wild pointer
(`"undefined"`, `PrintFirst`). `output_open` says whether `fopen` of `output.bin` (120)
returned a stream; one that is NULL is used at the first full buffer or by `fclose`
(`NullOutput`). No `malloc` is checked (`NoMemory`). The file is opened with `"ab"`:
`appended` is what the program writes, `output_bin` the file, with what it held before in
front.

**TwoPrograms.** `NewInit`, `new.c`'s steps, then `StartExternalSort` with the number
that was printed, then the steps of `external_sort`, in a directory that may hold
buckets and an `output.bin` of an earlier run (`found`, one of `Leftovers`), whose buckets
need not be sorted.

**HashJob.** The reader's fields are those of `HashRecordReader`. `NextRecord` and
`NoRecord` are the two results of `nextKeyValue` (40-61), with any number of bytes
returned by `in.read`; a record that is handed on is its position in the input.
`Buffered` is `HashRecordWriter.write`, `CloseWriter` its `close` and the commit of
the file. Splits, shuffle, partition of the keys, and attempts that fail and are
repeated from the start are what the framework does and are marked external. A key
is the hash of the record its first byte belongs to.

**HadoopCluster.** One action per command of the loop at line 7 of
`run_hadoop_cluster1.sh`. `CreateFiles` is `create_files.c`: on a failing `malloc` or
`fopen` it leaves the `data.bin` that was there, on a failing `fwrite` a part of the
piece. No command's result is looked at. `Abort` cuts the script off at any command
except while the job runs, and starts it again over what is left. A file that is
empty is not told apart from one that does not exist.

**Variants.** Several definitions are preceded by a variant of the same name and a
suffix (`SegmentStart_Reset`, `MoreBatches_Fewer`). They are plausible slips
(a missing offset, an off-by-one, a join left out) that no action uses. Put in
place of the definition they stand beside, each makes the property listed with it
in `PROJECT.json` fail: the property would notice that slip.

## 3. What TLC checks

Each `.cfg` is one run. Deadlock is checked in all of them: the end of a run
stutters explicitly (`Over`), so any other stop is an error.

| run | instance | what it shows |
|---|---|---|
| `gen_rounds` | 5 hashing, 6 sorting, 2 writing threads; 12 records of memory, 25 in all | `RaceFree`, `FilledBeforeSort`, `StoredOnce`, `Numbered`, and `LeavesLoop`: three rounds of `writing_sort` in each of two iterations; 12/5 and 25/12 leave remainders |
| `gen_faults` | 4, 2, 3; 6 records, 12 in all; `malloc`, `fopen`, `fwrite` fail | `writing_write`: `MemorySafe`, `BucketsSorted` of incomplete buckets, `BucketsFinal` |
| `merge_any` | 0 to 4 buckets, every distribution of 6 records over them | `MergedExactly`, `MemoryBudget`, `Defined`, and the refinement `Sorts` |
| `merge_faults` | 2, 3 or 5 buckets, 4 records; `malloc`, `fopen`, `fwrite` fail | `MergeOrder`, `NoDuplicates`, `Ends`; 5 buckets do not fit in half of memory |
| `killed_and_rerun` | 2, 2, 1; 8 records, 16 in all; three starts, with or without runs of more threads in between | `CompletedOutput`, `NoBucketLeft`, `OnDisk`, `EndsWell`, `DeletesOnlyMerged`, and the refinement `WritesSortedFile` |
| `program_faults` | 1, 2, 2; 4 records; every call may fail; two starts | `SortedWhateverFails`, `EveryRunEnds` |
| `options` | 13 memory sizes of both signs around the overflows of a scaled `int`; complete lines, lines with one option missing or added, up to three modes; 5 file sizes | `StartsAsAsked`, `MemoryKept`, `LastMode`, `WholeRequest` |
| `two_programs` | ten combinations of 1-3 hashing, 1-3 sorting and 1-4 writing threads with or without failing calls; 4 records of memory, 8 in all; an empty directory, or a used one with five buckets, one of them not sorted, and an output | `RaceFree`, `BucketsSortedIfNested`, `HandedOver`, `CopiesWholeChunks`, `AllRecords`, `Defined`, `Finishes` |
| `hadoop` | two measurements of 1 and 3 pieces; records of 2 bytes, buffers of 4, splits of 6; two attempts per task; up to two failing commands or cut-offs | `InStep`, `OutputComplete`, `MeasuresValue`, `Ends` |
| `unsorted_buckets` | `new.c` with 2 sorting and 3 write threads | finding 2: `IndividuallySorted` fails |
| `unaligned_output` | 3 sorting, 2 writing threads | finding 1: `OutputSorted` fails |
| `leftover_output` | `new.c` and `external_sort` in the used directory | finding 3: `OneSortedFile` fails |

The bounds. The constants scale the real sizes down (65536 records for each
megabyte of `-m`) and keep what matters: `max_records` is even, options divide
each other in some runs and leave remainders in others, chunks are shorter than
buckets so that refills happen, and the buffer is shorter than the output so that
flushes happen. What depends on the sizes beyond that is linear arithmetic on
slices, which is proved for all values. Slices that are sorted have at most four
records, so that `QSort` can enumerate rearrangements. `MaxRuns` bounds the
starts of the program: three allow a kill of a run that itself followed a kill.
Files hold what the program wrote and nothing else; the bucket files of a directory
come from earlier runs with the same options or from `OtherRuns`. In `killed_and_rerun`
these are runs with four sorters: one that was killed while it wrote (six buckets, more
than the four of a run here, one of them just opened), one killed while it removed its
buckets (3 to 7 are left), and one that returned. Runs in one directory have one `-s`, as
within one script.

In `options` the units are scaled so that a 32-bit `int` becomes one of 8 bits, which
both `-m` (from 8 on; below -8 the product is negative no more) and the number of
iterations (`-m 1 -s 100`) overflow;
`MemUnit`, `RecordSize` and `IntLimit` keep their divisibility. In `hadoop`, two
faults are what a stale `data.bin` takes (a cut-off, then a piece that is not created);
`MaxFaults` bounds them and `MaxAttempts` the attempts of a task. A split holds more
than a buffer, input left behind by a failed clean-up makes a second split and
fills a writer's buffer beyond its size.

Properties that hold only for some options name them: `Aligned` (what a writer
stores lies inside what one sorter sorted), `NoRemainder` (the rounds reach the
whole array), `WholeBatches`, and `EvenOptions`, which powers of two satisfy as in
the benchmark scripts. Every instance satisfies the preconditions of the
properties it checks; `merge_any` also has bucket counts that violate
`WholeBatches`, where `MergedExactly` says what is left out. `EvenOptions` holds in
`killed_and_rerun`, where each bucket has four chunks of one record and the output
takes four flushes.

In `TwoPrograms`, `Nested` (what a writer stores lies inside what one sorter
sorted), `WholeRounds`, `FirstChunksFull` (no bucket is shorter than a chunk) and
`EvenOptions` play that part (that no record comes twice, in `CopiesWholeChunks`, needs
`WholeRounds` too: a bucket that no writer opened may be an earlier run's); `MCOptions` of `MCTwoPrograms` has counts on either side
of each. `StartsAsAsked` is about complete command lines whose memory fits an `int`
(`Proper`), `MemoryKept` about all but those with a negative `-m` (below -2048) whose
product wraps around to a positive size. `SortedWhateverFails` is about runs with the same
options when `fopen` may fail: a bucket that cannot be opened for writing is merged as
it was found, and one with other options may hold the same records under another number. `MeasuresValue` speaks of measurements in which
nothing failed since the last complete clean-up, however much failed before: the
history variable `disturbed` is cleared only by `RemoveInput` with nothing left.

Fairness. Weak fairness for `main`, for each thread, for the loaders and for
`delete_bins`: the kernel schedules every thread that can run, and `qsort`,
`fread`, `fwrite` and BLAKE3 return. Weak fairness is enough because an enabled
step of a thread stays enabled until the thread takes it (there are no locks to
compete for). Nothing is assumed about `Kill` and `RunAgain`.
In `TwoPrograms` the user also goes on to start the merge. In `HadoopCluster` the
script goes on when a command returns, and the cluster works on a submitted job;
no fault is certain. `Options` only runs forward and states no liveness.

## 4. What is proved

For every number of threads, records and nonces, and every set of failing calls:

| theorem | statement |
|---|---|
| `SlicesDisjoint`, `SlicesCover` | the slices of `T` threads do not overlap and leave out nothing |
| `OptionsPrintWhole` | `Spec => []WholeRequest`: `-p` and `-r` print as many whole records as asked for, from the right place, or none, because the number is negative or the file shorter |
| `OptionsLastMode` | `Spec => []LastMode`: the last of several modes decides, with its last argument |
| `OptionsAsAsked` | `Spec => []StartsAsAsked`: generation starts with what was asked for, if memory and iterations fit an `int` |
| `OptionsMemoryKept` | `Spec => []MemoryKept`: no `-m` makes the program use more memory than granted, except a negative one whose product wraps around |
| `GenerateTypeCorrect` | `Spec => []TypeOK`: every cell a thread writes exists, every nonce hashed was asked for |
| `GenerateRaceFree` | `Spec => []RaceFree`: threads alive at the same time touch different records and different buckets |
| `GenerateMemorySafe` | `Spec => []MemorySafe`: no thread works on a freed array or beyond its end |
| `GenerateBucketsFinal` | `Spec => BucketsFinal`: a bucket that was closed is never opened again |
| `GenerateNumbers` | `Spec => []Numbered`: the buckets are those `no_files` counts, unless an `fopen` failed |
| `GenerateFills` | `Spec => []FilledBeforeSort`: the array holds every nonce of the iteration before it is sorted, and keeps it |
| `GenerateSorts` | `Spec => []BucketsSorted`: with `Aligned` options, every bucket is sorted, also a truncated one |
| `GenerateStoresOnce` | `Spec => []StoredOnce`: no nonce is stored twice, and without failures none is lost when the rounds reach the whole array |
| `MergeStaysInMemory` | `Spec => []MemoryBudget`: all chunks and the output buffer fit in the memory of `-m` |
| `MergeTypeCorrect` | `Spec => []TypeOK`: every position in a chunk lies in the chunk, and every chunk in its bucket |
| `MergeDefined` | `Spec => []Defined`: nothing that was not loaded is used, without failures and with whole batches |
| `OutputInOrder` | `Spec => []MergeOrder`: at every moment the output is sorted and what is in memory sorts behind it |
| `MergedOnce` | `Spec => []NoDuplicates`: no record is written twice |
| `OutputExact` | `Spec => []MergedExactly`: without failures the output is the whole chunks of the loaded buckets |
| `MergeSorts` | without failures `Spec => Sort!Init /\ [][Sort!Next]_(Sort!vars)`: the merge implements the steps of `SortedFile` |
| `SortsWhateverFails` | `Spec => []SortedWhateverFails` of `Hashgen`: whatever fails and wherever earlier runs were killed, a run that returns leaves a sorted file without repetitions; runs with other options may come in between if `fopen` does not fail |
| `ProgramCompletes` | `Spec => []CompletedOutput`: without failures and remainders that file holds every record once, also among buckets of runs with other options |
| `RecordsOnDisk` | `Spec => []OnDisk`: once generated, every record is in a bucket or in the output at every moment |
| `RemovesBuckets` | `Spec => []NoBucketLeft`: a run that returns removed all buckets with numbers it uses, its own and those it found; only buckets of runs with other options, and with greater numbers, may stay |
| `ProgramEndsWell` | `Spec => []EndsWell`: with whole divisions and without failures no run crashes or stops at a check |
| `DeletesMerged` | `Spec => DeletesOnlyMerged`: a bucket that a run removes was merged and flushed |
| `ProgramSorts` | without failures and remainders `Spec => File!Init /\ [][File!Next]_(File!vars)`: the whole program, killed and rerun, implements the steps of `SortedFile` |
| `NewRaceFree` | `Spec => []RaceFree` for `new.c`: threads alive together share no record and no bucket |
| `NewSorts` | `Spec => []BucketsSortedIfNested`: whatever fails, each bucket `new.c` has opened is sorted; one that is not is as an earlier run left it |
| `NewHandsOver` | `Spec => []HandedOver`: the buckets that are reported hold each record generated in one place, and nothing else |
| `TwoDefined` | `Spec => []Defined`: the programs crash only when `malloc` or `fopen` fails, with nothing to hash or with a bucket missing, and follow a wild pointer only with uneven batches or no memory |
| `TwoCopiesChunks` | `Spec => []CopiesWholeChunks`: the whole chunks of the buckets and nothing else are appended to `output.bin`, in order if the buckets are |
| `TwoSortAll` | `Spec => []AllRecords`: with options that leave no remainder every record is appended once, in order, whatever buckets and output there were |
| `ScriptMeasures` | `Spec => []MeasuresValue`: the job of an undisturbed measurement sorts exactly its pieces |
| `JobSorts` | `Spec => []OutputComplete`: the parts of a job that succeeds hold every record the map tasks were handed once, in order; all of the input, if every split was read to its end |
| `ReaderStaysInStep` | `Spec => []InStep`: a map task is handed the records of its split in order, none twice, none left out, none past its end |

The assumptions are those of `HashgenGlobals` and `Slices`: thread counts and
`max_records` are positive (`ConfigAssumption`), `Hash` is a function of the nonces,
`Faults` names known faults, bucket counts are natural numbers; those of
`NewGenerate` and `MergeTool`: sizes and counts are positive, `max_records` and
`merge_records` even (16 bytes divide a megabyte an even number of times), and the buckets
of an earlier run hold records of the same program (`NewAssumption`); and those of
`HashJob` and `HadoopCluster`: sizes are positive, hashes are naturals and the
partitioner gives each a reduce task of the job, every nonce of a measurement has a hash, and
the script lists at least one size (`for value in 16 32`); and those of `Options`: the
units are positive and divide each other as theirs do, an argument is an `int`
(`LinesAssumption`), and an `unsigned long long` is wide enough for any `int` number of
gigabytes and for the counts of hw4 (`SizesAssumption`). and that of
`Hashgen`: what runs with other options leave are records of the same program
(`OtherRunsAssumption`; nothing is assumed of their order or number). TLC evaluates them in
every run. Where a statement is about
runs in which nothing fails (`Faults = {}`) or about some options (`Aligned`,
`NoRemainder`, `WholeBatches`) the property says so; runs of section 3 satisfy each.

The command line. `StoredInv` says that every variable holds the last argument read for
its option, `ModeInv` that `flag_raised` is the last mode read; since they speak of the
options read so far, one turn of the loop keeps them without any induction over the
line. What the modes print and the sizes are functions of these variables (`ExitInv`,
`SizesInv`), and the rest is arithmetic. It showed two conditions that are easily
missed: the number of iterations is an `int` too (508), so `StartsAsAsked` needs
`-s` to be less than 2^31 times `-m` megabytes; and `MemoryKept` needs the total
to be so small that dividing it by a negative `max_records`, converted to an unsigned
number, gives 0 iterations (`NegativeRecords`), and a negative product not to wrap around.

The argument for the generating phase. `RaceFree` is not inductive: it says nothing of who may be created
next. `IInv` adds `MainInv`, which ties `spawned`, `joined`, `j` and `k` to `pc`, and
`ThreadInv`: a thread that was created and not joined belongs to the phase `main`
is in, has an index from `joined` to `spawned - 1`, and carries `main`'s *current*
`j`, `k` and `no_files`. So no thread of an earlier phase or round survives a
barrier (`BarrierEmpty`), and two threads that are alive are of one role and one
round. Then `TouchesWithin` and `TouchesApart` reduce the claims to the
arithmetic of `Slices`. There is one lemma per action for the induction step, and
`NextIInv` puts them together.

`BucketsFinal` needs to know where the existing numbers lie. `Numbering` says: a
bucket that exists is below `round_start`, the first number of the current round, or
is `round_start + n` for a writer `n` of this round that has passed its `fopen`. So a
writer about to open its bucket finds its number unused (`OpensNew`). When a round
ends the numbers move below the next `round_start` (`InRound`), and
`no_files += sort_threads` is never too little because
`write_threads * write_iter <= sort_threads` (`RoundsFit`). After a crash nothing is
claimed, and nothing moves. `Present` is the converse: every number below
`round_start`, and those of this round's writers that have passed their `fopen`, exist.

What the array holds is followed through the phases by three invariants. `FillInv`: a
hashing thread has stored `j * max_records + c` in every cell `c` of its slice before
its cursor; at the barrier `SlicesCover` gives the whole array, and from then on the
cells hold every nonce of the iteration once (`Filled`), because `QSort` only
permutes a slice nobody else touches. `SortInv`: a slice whose sorter
has exited is sorted, and no later step of the iteration changes it; a writer's slice
lies inside one of them (`WritesOneSlice`, where `Aligned` is needed). `PlaceInv`: what is in a bucket comes from an
earlier iteration, an earlier round, or its writer's slice of this round, which are
disjoint parts of what was hashed. A bucket is empty between its `fopen` and its
`fwrite`, so no step can store a nonce a second time. `StoredInv` is the other half: the
earlier iterations, the cells before this round's segment, and the slices of the
writers that have returned are all stored.

`MemoryBudget` follows from one fact that is inductive: past `Begin` there is at
least one bucket (`BucketCount`). The rest is arithmetic: live chunks are a subset of
`no_files` buckets, and `no_files * (divider \div no_files) <= divider`.

For the rest of the merge the invariant is `IInv` of `MergeProofs`: `LoaderInv` says
which loaders of a batch ran and what they assigned, `ChunkInv` that a bucket was read in
whole chunks and is given up only when less than one is left, `IdxInv` that `idx` lies
in the chunk. So the next record of a bucket is its record number
`read - records_per_read + idx`, `Taken(f)`, which a merge step and a refill both leave
right: a refill moves `read` by a chunk and `idx` back by one. `MergeOrder` is inductive
on top of it, since buckets are sorted and do not change. `NoDuplicates` and
`MergedExactly` need `OnceInv`: a record lies in one bucket at one place (`Distinct`),
and what was merged is what was taken, one prefix of every bucket (`TakenRecords`).
For the refinement `left`, the records of `ToMerge` that were not merged, stands for
`remaining`. The candidates of a merge step are the first records of what is left of
the buckets, so their least is the least of all that remains, read or not
(`SortedFile`'s `Emit`); when there is no candidate nothing remains (`Finish`). Every
other step leaves both unchanged.

The program. `HashgenProofs` takes the two phases as they were proved: `GP` is
`RecordProofs`, `EP` is `MergeProofs`, and a step of the program in a phase is a step of
that module (`GeneratingStep`, `MergingStep`). One thing differs. On its own the merge
starts with a file for every number below `no_files`; here a bucket may be missing, because
its writer could not open it. So `EP` is instantiated with `here`, the directory with an
empty bucket in each such place, and a missing bucket can only be one that fails to open
(`Missing`).

A directory may hold buckets of runs with other options, of which the generating phase
knows nothing. So `GP` is instantiated with `ours`, the buckets that are not `foreign`: an
`fopen` makes a foreign bucket ours and empties it, whatever was in it, as it does with one
that did not exist (`OthersLeave`, that other runs leave `ours` with buckets of ours only). Once all
writers are done without a failing `fopen`, every number of this run is ours (`AllWritten`),
so that the merge opens none but ours (`MergesOurs`); with a failing `fopen` there must be no
foreign bucket (`Clean`).

`ProgramInv` is the inductive invariant, for aligned options and an output that no earlier
run wrote to. While the program is in a phase it contains the invariants of that phase
(`GenerationInv`, `MergeInv`), and between them what one hands to the other: `HandOver`
derives the merge's invariant, including that a record lies in one bucket, from the
generating phase's when `pc` reaches `ExternalSort`. The invariants of a phase speak of
buckets it wrote itself; those an earlier run with these options left are described by `DirectoryInv`: whichever
of them wrote it, a bucket of `ours` holds sorted records of the one slice of the one iteration that its
number stands for, none twice. So a bucket of an earlier run is harmless even where this run
could not overwrite it, which is what makes `SortedWhateverFails` true; `RunBegins` shows that a run that
finds such a directory starts with its invariants. `MergeReturns` and `WrittenInv` carry
the result past the merge, while `delete_bins` removes buckets. With
`EvenOptions` the batches come out even (`EvenMerge`) and every bucket is a whole number of
chunks, so what the merge is about is all nonces (`AllToMerge`), and `CompletedOutput`, `OnDisk`, `NoBucketLeft` and
`DeletesOnlyMerged` follow.

For `ProgramSorts` only a merge step (`Emit`), the return (`Finish`), a kill (`Fail`)
and a new start (`Restart`) are seen from outside. `MergingSeen` takes over what
`MergeSorts` proved. A kill cuts off what is still in the buffer, which leaves a prefix of what was
merged (`CutBack`); all other steps, of main and of each thread, change nothing of it.

The two programs. `NewInv` is to `new.c` what the `IInv` of `GenerateProofs` is to
`hashgen.c`; the body of a thread being one step, a writer is alive between two of them
only. `FillInv` and `SortInv` are as above. `HandedOver` needs `Held`: buckets `0` to
`no_files - 1` hold the records of the iterations that are over, each in one place. During
the writing phase `RoundInv` adds that the writers that were joined have written their
part; a part is written whole, also over a file of an earlier run, since `fopen` truncates.
The parts of all rounds are the array (`PartCellReached`, `PartCellUnique`), so one more
iteration is held when the last round ends (`IterationHanded`). `SortedInv` says that these
buckets are sorted without assuming it of an earlier run's: every one of them was written.
For `NewSorts`, about all buckets of the directory, one is either sorted or `AsFound`.

In `external_sort.c`, `LoaderInv` ties `loop`, `spawned` and `joined` to the load threads and
to `records[f]`; at `PrintFirst` all batches are done, and a file without `records[f]` can
only lie behind the last of them (`Defined`). `ReadInv`: a bucket that fills a chunk is read
one chunk far, with nothing unwritten in it. `CopyInv`: what is in the file and in the
buffer, `Out`, is the first `Taken(f)` records of every bucket, in order if the buckets are,
without repetitions, and not behind any record in memory (`Sorts`). A merge step takes
record `Taken(f) + 1` of the bucket whose record is least (`SmallIdx`; that there is a least
one is well-foundedness of the naturals), and counts `Taken` up whether it stays in
the chunk, refills it or gives the bucket up (`TakenByMerge`): a bucket is given up when
less than a chunk is left, and then `Taken` is the length of its whole chunks. Without a
candidate all whole chunks are taken (`AllTaken`); with `EvenOptions` they are the buckets,
which hold all nonces, so the file has as many records as there are nonces (`CountedOnce`).

`InStep` needs to know where a reader stands: `ReaderInStep` says that the next byte
of its buffer is where the records it has handed on end, and that what is left in the
buffer lies before the end of the split. A read moves the buffer but not that position
(`FilledInStep`), handing a record on moves both (`HandingOn`), and a new attempt
starts from nothing (`NewReader`). The input may hold anything, also after pieces
that broke off, and reads may return any number of bytes.

`OutputComplete` follows the records on from there. `KnownInv`: all bytes of the input and
of `data.bin` belong to records that have a hash. `SplitInv`: the splits lie one behind the
other and do not move, and a map task that is done has no record of its split left, so
what it handed on is `RecordsOf` its split (`SplitRead`), and no position is in two splits
(`PositionsDiffer`). The shuffle of a reduce task lists what was handed on
in the order of the keys; that such a list exists and is unique is `Ranks`: in a finite
set with a strict total order, the number of predecessors counts the set off from 0
(`ShuffledIs`). `ReduceInv`: what a reduce task has written out, what is in its buffer and
what it has still to write are always, joined, what the shuffle brought it; a buffer that is
full moves to the file without a change of order, and a new attempt starts the list again.
When every split was read to its end, the splits together are the input (`SplitsCover`).

`MeasuresValue` follows from `MeasureInv`: without a disturbance the input is
`Through(i - 1)` while piece `i` is created and `Through(i)` once it is appended, where
the pieces are joined byte by byte (`PiecesJoin`), `data.bin` is the piece that was
created, and no output is in the job's way. `RemoveInput` clears `disturbed` only
when it leaves both empty, which is `Through(0)` of the next measurement.

Only model-checked:

* Liveness (`LeavesLoop`, `Ends`, `EveryRunEnds`, `Finishes`) and the fairness of the two
  refinements (`Sorts` beyond `MergeSorts`, `WritesSortedFile` beyond `ProgramSorts`):
  outside what the prover does.

## 5. Findings

1. `-o` not a multiple of `-i` (with `-i` smaller): `write_iter` (547) truncates, the
   rounds of `writing_sort` cut across slices that were sorted separately, buckets
   are not sorted, and neither is the output of a run that returns normally. The comment
   at 222 promises an "External sort where adequate files are loaded into memory and is
   sorted and wirtten to a single output file".
2. `new.c` with `-i` greater than `-o` and not a multiple of it: `writing_write` (115)
   cuts across slices that were sorted separately. The README of hw4 promises (line
   42) "the creation of n number of individually sorted buckets".
3. `external_sort.c` appends to `output.bin` (120), and nothing removes one that is there:
   in a directory where the two programs were run before, the file is not one sorted file.
   The README of hw4 promises (line 42) "a single output file called output.bin which
   contains all the records".

`hashgen.c` opens its output with `"ab"` too (280). The scripts remove the file after every
run, and its properties say so (`RemovesOutput`); a user who does not gets sorted files one
after the other.

The preconditions of the passing properties say where else records are lost
without a message: a total that is not a multiple of `max_records` (508), a bucket
that is not a multiple of `records_per_read` (319), a number of buckets that is not
a multiple of `write_threads` (261), more buckets than `divider` (234). Those of
`AllRecords` are what the two-program version needs: without them `external_sort` loses the
tail of a bucket (150), merges what nobody wrote (48), or uses a wild pointer (114).

A split in which a read ends inside a record is cut there without a message, and the job
succeeds (`HashInputFormat.java:60`); `OutputComplete` says which records that leaves out.

A run of `hashgen` that follows one that was killed with more sorting threads leaves that
run's last buckets behind: `delete_bins` goes up to its own `no_files` (`NoBucketLeft`).
They do no harm until a later run has that number and cannot open its own bucket of it for
writing: it merges what it finds.

## 6. Not modelled

* What the modes print, and what `hashverify` does with the `0` or `1` that is left of
  `-b`'s number (399).
* In `external_sort.c`, a failing `fwrite` and a command line without `-n`
  (an uninitialised number of buckets).
* In the modes of the command line, a failing `malloc` of the records to print.
* Runs in one directory with different `-s`: the scripts keep it the same. When `fopen`
  fails, leftovers of runs with other options (`SortedWhateverFails` says so).
* Speculative execution, failing commits and a job that goes on after its script was
  cut off: they are decided by the cluster's configuration. The steps of the scripts
  that only measure (sysstat, `lxc file pull`), and `run_hadoop_cluster2.sh`, which is
  the same loop on other machines.
* `pthread_create` failing, read errors of `fread`, a failing `remove`: no call site
  looks at them, and the program's few threads and freshly written files do not
  provoke them. A short file is modelled (it is what a failing `fwrite` leaves).
* A failing `malloc` of `sorted` (281) is taken to end the process at `OpenOutput`
  rather than at the first copy a few lines later; nothing was written in between.
* BLAKE3 itself, progress messages, times, statistics.
* hw2, hw3, wa1, `SparkSort.py` and the plots have no logic of their own.

## 7. Plan

Order of work, most important behaviour first:

1. done: `Slices`, `HashgenGlobals`, `Generate`, `ExternalSort`, `SortedFile`,
   `Hashgen`, and the proofs of the generating phase listed above.
2. done: `Options`, the command line, the modes and the sizes at their C widths.
3. done: `NewGenerate`, `MergeTool`, `TwoPrograms`, the two-program version of hw4.
4. done: `HashJob` and `HadoopCluster`, and the proof about the record reader.
5. done: all invariants of `Generate` and `ExternalSort`, the steps of the refinement of
   `SortedFile`, and all invariants of the Hadoop job and its script, as theorems.
6. done: all invariants of `TwoPrograms` and of `Options`, as theorems.
7. done: all invariants of `Hashgen`, its action property, and the steps of the refinement
   of `SortedFile` by the whole program, as theorems. What is left to TLC is liveness and
   fairness.
