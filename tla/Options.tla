------------------------------- MODULE Options -------------------------------
(***************************************************************************)
(* main of hashgen.c before the generating phase: the loop over the        *)
(* options (hashgen.c:366-421), the modes that only look at a file         *)
(* (423-487) and the sizes that the other modules take as constants        *)
(* (500-508), computed at the widths of C.  The hw4 edition of the program *)
(* differs from the hw5 one in the number of records alone.                *)
(***************************************************************************)
EXTENDS Integers, Sequences

CONSTANTS
  CommandLines,   \* the command lines considered, sequences of options
  FileSizes,      \* the sizes in bytes the file of -f may have
  RecordSize,     \* 16
  MemUnit,        \* 1048576
  FileUnit,       \* 1024 * 1024 * 1024
  SmallSize,      \* 1024, the size for which hw4 makes HASH_COUNT_SMALL
  SmallCount,     \* 1 << 26
  BigCount,       \* 1 << 32
  IntLimit,       \* 2^31: an int is below it and not below -2^31
  UllModulus,     \* 2^64
  Garbage         \* what an uninitialised int may hold

ASSUME SizesAssumption ==
  /\ FileSizes \subseteq Nat
  /\ {MemUnit, FileUnit, SmallCount, BigCount, IntLimit, UllModulus} \subseteq Nat \ {0}
  /\ RecordSize \in Nat \ {0, 1}
  /\ MemUnit % (2 * RecordSize) = 0 /\ FileUnit % RecordSize = 0
  /\ (2 * IntLimit) % MemUnit = 0
  /\ UllModulus >= 4 * IntLimit /\ UllModulus >= IntLimit * FileUnit
  /\ SmallCount # BigCount
  /\ \A n \in {SmallCount, BigCount} :
       n < IntLimit * (MemUnit \div RecordSize) /\ n < UllModulus - IntLimit

ModeFlags == {"p", "r", "v", "b"}
Letters == ModeFlags \cup {"t", "o", "i", "m", "s", "d", "f", "h", "?"}

Int32 == (-IntLimit) .. (IntLimit - 1)

(* The last letter is how getopt reports an option that is not in its      *)
(* list; an argument is what atoi makes of it, an int of either sign.      *)
ASSUME LinesAssumption == CommandLines \subseteq Seq(Letters \X Int32)

ASSUME GarbageAssumption == Garbage \subseteq Int32

NoFile == -1
Unset == -1

VARIABLES
  edition,          \* "hw4" or "hw5"
  argv, optind,     \* the command line and how much of it is done
  file,             \* the size of the file named by -f, or NoFile
  pc,               \* where main is
  option,           \* the variables the options are stored in, by letter
  flag_raised,      \* the mode
  printed,          \* the positions in the file of the records printed
  verified,         \* the number hashverify was run with
  max_records, total_hash_count, iterations

sizes == <<max_records, total_hash_count, iterations>>
vars == <<edition, argv, optind, file, pc, option, flag_raised, printed, verified, sizes>>

-----------------------------------------------------------------------------
(* The options *)

(* The globals and most locals start at 0, file_size is not initialised.   *)
Init ==
  /\ edition \in {"hw4", "hw5"}
  /\ argv \in CommandLines /\ optind = 1
  /\ file \in FileSizes \cup {NoFile}
  /\ pc = "getopt"
  /\ \E g \in Garbage : option = [c \in Letters |-> IF c = "s" THEN g ELSE 0]
  /\ flag_raised = "N"
  /\ printed = <<>> /\ verified = Unset
  /\ max_records = 0 /\ total_hash_count = 0 /\ iterations = 0

(* Variant: the arguments of -o and -i are mixed up.                       *)
Stores_Swapped(c) == CASE c = "o" -> "i" [] c = "i" -> "o" [] OTHER -> c

(* The variable an option is stored in. *)
Stores(c) == c

(* A bool keeps of the number of -b only whether it is 0; the words true   *)
(* and 1 are TRUE for -v and -d, everything else is FALSE.                 *)
Stored(c, arg) ==
  CASE c = "b"        -> IF arg # 0 THEN 1 ELSE 0
    [] c \in {"v", "d"} -> IF arg = 1 THEN 1 ELSE 0
    [] OTHER          -> arg

(* Variant: the first mode counts.                                         *)
Raised_First(c) == IF c \in ModeFlags /\ flag_raised = "N" THEN c ELSE flag_raised

Raised(c) == IF c \in ModeFlags THEN c ELSE flag_raised

GetOpt ==
  LET c == argv[optind][1]
      arg == argv[optind][2]
  IN
  /\ pc = "getopt" /\ optind <= Len(argv)
  /\ \/ c = "?" /\ pc' = "usage" /\ UNCHANGED <<option, flag_raised>>
     \/ c = "h" /\ UNCHANGED <<pc, option, flag_raised>>
     \/ /\ c \notin {"?", "h"}
        /\ option' = [option EXCEPT ![Stores(c)] = Stored(c, arg)]
        /\ flag_raised' = Raised(c)
        /\ UNCHANGED pc
  /\ optind' = optind + 1
  /\ UNCHANGED <<edition, argv, file, printed, verified, sizes>>

EndOfOptions ==
  /\ pc = "getopt" /\ optind > Len(argv)
  /\ pc' = IF flag_raised # "N" THEN "fopen" ELSE "sizes"
  /\ UNCHANGED <<edition, argv, optind, file, option, flag_raised, printed, verified, sizes>>

-----------------------------------------------------------------------------
(* The modes *)

(* Without -f the name is NULL, which fopen refuses as well.               *)
OpenFile ==
  /\ pc = "fopen"
  /\ pc' = IF option["f"] = 0 \/ file = NoFile THEN "failure" ELSE "mode"
  /\ UNCHANGED <<edition, argv, optind, file, option, flag_raised, printed, verified, sizes>>

InMode(c) ==
  /\ pc = "mode" /\ flag_raised = c
  /\ UNCHANGED <<edition, argv, optind, file, option, flag_raised, sizes>>

(* fread(.., sizeof(Record), n, f) == n, from this position on.  A negative*)
(* n is a huge size_t, which neither malloc nor the file has room for.     *)
CanRead(n, from) == n >= 0 /\ from + n * RecordSize <= file

(* Read n records there and print them, or give up without printing any.   *)
PrintFrom(n, from) ==
  \/ /\ CanRead(n, from)
     /\ printed' = [i \in 1 .. n |-> from + (i - 1) * RecordSize]
     /\ pc' = "exit"
  \/ ~CanRead(n, from) /\ pc' = "failure" /\ UNCHANGED printed

PrintHead ==
  /\ InMode("p")
  /\ PrintFrom(option["p"], 0)
  /\ UNCHANGED verified

(* Variant: without the fseek.                                             *)
TailPosition_Start(n) == 0

(* fseek refuses to go before the beginning, and stays at the start.       *)
TailPosition(n) == IF n * RecordSize <= file THEN file - n * RecordSize ELSE 0

PrintTail ==
  /\ InMode("r")
  /\ PrintFrom(option["r"], TailPosition(option["r"]))
  /\ UNCHANGED verified

(* With -v true the whole records are read, and that is all: the check of  *)
(* their order is commented out.                                           *)
CheckSort ==
  /\ InMode("v")
  /\ pc' = IF option["v"] = 1 /\ ~CanRead(file \div RecordSize, 0) THEN "failure" ELSE "exit"
  /\ UNCHANGED <<printed, verified>>

HashVerify ==
  /\ InMode("b")
  /\ verified' = option["b"]
  /\ pc' = "exit"
  /\ UNCHANGED printed

-----------------------------------------------------------------------------
(* The sizes *)

ToInt(n) == ((n + IntLimit) % (2 * IntLimit)) - IntLimit
ToUll(n) == n % UllModulus

(* Variant: a record is taken to have half its size.                       *)
MaxRecords_Half(m) == {(m * MemUnit) \div (RecordSize \div 2)}

(* (max_mem * 1048576) / 16 is int arithmetic.  When the product does not  *)
(* fit, the build may have let it wrap around, or may have simplified the  *)
(* expression to max_mem * 65536.                                          *)
MaxRecords(m) ==
  IF m * MemUnit \in Int32 THEN {(m * MemUnit) \div RecordSize}
  ELSE {ToInt(m * MemUnit) \div RecordSize, ToInt(m * (MemUnit \div RecordSize))}

(* hw4: one of two fixed numbers. *)
FixedCount(s) == IF s = SmallSize THEN SmallCount ELSE BigCount

(* hw5: file_size_bytes / 16 *)
CountFor(s) == ToUll(s * FileUnit) \div RecordSize

(* The arrays of thread identifiers have these lengths (500-502): one that *)
(* is not positive is undefined, and the program ends there or goes on.    *)
NoLength == \E c \in {"t", "o", "i"} : option[c] <= 0

BadLength ==
  /\ pc = "sizes" /\ NoLength
  /\ pc' = "crashed"
  /\ UNCHANGED <<edition, argv, optind, file, option, flag_raised, printed, verified, sizes>>

Sizes ==
  /\ pc = "sizes"
  /\ \E m \in MaxRecords(option["m"]) :
       LET total == IF edition = "hw4" THEN FixedCount(option["s"]) ELSE CountFor(option["s"]) IN
       /\ max_records' = m
       /\ total_hash_count' = total
       /\ \/ m = 0 /\ pc' = "crashed" /\ UNCHANGED iterations
          \/ /\ m # 0 /\ pc' = "generate"
             /\ iterations' = ToInt(total \div ToUll(m))
  /\ UNCHANGED <<edition, argv, optind, file, option, flag_raised, printed, verified>>

Ended == {"usage", "failure", "exit", "crashed", "generate"}

Over == pc \in Ended /\ UNCHANGED vars

Next ==
  \/ GetOpt \/ EndOfOptions \/ OpenFile
  \/ PrintHead \/ PrintTail \/ CheckSort \/ HashVerify
  \/ BadLength \/ Sizes \/ Over

Spec == Init /\ [][Next]_vars

-----------------------------------------------------------------------------
(* Properties *)

Given(c) == \E n \in DOMAIN argv : argv[n][1] = c

(* The last argument given with an option. *)
LastOf(c) ==
  argv[CHOOSE n \in DOMAIN argv : argv[n][1] = c /\ \A l \in DOMAIN argv : argv[l][1] = c => l <= n][2]

Proper ==
  /\ \A c \in {"t", "o", "i", "m", "s"} : Given(c) /\ LastOf(c) > 0
  /\ LastOf("m") * MemUnit < IntLimit
  /\ edition = "hw5" => LastOf("s") * FileUnit < IntLimit * (LastOf("m") * MemUnit)

(* What the generating phase assumes of its constants (ConfigAssumption),  *)
(* and what the user asked for, hold of the variables main goes on with,   *)
(* for every complete command line whose memory size in bytes and number   *)
(* of iterations fit an int.  In hw4 the size of the file is one of two,   *)
(* whatever -s says.                                                       *)
StartsAsAsked ==
  pc = "generate" /\ Proper =>
    /\ \A c \in {"t", "o", "i"} : option[c] = LastOf(c)
    /\ max_records > 0 /\ max_records % 2 = 0
    /\ max_records * RecordSize = LastOf("m") * MemUnit
    /\ edition = "hw5" => total_hash_count * RecordSize = LastOf("s") * FileUnit
    /\ edition = "hw4" => (total_hash_count = SmallCount) = (LastOf("s") = SmallSize)
    /\ iterations = total_hash_count \div max_records

(* An overflow of the memory size, which the scripts' -m 2048 and -m 16384 *)
(* provoke, and a negative size make the program do nothing, end at once or*)
(* use less memory, but the loop over iterations never runs with more than *)
(* was granted; except for a negative -m so large (below -2048) that its   *)
(* product wraps around to a positive size.                                *)
MemoryKept ==
  pc = "generate" /\ iterations > 0 /\ -IntLimit <= option["m"] * MemUnit =>
    max_records > 0 /\ max_records * RecordSize <= option["m"] * MemUnit

(* Of several modes on one command line the last one decides, with the     *)
(* last argument given for it; the others neither print nor verify.        *)
LastMode ==
  LET modes == {n \in DOMAIN argv : argv[n][1] \in ModeFlags} IN
  pc = "exit" =>
    \E n \in modes :
      /\ \A l \in modes : l <= n
      /\ printed # <<>> => argv[n][1] \in {"p", "r"} /\ Len(printed) = argv[n][2]
      /\ (verified # Unset) = (argv[n][1] = "b")

(* -p and -r print as many records as the command line last asked for, or  *)
(* none, and none only if the number is negative or the file is shorter.   *)
(* When the file holds whole records, those printed are whole records of   *)
(* it, without a gap up to the first or the last one.                      *)
WholeRequest ==
  /\ flag_raised \in {"p", "r"} =>
       /\ pc = "exit" => Len(printed) = LastOf(flag_raised)
       /\ pc = "failure" /\ option["f"] # 0 /\ file # NoFile =>
            LastOf(flag_raised) < 0 \/ file < LastOf(flag_raised) * RecordSize
  /\ printed # <<>> =>
       /\ pc = "exit"
       /\ \A n \in DOMAIN printed : printed[n] >= 0 /\ printed[n] + RecordSize <= file
       /\ file % RecordSize = 0 =>
            \A n \in DOMAIN printed :
              /\ printed[n] % RecordSize = 0
              /\ n > 1 => printed[n] = printed[n - 1] + RecordSize
       /\ flag_raised = "p" => printed[1] = 0
       /\ flag_raised = "r" => printed[Len(printed)] + RecordSize = file

=============================================================================
