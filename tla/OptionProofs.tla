---------------------------- MODULE OptionProofs ----------------------------
(***************************************************************************)
(* What main of hashgen.c makes of every command line: which of several    *)
(* options counts, what the modes print, and which sizes the generating    *)
(* phase starts with when the arithmetic of C has been done to them.       *)
(***************************************************************************)
EXTENDS Options, SequenceTheorems, TLAPS

(* The options that are stored in a variable.                              *)
Storing == Letters \ {"?", "h"}

TypeInv ==
  /\ edition \in {"hw4", "hw5"}
  /\ argv \in CommandLines
  /\ optind \in 1 .. (Len(argv) + 1)
  /\ file \in FileSizes \cup {NoFile}
  /\ pc \in {"getopt", "fopen", "mode", "sizes"} \cup Ended
  /\ DOMAIN option = Letters /\ option["b"] \in Nat
  /\ \A c \in Letters : option[c] \in Int
  /\ flag_raised \in ModeFlags \cup {"N"}

(* The options read so far, and the last of a kind among them.             *)
Done == 1 .. (optind - 1)

LastDone(n, kind) == argv[n][1] \in kind /\ \A l \in Done : argv[l][1] \in kind => l <= n

(* Every variable holds the last argument read for it.                     *)
StoredInv ==
  pc # "usage" =>
    \A c \in Storing :
      (\A l \in Done : argv[l][1] # c)
      \/ \E n \in Done : LastDone(n, {c}) /\ option[c] = Stored(c, argv[n][2])

ModeInv ==
  pc # "usage" =>
    /\ flag_raised = "N" => \A l \in Done : argv[l][1] \notin ModeFlags
    /\ flag_raised # "N" => \E n \in Done : LastDone(n, ModeFlags) /\ argv[n][1] = flag_raised

PhaseInv ==
  /\ pc \notin {"getopt", "usage"} => optind = Len(argv) + 1
  /\ pc \in {"fopen", "mode", "failure", "exit"} => flag_raised # "N"
  /\ pc \in {"mode", "exit"} => file \in FileSizes
  /\ pc # "exit" => printed = <<>> /\ verified = Unset

Printed(n, from) ==
  /\ from \in Nat /\ CanRead(n, from)
  /\ printed = [i \in 1 .. n |-> from + (i - 1) * RecordSize]

ExitInv ==
  pc = "exit" =>
    /\ flag_raised = "p" => Printed(option["p"], 0)
    /\ flag_raised = "r" => Printed(option["r"], file - option["r"] * RecordSize)
    /\ flag_raised \in {"v", "b"} => printed = <<>>
    /\ verified = IF flag_raised = "b" THEN option["b"] ELSE Unset

(* -p and -r give up only when the file, once it is open, is too short.    *)
FailInv ==
  pc = "failure" /\ flag_raised \in {"p", "r"} /\ option["f"] # 0 /\ file # NoFile =>
    option[flag_raised] < 0 \/ file < option[flag_raised] * RecordSize

Total == IF edition = "hw4" THEN FixedCount(option["s"]) ELSE CountFor(option["s"])

SizesInv ==
  pc = "generate" =>
    /\ max_records \in MaxRecords(option["m"]) /\ max_records # 0
    /\ total_hash_count = Total
    /\ iterations = ToInt(Total \div ToUll(max_records))

IInv == TypeInv /\ StoredInv /\ ModeInv /\ PhaseInv /\ ExitInv /\ FailInv /\ SizesInv

-----------------------------------------------------------------------------
(* The invariant *)

LEMMA LineOf ==
  ASSUME NEW line \in CommandLines
  PROVE  /\ Len(line) \in Nat /\ DOMAIN line = 1 .. Len(line)
         /\ \A n \in 1 .. Len(line) : line[n][1] \in Letters /\ line[n][2] \in Int32
<1>1. line \in Seq(Letters \X Int32)
  BY LinesAssumption
<1>2. Len(line) \in Nat /\ DOMAIN line = 1 .. Len(line)
  BY <1>1, LenProperties
<1>3. \A n \in 1 .. Len(line) : line[n] \in Letters \X Int32
  BY <1>1, <1>2, ElementOfSeq
<1> QED
  BY <1>2, <1>3

LEMMA Units ==
  /\ MemUnit \in Nat \ {0} /\ FileUnit \in Nat \ {0} /\ RecordSize \in Nat \ {0, 1}
  /\ IntLimit \in Nat \ {0} /\ UllModulus \in Nat \ {0}
  /\ SmallCount \in Nat \ {0} /\ BigCount \in Nat \ {0}
  /\ FileSizes \subseteq Nat
  BY SizesAssumption

LEMMA InitIInv == Init => IInv
<1> SUFFICES ASSUME Init PROVE IInv
  OBVIOUS
<1> USE DEF Init
<1>1. Len(argv) \in Nat
  BY LineOf
<1>2. Done = {}
  BY DEF Done
<1>3. DOMAIN option = Letters /\ option["b"] = 0 /\ \A c \in Letters : option[c] \in Int
  BY GarbageAssumption, Units DEF Letters, ModeFlags, Int32
<1>4. TypeInv
  BY <1>1, <1>3 DEF TypeInv, Letters, ModeFlags
<1>5. StoredInv /\ ModeInv /\ PhaseInv /\ ExitInv /\ FailInv /\ SizesInv
  BY <1>2 DEF StoredInv, ModeInv, PhaseInv, ExitInv, FailInv, SizesInv
<1> QED
  BY <1>4, <1>5 DEF IInv

(* One more option: it becomes the last of its kind.                       *)
LEMMA GetOptIInv == IInv /\ GetOpt => IInv'
<1> SUFFICES ASSUME IInv, GetOpt PROVE IInv'
  OBVIOUS
<1> DEFINE c == argv[optind][1]
           arg == argv[optind][2]
<1> USE DEF IInv
<1>1. /\ pc = "getopt" /\ optind \in 1 .. Len(argv) /\ optind' = optind + 1
      /\ argv' = argv /\ edition' = edition /\ file' = file
      /\ printed' = printed /\ verified' = verified
      /\ Len(argv) \in Nat
  BY LineOf DEF GetOpt, TypeInv
<1>2. c \in Letters /\ arg \in Int
  BY <1>1, LineOf, Units DEF TypeInv, Int32
<1>3. Done' = Done \cup {optind} /\ \A l \in Done : l <= optind /\ optind \in Nat
  BY <1>1 DEF Done
<1>4. CASE c = "?"
  <2>1. pc' = "usage" /\ option' = option /\ flag_raised' = flag_raised
    BY <1>4 DEF GetOpt
  <2>2. TypeInv'
    BY <1>1, <2>1 DEF TypeInv, Ended
  <2> QED
    BY <1>1, <2>1, <2>2 DEF StoredInv, ModeInv, PhaseInv, ExitInv, FailInv, SizesInv
<1>5. CASE c = "h"
  <2>1. pc' = pc /\ option' = option /\ flag_raised' = flag_raised
    BY <1>5 DEF GetOpt
  <2>2. TypeInv'
    BY <1>1, <2>1 DEF TypeInv
  <2>3. StoredInv'
    BY <1>1, <1>3, <1>5, <2>1 DEF StoredInv, LastDone, Storing, Stored
  <2>4. ModeInv'
    BY <1>1, <1>3, <1>5, <2>1 DEF ModeInv, LastDone, ModeFlags
  <2> QED
    BY <1>1, <2>1, <2>2, <2>3, <2>4 DEF PhaseInv, ExitInv, FailInv, SizesInv
<1>6. CASE c \notin {"?", "h"}
  <2>1. /\ pc' = pc /\ flag_raised' = Raised(c)
        /\ option' = [option EXCEPT ![c] = Stored(c, arg)]
    BY <1>6 DEF GetOpt, Stores
  <2>2. Stored(c, arg) \in Int /\ Stored("b", arg) \in Nat
    BY <1>2 DEF Stored
  <2>3. /\ DOMAIN option' = Letters /\ option'[c] = Stored(c, arg)
        /\ \A d \in Letters \ {c} : option'[d] = option[d]
    BY <1>2, <2>1 DEF TypeInv
  <2>4. TypeInv'
    <3>1. option["b"] \in Nat /\ \A d \in Letters : option[d] \in Int
      BY DEF TypeInv
    <3>2. option'["b"] \in Nat
      BY <2>2, <2>3, <3>1 DEF Letters, ModeFlags
    <3>3. \A d \in Letters : option'[d] \in Int
      BY <2>2, <2>3, <3>1
    <3> QED
      BY <1>1, <2>1, <2>3, <3>2, <3>3 DEF TypeInv, Raised
  <2>5. StoredInv'
    <3> SUFFICES ASSUME NEW d \in Storing
                 PROVE  (\A l \in Done' : argv[l][1] # d)
                        \/ \E n \in Done' : LastDone(n, {d})' /\ option'[d] = Stored(d, argv[n][2])
      BY <1>1 DEF StoredInv, LastDone, Stored
    <3>1. CASE d = c
      <4>1. optind \in Done' /\ argv'[optind][1] = c /\ \A l \in Done' : l <= optind
        BY <1>1, <1>3
      <4>2. option'[d] = Stored(d, argv[optind][2])
        BY <2>3, <3>1
      <4> QED
        BY <3>1, <4>1, <4>2 DEF LastDone
    <3>2. CASE d # c
      <4>1. option'[d] = option[d]
        BY <2>3, <3>2 DEF Storing
      <4>2. CASE \A l \in Done : argv[l][1] # d
        BY <1>3, <3>2, <4>2
      <4>3. CASE \E n \in Done : LastDone(n, {d}) /\ option[d] = Stored(d, argv[n][2])
        BY <1>1, <1>3, <3>2, <4>1, <4>3 DEF LastDone
      <4> QED
        BY <1>1, <4>2, <4>3 DEF StoredInv
    <3> QED
      BY <3>1, <3>2
  <2>6. ModeInv'
    <3>1. CASE c \in ModeFlags
      <4>1. optind \in Done' /\ argv'[optind][1] = c /\ \A l \in Done' : l <= optind
        BY <1>1, <1>3
      <4>2. flag_raised' = c
        BY <2>1, <3>1 DEF Raised
      <4>3. c # "N"
        BY <3>1 DEF ModeFlags
      <4> QED
        BY <3>1, <4>1, <4>2, <4>3 DEF ModeInv, LastDone
    <3>2. CASE c \notin ModeFlags
      BY <1>1, <1>3, <2>1, <3>2 DEF ModeInv, LastDone, Raised
    <3> QED
      BY <3>1, <3>2
  <2> QED
    BY <1>1, <2>1, <2>4, <2>5, <2>6 DEF PhaseInv, ExitInv, FailInv, SizesInv
<1> QED
  BY <1>4, <1>5, <1>6


LEMMA KeepsOptions ==
  ASSUME IInv, UNCHANGED <<edition, argv, optind, option, flag_raised>>, pc # "usage",
         file' = file, pc' \in {"fopen", "mode", "sizes"} \cup Ended
  PROVE  TypeInv' /\ StoredInv' /\ ModeInv'
<1> USE DEF IInv
<1>1. TypeInv'
  BY DEF TypeInv
<1>2. Done' = Done
  BY DEF Done
<1>3. StoredInv'
  BY <1>2 DEF StoredInv, LastDone
<1>4. ModeInv'
  BY <1>2 DEF ModeInv, LastDone
<1> QED
  BY <1>1, <1>3, <1>4

LEMMA ToTheModesIInv == IInv /\ (EndOfOptions \/ OpenFile) => IInv'
<1> SUFFICES ASSUME IInv, EndOfOptions \/ OpenFile PROVE IInv'
  OBVIOUS
<1>1. /\ UNCHANGED <<edition, argv, optind, option, flag_raised>> /\ file' = file
      /\ pc # "usage" /\ pc' \in {"fopen", "mode", "sizes", "failure"}
      /\ UNCHANGED <<printed, verified>>
  BY DEF EndOfOptions, OpenFile
<1>2. TypeInv' /\ StoredInv' /\ ModeInv'
  BY <1>1, KeepsOptions DEF Ended
<1>3. PhaseInv'
  <2>1. CASE EndOfOptions
    <3>1. pc = "getopt" /\ optind = Len(argv) + 1 /\ Len(argv) \in Nat
      BY <2>1, LineOf DEF EndOfOptions, IInv, TypeInv
    <3> QED
      BY <1>1, <2>1, <3>1 DEF EndOfOptions, IInv, PhaseInv
  <2>2. CASE OpenFile
    BY <1>1, <2>2 DEF OpenFile, IInv, PhaseInv, TypeInv
  <2> QED
    BY <2>1, <2>2
<1>4. FailInv'
  BY <1>1 DEF FailInv, EndOfOptions, OpenFile
<1> QED
  BY <1>1, <1>2, <1>3, <1>4 DEF IInv, ExitInv, SizesInv

(* The positions printed, when n records are asked for.                    *)
LEMMA PrintIInv ==
  ASSUME IInv, NEW n \in Int, NEW from \in Nat, pc = "mode", PrintFrom(n, from), verified' = verified,
         UNCHANGED <<edition, argv, optind, file, option, flag_raised, sizes>>
  PROVE  /\ TypeInv' /\ StoredInv' /\ ModeInv' /\ PhaseInv' /\ SizesInv'
         /\ pc' \in {"exit", "failure"} /\ verified' = Unset
         /\ pc' = "exit" => CanRead(n, from) /\ Printed(n, from)'
         /\ pc' = "failure" => ~CanRead(n, from)
<1>1. pc' \in {"exit", "failure"}
  BY DEF PrintFrom
<1>2. TypeInv' /\ StoredInv' /\ ModeInv'
  BY <1>1, KeepsOptions DEF Ended
<1>3. verified' = Unset
  BY DEF IInv, PhaseInv
<1>4. PhaseInv'
  BY <1>1, <1>3 DEF IInv, PhaseInv, PrintFrom
<1>5. pc' = "exit" => CanRead(n, from) /\ Printed(n, from)'
  BY DEF PrintFrom, Printed, CanRead
<1>6. pc' = "failure" => ~CanRead(n, from)
  BY DEF PrintFrom
<1> QED
  BY <1>1, <1>2, <1>3, <1>4, <1>5, <1>6 DEF SizesInv

LEMMA PrintHeadIInv == IInv /\ PrintHead => IInv'
<1> SUFFICES ASSUME IInv, PrintHead PROVE IInv'
  OBVIOUS
<1>1. /\ pc = "mode" /\ flag_raised = "p" /\ PrintFrom(option["p"], 0) /\ verified' = verified
      /\ UNCHANGED <<edition, argv, optind, file, option, flag_raised, sizes>>
  BY DEF PrintHead, InMode
<1>2. option["p"] \in Int
  BY DEF IInv, TypeInv, Letters, ModeFlags
<1> DEFINE n == option["p"]
<1>3. /\ TypeInv' /\ StoredInv' /\ ModeInv' /\ PhaseInv' /\ SizesInv'
      /\ pc' \in {"exit", "failure"} /\ verified' = Unset
      /\ pc' = "exit" => CanRead(n, 0) /\ Printed(n, 0)'
      /\ pc' = "failure" => ~CanRead(n, 0)
  <2> HIDE DEF n
  <2> QED
    BY <1>1, <1>2, PrintIInv DEF n
<1>4. ExitInv'
  BY <1>1, <1>3 DEF ExitInv, Printed, CanRead
<1>5. FailInv'
  <2>1. file \in Nat /\ RecordSize \in Nat
    BY <1>1, Units DEF IInv, PhaseInv
  <2>2. n * RecordSize \in Int /\ file' = file /\ option' = option /\ flag_raised' = "p"
    BY <1>1, <1>2, <2>1
  <2>3. ~CanRead(n, 0) => n < 0 \/ file < n * RecordSize
    BY <1>2, <2>1, <2>2 DEF CanRead
  <2> QED
    BY <1>3, <2>2, <2>3 DEF FailInv
<1> QED
  BY <1>3, <1>4, <1>5 DEF IInv


LEMMA PrintTailIInv == IInv /\ PrintTail => IInv'
<1> SUFFICES ASSUME IInv, PrintTail PROVE IInv'
  OBVIOUS
<1> DEFINE n == option["r"]
           from == TailPosition(n)
<1>1. /\ pc = "mode" /\ flag_raised = "r" /\ PrintFrom(n, from) /\ verified' = verified
      /\ UNCHANGED <<edition, argv, optind, file, option, flag_raised, sizes>>
  BY DEF PrintTail, InMode
<1>2. n \in Int
  BY DEF IInv, TypeInv, Letters, ModeFlags
<1>3. file \in Nat
  BY <1>1, Units DEF IInv, PhaseInv
<1>4. n * RecordSize \in Int /\ (n >= 0 => n * RecordSize \in Nat)
  BY <1>2, Units
<1>5. from \in Nat
  BY <1>3, <1>4 DEF TailPosition
<1>6. CanRead(n, from) => from = file - n * RecordSize
  BY <1>3, <1>4 DEF TailPosition, CanRead
<1>7. /\ TypeInv' /\ StoredInv' /\ ModeInv' /\ PhaseInv' /\ SizesInv'
      /\ pc' \in {"exit", "failure"} /\ verified' = Unset
      /\ pc' = "failure" => ~CanRead(n, from)
  <2> HIDE DEF n, from
  <2> QED
    BY <1>1, <1>2, <1>5, PrintIInv
<1>8. pc' = "exit" =>
        /\ CanRead(n, from)
        /\ printed' = [i \in 1 .. n |-> from + (i - 1) * RecordSize]
  BY <1>1 DEF PrintFrom
<1>9. pc' = "exit" => Printed(option["r"], file - option["r"] * RecordSize)'
  <2> SUFFICES ASSUME pc' = "exit"
               PROVE  Printed(option["r"], file - option["r"] * RecordSize)'
    OBVIOUS
  <2>1. from = file - n * RecordSize /\ CanRead(n, from)
    BY <1>6, <1>8
  <2>2. option'["r"] = n /\ file' = file
    BY <1>1
  <2> HIDE DEF n, from
  <2> QED
    BY <1>5, <1>8, <2>1, <2>2 DEF Printed, CanRead
<1>10. ExitInv'
  BY <1>1, <1>7, <1>9 DEF ExitInv
<1>11. FailInv'
  <2>1. ~CanRead(n, from) => n < 0 \/ file < n * RecordSize
    BY <1>2, <1>3, <1>4 DEF CanRead, TailPosition
  <2> QED
    BY <1>1, <1>7, <2>1 DEF FailInv
<1> QED
  BY <1>7, <1>10, <1>11 DEF IInv

LEMMA LookIInv == IInv /\ (CheckSort \/ HashVerify) => IInv'
<1> SUFFICES ASSUME IInv, CheckSort \/ HashVerify PROVE IInv'
  OBVIOUS
<1>1. /\ pc = "mode" /\ pc' \in {"exit", "failure"} /\ printed' = printed
      /\ UNCHANGED <<edition, argv, optind, file, option, flag_raised, sizes>>
  BY DEF CheckSort, HashVerify, InMode
<1>2. TypeInv' /\ StoredInv' /\ ModeInv'
  BY <1>1, KeepsOptions DEF Ended
<1>3. CASE CheckSort
  <2>1. flag_raised = "v" /\ verified' = verified
    BY <1>3 DEF CheckSort, InMode
  <2> QED
    BY <1>1, <1>2, <2>1 DEF IInv, PhaseInv, ExitInv, FailInv, SizesInv
<1>4. CASE HashVerify
  <2>1. flag_raised = "b" /\ verified' = option["b"] /\ pc' = "exit"
    BY <1>4 DEF HashVerify, InMode
  <2> QED
    BY <1>1, <1>2, <2>1 DEF IInv, PhaseInv, ExitInv, FailInv, SizesInv
<1> QED
  BY <1>3, <1>4

LEMMA BadLengthIInv == IInv /\ BadLength => IInv'
<1> SUFFICES ASSUME IInv, BadLength PROVE IInv'
  OBVIOUS
<1>1. /\ pc = "sizes" /\ pc' = "crashed"
      /\ UNCHANGED <<edition, argv, optind, file, option, flag_raised, printed, verified>>
  BY DEF BadLength
<1>2. TypeInv' /\ StoredInv' /\ ModeInv'
  BY <1>1, KeepsOptions DEF Ended
<1> QED
  BY <1>1, <1>2 DEF IInv, PhaseInv, ExitInv, FailInv, SizesInv

LEMMA SizesIInv == IInv /\ Sizes => IInv'
<1> SUFFICES ASSUME IInv, Sizes PROVE IInv'
  OBVIOUS
<1>1. /\ pc = "sizes" /\ pc' \in {"crashed", "generate"}
      /\ UNCHANGED <<edition, argv, optind, file, option, flag_raised, printed, verified>>
  BY DEF Sizes
<1>2. TypeInv' /\ StoredInv' /\ ModeInv'
  BY <1>1, KeepsOptions DEF Ended
<1>3. Total' = Total
  BY <1>1 DEF Total
<1>4. SizesInv'
  BY <1>1, <1>3 DEF Sizes, SizesInv, Total
<1> QED
  BY <1>1, <1>2, <1>4 DEF IInv, PhaseInv, ExitInv, FailInv

LEMMA NextIInv == IInv /\ [Next]_vars => IInv'
<1> SUFFICES ASSUME IInv, [Next]_vars PROVE IInv'
  OBVIOUS
<1>1. CASE UNCHANGED vars
  <2> USE <1>1 DEF vars, sizes, IInv
  <2>1. Done' = Done /\ Total' = Total
    BY DEF Done, Total
  <2>2. TypeInv' /\ PhaseInv'
    BY DEF TypeInv, PhaseInv
  <2>3. StoredInv' /\ ModeInv'
    BY <2>1 DEF StoredInv, ModeInv, LastDone
  <2>4. ExitInv' /\ FailInv'
    BY DEF ExitInv, FailInv, Printed, CanRead
  <2>5. SizesInv'
    BY <2>1 DEF SizesInv
  <2> QED
    BY <2>2, <2>3, <2>4, <2>5
<1>2. CASE Next
  BY <1>1, <1>2, GetOptIInv, ToTheModesIInv, PrintHeadIInv, PrintTailIInv, LookIInv, BadLengthIInv,
     SizesIInv
     DEF Next, Over
<1> QED
  BY <1>1, <1>2

LEMMA IInvAlways == Spec => []IInv
  BY InitIInv, NextIInv, PTL DEF Spec

-----------------------------------------------------------------------------
(* The modes *)

(* Once the options are read, the variable of an option that was given     *)
(* holds the last argument.                                                *)
LEMMA LastOfStored ==
  ASSUME IInv, pc \notin {"getopt", "usage"}, NEW c \in {"t", "o", "i", "m", "s", "p", "r"}, Given(c)
  PROVE  option[c] = LastOf(c) /\ LastOf(c) \in Int32
<1> USE DEF IInv
<1>1. Len(argv) \in Nat /\ DOMAIN argv = 1 .. Len(argv) /\ Done = DOMAIN argv
  BY LineOf DEF PhaseInv, TypeInv, Done
<1>2. c \in Storing
  BY DEF Storing, Letters, ModeFlags
<1>3. PICK n \in DOMAIN argv : LastDone(n, {c}) /\ option[c] = Stored(c, argv[n][2])
  BY <1>1, <1>2 DEF StoredInv, Given
<1>4. argv[n][1] = c /\ \A l \in DOMAIN argv : argv[l][1] = c => l <= n
  BY <1>1, <1>3 DEF LastDone
<1>5. \A o \in DOMAIN argv :
        argv[o][1] = c /\ (\A l \in DOMAIN argv : argv[l][1] = c => l <= o) => o = n
  <2> SUFFICES ASSUME NEW o \in DOMAIN argv, argv[o][1] = c,
                      \A l \in DOMAIN argv : argv[l][1] = c => l <= o
               PROVE  o = n
    OBVIOUS
  <2>1. o <= n /\ n <= o
    BY <1>4
  <2> QED
    BY <1>1, <2>1
<1>6. LastOf(c) = argv[n][2]
  <2> DEFINE last == CHOOSE o \in DOMAIN argv :
                       argv[o][1] = c /\ \A l \in DOMAIN argv : argv[l][1] = c => l <= o
  <2>1. last = n
    BY <1>4, <1>5
  <2> QED
    BY <2>1 DEF LastOf
<1>7. Stored(c, argv[n][2]) = argv[n][2]
  BY DEF Stored
<1> QED
  BY <1>1, <1>3, <1>6, <1>7, LineOf DEF TypeInv

(* -p and -r print the records asked for, all of them, from the first or   *)
(* up to the last one of the file.                                         *)
LEMMA PrintedRecords ==
  ASSUME IInv, printed # <<>>
  PROVE  /\ pc = "exit" /\ flag_raised \in {"p", "r"} /\ file \in Nat
         /\ option[flag_raised] \in Nat \ {0}
         /\ \E from \in Nat :
              /\ Printed(option[flag_raised], from)
              /\ flag_raised = "p" => from = 0
              /\ flag_raised = "r" => from + option[flag_raised] * RecordSize = file
<1> USE DEF IInv
<1>1. pc = "exit" /\ flag_raised \in {"p", "r"}
  BY DEF PhaseInv, ExitInv, TypeInv, ModeFlags
<1>2. file \in Nat
  BY <1>1, Units DEF PhaseInv
<1>3. option[flag_raised] \in Nat
  <2>1. option[flag_raised] \in Int /\ option[flag_raised] >= 0
    BY <1>1 DEF TypeInv, Letters, ModeFlags, ExitInv, Printed, CanRead
  <2> QED
    BY <2>1
<1> DEFINE n == option[flag_raised]
           from == IF flag_raised = "p" THEN 0 ELSE file - n * RecordSize
<1>4. Printed(n, from)
  BY <1>1 DEF ExitInv
<1>5. n * RecordSize \in Nat
  BY <1>3, Units
<1>6. n # 0
  <2> SUFFICES ASSUME n = 0 PROVE FALSE
    OBVIOUS
  <2> HIDE DEF n
  <2>1. printed = [i \in 1 .. 0 |-> from + (i - 1) * RecordSize]
    BY <1>4 DEF Printed
  <2>2. 1 .. 0 = {}
    OBVIOUS
  <2> QED
    BY <2>1, <2>2
<1>7. from \in Nat
  BY <1>4 DEF Printed
<1>8. flag_raised = "r" => from + n * RecordSize = file
  BY <1>2, <1>5
<1> QED
  BY <1>1, <1>2, <1>3, <1>4, <1>6, <1>7, <1>8


LEMMA TimesOrdered ==
  ASSUME NEW a \in Nat, NEW b \in Nat, NEW c \in Nat, a <= b
  PROVE  a * c \in Nat /\ b * c \in Nat /\ a * c <= b * c
  OBVIOUS

LEMMA MultipleOf ==
  ASSUME NEW a \in Int, NEW b \in Nat \ {0}
  PROVE  (a * b) % b = 0 /\ (a * b) \div b = a
<1> DEFINE d == (a * b) \div b
           r == (a * b) % b
<1>1. a * b \in Int /\ d \in Int /\ r \in 0 .. (b - 1) /\ a * b = b * d + r
  OBVIOUS
<1> HIDE DEF d, r
<1>2. (a - d) * b = r
  BY <1>1
<1>3. a - d = 0
  <2>1. CASE a - d >= 1
    <3>1. (a - d) * b >= b
      <4>1. a - d \in Nat /\ 1 <= a - d
        BY <1>1, <2>1
      <4>2. 1 * b <= (a - d) * b
        BY <4>1, TimesOrdered
      <4> QED
        BY <1>1, <4>1, <4>2
    <3> QED
      BY <1>1, <1>2, <3>1
  <2>2. CASE a - d <= -1
    <3>1. d - a \in Nat /\ 1 <= d - a
      BY <1>1, <2>2
    <3>2. 1 * b <= (d - a) * b
      BY <3>1, TimesOrdered
    <3>3. (d - a) * b = -r
      BY <1>1
    <3> QED
      BY <1>1, <3>2, <3>3
  <2> QED
    BY <1>1, <2>1, <2>2
<1>4. r = 0 /\ d = a
  BY <1>1, <1>2, <1>3
<1> QED
  BY <1>4 DEF d, r

LEMMA PrintedLength ==
  ASSUME NEW n \in Nat, NEW from \in Nat, Printed(n, from)
  PROVE  Len(printed) = n
<1>1. \A i \in 1 .. n : from + (i - 1) * RecordSize \in Int
  BY Units
<1>2. printed \in Seq(Int) /\ DOMAIN printed = 1 .. n
  BY <1>1 DEF Printed
<1> QED
  BY <1>2, LenProperties

(* The number of records: what the last -p or -r on the line says.         *)
LEMMA AskedNumber ==
  ASSUME IInv, flag_raised \in {"p", "r"}, pc \in {"exit", "failure"}
  PROVE  /\ option[flag_raised] = LastOf(flag_raised)
         /\ pc = "exit" => Len(printed) = LastOf(flag_raised)
<1> USE DEF IInv
<1>1. Given(flag_raised)
  <2>1. DOMAIN argv = 1 .. Len(argv) /\ Len(argv) \in Nat /\ optind = Len(argv) + 1
    BY LineOf DEF TypeInv, PhaseInv
  <2>2. Done = DOMAIN argv
    BY <2>1 DEF Done
  <2> QED
    BY <2>2 DEF ModeInv, Given
<1>2. option[flag_raised] = LastOf(flag_raised)
  BY <1>1, LastOfStored
<1>3. ASSUME pc = "exit" PROVE Len(printed) = LastOf(flag_raised)
  <2>1. PICK from \in Nat : Printed(option[flag_raised], from)
    BY <1>3 DEF ExitInv, Printed
  <2>2. option[flag_raised] \in Int /\ option[flag_raised] >= 0
    BY <2>1 DEF TypeInv, Letters, ModeFlags, Printed, CanRead
  <2>3. option[flag_raised] \in Nat
    BY <2>2
  <2> QED
    BY <1>2, <2>1, <2>3, PrintedLength
<1> QED
  BY <1>2, <1>3

LEMMA PrintedWhole ==
  ASSUME IInv, printed # <<>>
  PROVE
      /\ \A i \in DOMAIN printed : printed[i] >= 0 /\ printed[i] + RecordSize <= file
      /\ file % RecordSize = 0 =>
           \A i \in DOMAIN printed :
             /\ printed[i] % RecordSize = 0
             /\ i > 1 => printed[i] = printed[i - 1] + RecordSize
      /\ flag_raised = "p" => printed[1] = 0
      /\ flag_raised = "r" => printed[Len(printed)] + RecordSize = file
<1> DEFINE n == option[flag_raised]
<1>1. /\ flag_raised \in {"p", "r"} /\ file \in Nat /\ n \in Nat \ {0}
  BY PrintedRecords
<1>2. \E from \in Nat : /\ Printed(n, from)
                        /\ flag_raised = "p" => from = 0
                        /\ flag_raised = "r" => from + n * RecordSize = file
  BY PrintedRecords
<1> HIDE DEF n
<1>3. PICK from \in Nat : /\ Printed(n, from)
                          /\ flag_raised = "p" => from = 0
                          /\ flag_raised = "r" => from + n * RecordSize = file
  BY <1>2
<1> DEFINE R == RecordSize
<1>4. R \in Nat \ {0}
  BY Units
<1>5. /\ n * R \in Nat /\ from + n * R <= file
      /\ DOMAIN printed = 1 .. n
      /\ \A i \in 1 .. n : printed[i] = from + (i - 1) * R
  BY <1>1, <1>3, <1>4 DEF Printed, CanRead
<1>6. Len(printed) = n
  BY <1>1, <1>3, PrintedLength
<1>7. \A i \in 1 .. n : /\ (i - 1) * R \in Nat /\ i * R \in Nat
                       /\ i * R = (i - 1) * R + R /\ i * R <= n * R
  <2> TAKE i \in 1 .. n
  <2>1. i \in Nat /\ n \in Nat /\ i <= n /\ R \in Nat
    BY <1>1, <1>4
  <2>2. i * R \in Nat /\ i * R <= n * R
    BY <2>1, TimesOrdered
  <2>3. i - 1 \in Nat
    OBVIOUS
  <2> QED
    BY <2>1, <2>2, <2>3
<1> HIDE DEF R
<1>8. \A i \in DOMAIN printed : printed[i] >= 0 /\ printed[i] + R <= file
  <2> TAKE i \in DOMAIN printed
  <2>1. /\ printed[i] = from + (i - 1) * R /\ (i - 1) * R \in Nat /\ i * R \in Nat
        /\ i * R = (i - 1) * R + R /\ i * R <= n * R
    BY <1>5, <1>7
  <2> QED
    BY <1>1, <1>4, <1>5, <2>1
<1>9. ASSUME file % R = 0, NEW i \in 1 .. n
      PROVE  /\ printed[i] % R = 0
             /\ i > 1 => printed[i] = printed[i - 1] + R
  <2>1. PICK q \in Int : from = q * R
    <3>1. CASE flag_raised = "p"
      <4>1. from = 0 * R
        BY <1>3, <1>4, <3>1
      <4> QED
        BY <4>1
    <3>2. CASE flag_raised = "r"
      <4> DEFINE f == file \div R
      <4>1. f \in Int /\ file = f * R
        BY <1>1, <1>4, <1>9
      <4> HIDE DEF f
      <4>2. from = (f - n) * R /\ f - n \in Int
        <5>1. (f - n) * R = f * R - n * R /\ f - n \in Int
          BY <1>1, <1>4, <4>1
        <5>2. from + n * R = f * R
          BY <1>3, <3>2, <4>1 DEF R
        <5> QED
          BY <1>5, <5>1, <5>2
      <4> QED
        BY <4>2
    <3> QED
      BY <1>1, <3>1, <3>2
  <2>2. printed[i] = (q + (i - 1)) * R
    BY <1>4, <1>5, <2>1
  <2>3. q + (i - 1) \in Int
    OBVIOUS
  <2>4. printed[i] % R = 0
    BY <1>4, <2>2, <2>3, MultipleOf
  <2>5. ASSUME i > 1 PROVE printed[i] = printed[i - 1] + R
    <3>1. i - 1 \in 1 .. n /\ printed[i - 1] = from + ((i - 1) - 1) * R
      BY <1>1, <1>5, <2>5
    <3> QED
      BY <1>4, <1>5, <2>5, <3>1
  <2> QED
    BY <2>4, <2>5
<1>10. flag_raised = "p" => printed[1] = 0
  BY <1>1, <1>3, <1>4, <1>5
<1>11. flag_raised = "r" => printed[Len(printed)] + R = file
  <2>1. n \in 1 .. n
    BY <1>1
  <2>2. printed[n] = from + (n - 1) * R /\ n * R = (n - 1) * R + R /\ (n - 1) * R \in Nat
    BY <1>5, <1>7, <2>1
  <2> QED
    BY <1>1, <1>3, <1>4, <1>6, <2>2 DEF R
<1> QED
  BY <1>5, <1>8, <1>9, <1>10, <1>11 DEF R

LEMMA WholeRequestHolds == IInv => WholeRequest
<1> SUFFICES ASSUME IInv PROVE WholeRequest
  OBVIOUS
<1>1. ASSUME flag_raised \in {"p", "r"}
      PROVE  /\ pc = "exit" => Len(printed) = LastOf(flag_raised)
             /\ pc = "failure" /\ option["f"] # 0 /\ file # NoFile =>
                  LastOf(flag_raised) < 0 \/ file < LastOf(flag_raised) * RecordSize
  <2>1. pc \in {"exit", "failure"} => option[flag_raised] = LastOf(flag_raised)
    BY <1>1, AskedNumber
  <2>2. pc = "exit" => Len(printed) = LastOf(flag_raised)
    BY <1>1, AskedNumber
  <2> QED
    BY <1>1, <2>1, <2>2 DEF IInv, FailInv
<1>2. ASSUME printed # <<>>
      PROVE  /\ pc = "exit"
             /\ \A i \in DOMAIN printed : printed[i] >= 0 /\ printed[i] + RecordSize <= file
             /\ file % RecordSize = 0 =>
                  \A i \in DOMAIN printed :
                    /\ printed[i] % RecordSize = 0
                    /\ i > 1 => printed[i] = printed[i - 1] + RecordSize
             /\ flag_raised = "p" => printed[1] = 0
             /\ flag_raised = "r" => printed[Len(printed)] + RecordSize = file
  BY <1>2, PrintedRecords, PrintedWhole
<1> QED
  BY <1>1, <1>2 DEF WholeRequest

(* -p and -r print as many records as were asked for last, whole records   *)
(* from the beginning or up to the end of the file, or print none because  *)
(* the number is negative or the file shorter.                             *)
THEOREM OptionsPrintWhole == Spec => []WholeRequest
  BY IInvAlways, WholeRequestHolds, PTL

LEMMA LastModeHolds == IInv => LastMode
<1> SUFFICES ASSUME IInv, pc = "exit" PROVE
      LET modes == {n \in DOMAIN argv : argv[n][1] \in ModeFlags} IN
      \E n \in modes :
        /\ \A l \in modes : l <= n
        /\ printed # <<>> => argv[n][1] \in {"p", "r"} /\ Len(printed) = argv[n][2]
        /\ (verified # Unset) = (argv[n][1] = "b")
  BY DEF LastMode
<1> USE DEF IInv
<1>1. flag_raised # "N" /\ optind = Len(argv) + 1 /\ Len(argv) \in Nat /\ DOMAIN argv = 1 .. Len(argv)
  BY LineOf DEF PhaseInv, TypeInv
<1>2. Done = DOMAIN argv
  BY <1>1 DEF Done
<1>3. PICK n \in Done : LastDone(n, ModeFlags) /\ argv[n][1] = flag_raised
  BY <1>1 DEF ModeInv
<1>4. flag_raised \in Storing
  BY <1>3 DEF LastDone, ModeFlags, Storing, Letters
<1>5. option[flag_raised] = Stored(flag_raised, argv[n][2])
  <2>1. PICK o \in Done : LastDone(o, {flag_raised}) /\ option[flag_raised] = Stored(flag_raised, argv[o][2])
    BY <1>3, <1>4 DEF StoredInv
  <2>2. o <= n /\ n <= o
    BY <1>3, <2>1 DEF LastDone
  <2>3. o = n
    BY <1>1, <1>2, <2>2
  <2> QED
    BY <2>1, <2>3
<1>6. ASSUME printed # <<>> PROVE flag_raised \in {"p", "r"} /\ Len(printed) = argv[n][2]
  <2>1. flag_raised \in {"p", "r"} /\ option[flag_raised] \in Nat \ {0}
    BY <1>6, PrintedRecords
  <2>2. PICK from \in Nat : Printed(option[flag_raised], from)
    BY <1>6, PrintedRecords
  <2>3. Len(printed) = option[flag_raised]
    BY <2>1, <2>2, PrintedLength
  <2> QED
    BY <1>5, <2>1, <2>3 DEF Stored
<1>7. (verified # Unset) = (flag_raised = "b")
  <2>1. option["b"] \in Nat
    BY DEF TypeInv
  <2> QED
    BY <2>1 DEF ExitInv, Unset
<1> QED
  BY <1>2, <1>3, <1>6, <1>7 DEF LastDone

(* The last mode on the command line decides, with the last argument given *)
(* for it.                                                                 *)
THEOREM OptionsLastMode == Spec => []LastMode
  BY IInvAlways, LastModeHolds, PTL


-----------------------------------------------------------------------------
(* The sizes *)

LEMMA CancelTimes ==
  ASSUME NEW a \in Nat, NEW b \in Nat, NEW c \in Nat, a * c < b * c
  PROVE  a < b
<1> SUFFICES ASSUME ~(a < b) PROVE FALSE
  OBVIOUS
<1>1. b <= a
  OBVIOUS
<1> QED
  BY <1>1, TimesOrdered

LEMMA QuotientBelow ==
  ASSUME NEW a \in Nat, NEW b \in Nat \ {0}, NEW c \in Nat, a < c * b
  PROVE  a \div b \in Nat /\ a \div b < c
<1> DEFINE d == a \div b
<1>1. d \in Nat /\ b * d <= a
  OBVIOUS
<1> HIDE DEF d
<1>2. d * b = b * d /\ c * b \in Nat /\ d * b \in Nat
  BY <1>1
<1>3. d < c
  BY <1>1, <1>2, CancelTimes
<1> QED
  BY <1>1, <1>3 DEF d

(* A number that fits is not changed by storing it.                        *)
LEMMA ToIntFits ==
  ASSUME NEW n \in Nat, n < IntLimit
  PROVE  ToInt(n) = n
<1> DEFINE L == IntLimit
<1>1. L \in Nat \ {0}
  BY Units
<1>2. n + L \in 0 .. (2 * L - 1)
  BY <1>1
<1> HIDE DEF L
<1>3. (n + L) % (2 * L) = n + L
  BY <1>1, <1>2
<1> QED
  BY <1>1, <1>3 DEF ToInt, L

(* Wrapping an int around never makes a natural number larger.             *)
LEMMA ToIntBelow ==
  ASSUME NEW n \in Nat
  PROVE  ToInt(n) \in (-IntLimit) .. (IntLimit - 1) /\ ToInt(n) <= n
<1> DEFINE L == IntLimit
           r == (n + L) % (2 * L)
           d == (n + L) \div (2 * L)
<1>1. L \in Nat \ {0}
  BY Units
<1> HIDE DEF L
<1>2. 2 * L \in Nat \ {0} /\ n + L \in Nat
  BY <1>1
<1>3. r \in 0 .. (2 * L - 1) /\ d \in Nat /\ (2 * L) * d \in Nat /\ n + L = (2 * L) * d + r
  BY <1>2
<1> HIDE DEF r, d
<1>4. r - L \in (-L) .. (L - 1) /\ r - L <= n
  BY <1>1, <1>2, <1>3
<1> QED
  BY <1>4 DEF ToInt, r, L

LEMMA ToUllFits ==
  ASSUME NEW n \in Nat, n < UllModulus
  PROVE  ToUll(n) = n
<1> DEFINE U == UllModulus
<1>1. U \in Nat \ {0} /\ n \in 0 .. (U - 1)
  BY Units
<1> HIDE DEF U
<1>2. n % U = n
  BY <1>1
<1> QED
  BY <1>2 DEF ToUll, U

(* The records of a megabyte, an even number.                              *)
LEMMA UnitRecords ==
  \E q \in Nat \ {0} : MemUnit = (2 * q) * RecordSize /\ MemUnit \div RecordSize = 2 * q
<1> DEFINE R == RecordSize
           q == MemUnit \div (2 * R)
<1>1. MemUnit \in Nat \ {0} /\ R \in Nat \ {0} /\ MemUnit % (2 * R) = 0
  BY Units, SizesAssumption
<1> HIDE DEF R
<1>2. 2 * R \in Nat \ {0}
  BY <1>1
<1>3. q \in Nat /\ MemUnit = (2 * R) * q
  BY <1>1, <1>2
<1> HIDE DEF q
<1>4. MemUnit = (2 * q) * R /\ q # 0
  BY <1>1, <1>3
<1>5. MemUnit \div R = 2 * q
  BY <1>1, <1>3, <1>4, MultipleOf
<1> QED
  BY <1>3, <1>4, <1>5 DEF R


LEMMA AskedMemory ==
  ASSUME NEW m \in Nat \ {0}, m * MemUnit < IntLimit, NEW M \in MaxRecords(m)
  PROVE  /\ M \in Nat \ {0} /\ M % 2 = 0 /\ M * RecordSize = m * MemUnit
         /\ M < IntLimit /\ MemUnit \div RecordSize <= M
<1> DEFINE R == RecordSize
<1>1. R \in Nat \ {0, 1} /\ MemUnit \in Nat \ {0} /\ IntLimit \in Nat
  BY Units
<1>2. PICK q \in Nat \ {0} : MemUnit = (2 * q) * R /\ MemUnit \div R = 2 * q
  BY UnitRecords
<1> DEFINE n == m * q
<1>3. M = (m * MemUnit) \div R
  <2>1. m * MemUnit \in Int32
    BY <1>1 DEF Int32
  <2> QED
    BY <2>1 DEF MaxRecords
<1> HIDE DEF R
<1>4. n \in Nat /\ q <= n
  <2>1. 1 * q <= m * q /\ m * q \in Nat
    BY <1>2, TimesOrdered
  <2> QED
    BY <1>2, <2>1
<1>5. m * MemUnit = (n * 2) * R
  BY <1>1, <1>2
<1> HIDE DEF n
<1>6. M = n * 2
  BY <1>1, <1>3, <1>4, <1>5, MultipleOf
<1>7. M % 2 = 0
  BY <1>4, <1>6, MultipleOf
<1>8. M <= m * MemUnit
  <2>1. 1 * M <= R * M
    BY <1>1, <1>4, <1>6, TimesOrdered
  <2>2. R * M = M * R /\ 1 * M = M
    BY <1>1, <1>4, <1>6
  <2> QED
    BY <1>5, <1>6, <2>1, <2>2
<1>9. m * MemUnit \in Nat
  BY <1>1
<1> QED
  BY <1>1, <1>2, <1>4, <1>5, <1>6, <1>7, <1>8, <1>9 DEF R

LEMMA AskedCount ==
  ASSUME NEW s \in 0 .. (IntLimit - 1)
  PROVE  CountFor(s) \in Nat /\ CountFor(s) * RecordSize = s * FileUnit
<1> DEFINE F == FileUnit
           R == RecordSize
           f == F \div R
<1>1. F \in Nat \ {0} /\ R \in Nat \ {0} /\ F % R = 0 /\ IntLimit \in Nat \ {0}
      /\ UllModulus \in Nat /\ UllModulus >= IntLimit * F
  BY Units, SizesAssumption
<1>2. s * F < UllModulus
  <2> HIDE DEF F, R, f
  <2>1. s \in Nat /\ s + 1 \in Nat /\ s + 1 <= IntLimit
    BY <1>1
  <2>2. (s + 1) * F <= IntLimit * F /\ IntLimit * F \in Nat
    BY <1>1, <2>1, TimesOrdered
  <2>3. (s + 1) * F = s * F + F /\ s * F \in Nat
    BY <1>1, <2>1
  <2> QED
    BY <1>1, <2>2, <2>3
<1>3. s * F \in Nat /\ s \in Nat
  BY <1>1
<1>4. ToUll(s * F) = s * F
  BY <1>2, <1>3, ToUllFits
<1>5. CountFor(s) = (s * F) \div R
  BY <1>4 DEF CountFor
<1> HIDE DEF F, R
<1>6. f \in Nat /\ F = f * R
  BY <1>1
<1> HIDE DEF f
<1>7. s * F = (s * f) * R /\ s * f \in Nat
  BY <1>1, <1>3, <1>6
<1>8. CountFor(s) = s * f
  <2> DEFINE n == s * f
  <2>1. n \in Int /\ CountFor(s) = (n * R) \div R
    BY <1>5, <1>7
  <2> HIDE DEF n
  <2>2. CountFor(s) = n
    BY <1>1, <2>1, MultipleOf
  <2> QED
    BY <2>2 DEF n
<1> QED
  BY <1>7, <1>8 DEF F, R

(* The number of iterations, when it is an int.                            *)
LEMMA AskedIterations ==
  ASSUME NEW n \in Nat, NEW M \in Nat \ {0}, M < IntLimit, n < IntLimit * M
  PROVE  ToInt(n \div ToUll(M)) = n \div M
<1>1. IntLimit \in Nat /\ UllModulus \in Nat /\ UllModulus >= 4 * IntLimit
  BY Units, SizesAssumption
<1>2. ToUll(M) = M
  BY <1>1, ToUllFits
<1>3. n \div M \in Nat /\ n \div M < IntLimit
  BY <1>1, QuotientBelow
<1> QED
  BY <1>2, <1>3, ToIntFits

LEMMA StartsAsAskedHolds == IInv => StartsAsAsked
<1> SUFFICES ASSUME IInv, pc = "generate", Proper PROVE
      /\ \A c \in {"t", "o", "i"} : option[c] = LastOf(c)
      /\ max_records > 0 /\ max_records % 2 = 0
      /\ max_records * RecordSize = LastOf("m") * MemUnit
      /\ edition = "hw5" => total_hash_count * RecordSize = LastOf("s") * FileUnit
      /\ edition = "hw4" => (total_hash_count = SmallCount) = (LastOf("s") = SmallSize)
      /\ iterations = total_hash_count \div max_records
  BY DEF StartsAsAsked
<1> DEFINE m == LastOf("m")
           s == LastOf("s")
           M == max_records
           R == RecordSize
<1>1. \A c \in {"t", "o", "i", "m", "s"} :
        option[c] = LastOf(c) /\ LastOf(c) \in 0 .. (IntLimit - 1) /\ LastOf(c) > 0
  BY LastOfStored, Units DEF Proper, Int32
<1>2. m \in Nat \ {0} /\ s \in 0 .. (IntLimit - 1) /\ option["m"] = m /\ option["s"] = s
  BY <1>1, Units
<1>3. m * MemUnit < IntLimit
  BY DEF Proper
<1>4. M \in MaxRecords(m)
  BY <1>2 DEF IInv, SizesInv
<1>5. /\ M \in Nat \ {0} /\ M % 2 = 0 /\ M * R = m * MemUnit
      /\ M < IntLimit /\ MemUnit \div R <= M
  <2> HIDE DEF m, M
  <2> QED
    BY <1>2, <1>3, <1>4, AskedMemory
<1>6. total_hash_count = Total /\ iterations = ToInt(Total \div ToUll(M))
  BY DEF IInv, SizesInv
<1>7. IntLimit \in Nat /\ R \in Nat \ {0}
  BY Units
<1>8. CASE edition = "hw5"
  <2>1. Total = CountFor(s)
    BY <1>2, <1>8 DEF Total
  <2>2. Total \in Nat /\ Total * R = s * FileUnit
    <3> HIDE DEF s
    <3> QED
      BY <1>2, <2>1, AskedCount
  <2>3. s * FileUnit < IntLimit * (m * MemUnit)
    BY <1>8 DEF Proper
  <2>4. Total < IntLimit * M
    <3> HIDE DEF s, m, M, R
    <3>1. IntLimit * (M * R) = (IntLimit * M) * R /\ IntLimit * M \in Nat
      BY <1>5, <1>7
    <3>2. Total * R < (IntLimit * M) * R
      BY <1>5, <2>2, <2>3, <3>1
    <3> QED
      BY <1>7, <2>2, <3>1, <3>2, CancelTimes
  <2>5. iterations = Total \div M
    BY <1>5, <1>6, <2>2, <2>4, AskedIterations
  <2> QED
    BY <1>1, <1>5, <1>6, <1>8, <2>2, <2>5
<1>9. CASE edition = "hw4"
  <2>1. Total = FixedCount(s)
    BY <1>2, <1>9 DEF Total
  <2>2. Total \in {SmallCount, BigCount} /\ (Total = SmallCount) = (s = SmallSize)
    BY <2>1, SizesAssumption DEF FixedCount
  <2>3. Total \in Nat /\ Total < IntLimit * (MemUnit \div R)
    BY <2>2, Units, SizesAssumption
  <2>4. Total < IntLimit * M
    <3>1. MemUnit \div R \in Nat
      BY <1>7, Units
    <3> DEFINE u == MemUnit \div R
    <3> HIDE DEF M, u
    <3>2. u * IntLimit <= M * IntLimit /\ u * IntLimit \in Nat
      BY <1>5, <1>7, <3>1, TimesOrdered DEF u
    <3>3. u * IntLimit = IntLimit * u /\ M * IntLimit = IntLimit * M /\ IntLimit * M \in Nat
      BY <1>5, <1>7, <3>1 DEF u
    <3>4. Total < IntLimit * u
      BY <2>3 DEF u
    <3> QED
      BY <2>3, <3>2, <3>3, <3>4
  <2>5. iterations = Total \div M
    BY <1>5, <1>6, <2>3, <2>4, AskedIterations
  <2> QED
    BY <1>1, <1>5, <1>6, <1>9, <2>2, <2>5
<1> QED
  BY <1>8, <1>9 DEF IInv, TypeInv

(* The generating phase starts with the options and sizes that were asked  *)
(* for, on every complete command line of both editions whose memory in    *)
(* bytes and number of iterations fit an int.                              *)
THEOREM OptionsAsAsked == Spec => []StartsAsAsked
  BY IInvAlways, StartsAsAskedHolds, PTL


(* The records that fit the memory, when the product overflowed: some      *)
(* negative number, or one that still fits.                                *)
LEMMA OverflowedMemory ==
  ASSUME NEW m \in Nat, IntLimit <= m * MemUnit, NEW M \in MaxRecords(m)
  PROVE  /\ M \in (-IntLimit) .. (IntLimit - 1)
         /\ M > 0 => M * RecordSize <= m * MemUnit
<1> DEFINE R == RecordSize
           L == IntLimit
           b == m * MemUnit
<1>1. R \in Nat \ {0, 1} /\ MemUnit \in Nat \ {0} /\ L \in Nat \ {0}
  BY Units
<1>2. b \in Nat
  BY <1>1
<1>3. CASE M = ToInt(b) \div R
  <2> DEFINE x == ToInt(b)
  <2>1. x \in (-L) .. (L - 1) /\ x <= b
    <3> HIDE DEF b
    <3> QED
      BY <1>2, ToIntBelow
  <2> HIDE DEF x, b, R, L
  <2>2. M \in Int /\ R * M \in Int /\ R * M <= x /\ x < R * M + R
    BY <1>1, <1>3, <2>1 DEF x
  <2>3. M >= -L
    <3> SUFFICES ASSUME M + 1 <= -L PROVE FALSE
      BY <1>1, <2>2
    <3> DEFINE y == -(M + 1)
    <3>1. y \in Nat /\ L <= y
      BY <1>1, <2>2
    <3>2. 1 * y <= R * y /\ R * y \in Nat
      BY <1>1, <3>1, TimesOrdered
    <3>3. R * y = -(R * M + R)
      BY <1>1, <2>2
    <3> HIDE DEF y
    <3> QED
      BY <1>1, <2>1, <2>2, <3>1, <3>2, <3>3
  <2>4. M <= L - 1
    <3> SUFFICES ASSUME L <= M PROVE FALSE
      BY <1>1, <2>2
    <3>1. M \in Nat
      BY <1>1, <2>2
    <3>2. 1 * M <= R * M
      BY <1>1, <3>1, TimesOrdered
    <3> QED
      BY <1>1, <2>1, <2>2, <3>2
  <2>5. M * R <= b
    <3>1. M * R = R * M
      BY <1>1, <2>2
    <3> QED
      BY <1>2, <2>1, <2>2, <3>1
  <2> QED
    BY <1>1, <2>2, <2>3, <2>4, <2>5 DEF R, L, b
<1>4. CASE M = ToInt(m * (MemUnit \div R))
  <2>1. PICK q \in Nat \ {0} : MemUnit = (2 * q) * R /\ MemUnit \div R = 2 * q
    BY UnitRecords
  <2> DEFINE n == m * (2 * q)
  <2>2. n \in Nat
    OBVIOUS
  <2>3. M = ToInt(n)
    BY <1>4, <2>1
  <2>4. b = n * R
    <3> HIDE DEF R
    <3> QED
      BY <1>1, <2>1
  <2> HIDE DEF n, b, R
  <2>5. M \in (-L) .. (L - 1) /\ M <= n
    BY <2>2, <2>3, ToIntBelow
  <2>6. ASSUME M > 0 PROVE M * R <= b
    <3>1. M \in Nat
      BY <1>1, <2>5, <2>6
    <3> QED
      BY <1>1, <2>2, <2>4, <2>5, <3>1, TimesOrdered
  <2> QED
    BY <2>5, <2>6 DEF R, L, b
<1>5. ~(b < L)
  BY <1>1, <1>2
<1>6. m * MemUnit \notin Int32
  <2>1. b \in Int /\ L \in Nat
    BY <1>1, <1>2
  <2> HIDE DEF b
  <2>2. b \notin (-L) .. (L - 1)
    BY <1>5, <2>1
  <2> QED
    BY <2>2 DEF b, L, Int32
<1> QED
  BY <1>3, <1>4, <1>6 DEF MaxRecords

(* Dividing by a negative number of records, as an unsigned one.           *)
LEMMA NegativeRecords ==
  ASSUME NEW n \in Nat, n < UllModulus - IntLimit, NEW M \in (-IntLimit) .. -1
  PROVE  ToInt(n \div ToUll(M)) = 0
<1> DEFINE U == UllModulus
           d == M + U
<1>1. IntLimit \in Nat \ {0} /\ U \in Nat \ {0} /\ U >= 4 * IntLimit
  BY Units, SizesAssumption
<1>2. d \in 1 .. (U - 1) /\ M = d - U /\ n < d
  BY <1>1
<1> HIDE DEF U, d
<1>3. M % U = d
  BY <1>1, <1>2
<1>4. n \div d = 0
  BY <1>1, <1>2
<1>5. ToInt(0) = 0
  BY <1>1, ToIntFits
<1> QED
  BY <1>3, <1>4, <1>5 DEF ToUll, U

(* A negative size that does not overflow makes a negative number.         *)
LEMMA NegativeMemory ==
  ASSUME NEW m \in Int, m < 0, -IntLimit <= m * MemUnit
  PROVE  (m * MemUnit) \div RecordSize \in (-IntLimit) .. -1
<1> DEFINE R == RecordSize
           L == IntLimit
<1>1. R \in Nat \ {0, 1} /\ MemUnit \in Nat \ {0} /\ L \in Nat \ {0}
  BY Units
<1>2. PICK q \in Nat \ {0} : MemUnit = (2 * q) * R /\ MemUnit \div R = 2 * q
  BY UnitRecords
<1> DEFINE n == (-m) * (2 * q)
<1>3. n \in Nat /\ 1 <= n
  <2>1. 1 * (2 * q) <= (-m) * (2 * q)
    <3>1. 1 \in Nat /\ -m \in Nat /\ 2 * q \in Nat /\ 1 <= -m
      OBVIOUS
    <3> QED
      BY <3>1, TimesOrdered
  <2>2. -m \in Nat /\ 2 * q \in Nat
    OBVIOUS
  <2> QED
    BY <2>1, <2>2
<1>4. m * MemUnit = (-n) * R
  <2> HIDE DEF R
  <2> QED
    BY <1>1, <1>2
<1> HIDE DEF n, R, L
<1>5. -n \in Int /\ ((-n) * R) \div R = -n
  BY <1>1, <1>3, MultipleOf
<1>6. 1 * n <= R * n /\ R * n \in Nat /\ (-n) * R = -(R * n)
  BY <1>1, <1>3, TimesOrdered
<1>7. n <= L
  BY <1>1, <1>3, <1>4, <1>6 DEF L
<1> QED
  BY <1>1, <1>3, <1>4, <1>5, <1>7 DEF R, L

LEMMA TotalBelow == IInv => Total \in Nat /\ Total < UllModulus - IntLimit
<1> SUFFICES ASSUME IInv PROVE Total \in Nat /\ Total < UllModulus - IntLimit
  OBVIOUS
<1> DEFINE U == UllModulus
           R == RecordSize
           L == IntLimit
<1>1. /\ L \in Nat \ {0} /\ U \in Nat \ {0} /\ U >= 4 * L /\ R \in Nat \ {0, 1}
      /\ FileUnit \in Nat
  BY Units, SizesAssumption
<1>2. CASE edition = "hw4"
  BY <1>2, Units, SizesAssumption DEF Total, FixedCount
<1>3. CASE edition = "hw5"
  <2> DEFINE s == option["s"]
             x == (s * FileUnit) % U
             n == x \div R
  <2>1. s * FileUnit \in Int
    BY <1>1 DEF IInv, TypeInv, Letters
  <2>2. Total = n
    BY <1>3 DEF Total, CountFor, ToUll
  <2> HIDE DEF U, R, L, s
  <2>3. x \in 0 .. (U - 1)
    BY <1>1, <2>1
  <2> HIDE DEF x
  <2>4. n \in Nat /\ R * n <= x
    BY <1>1, <2>3
  <2> HIDE DEF n
  <2>5. 2 * n <= R * n /\ R * n \in Nat
    BY <1>1, <2>4, TimesOrdered
  <2>6. n < U - L
    BY <1>1, <2>3, <2>4, <2>5
  <2> QED
    BY <2>2, <2>4, <2>6 DEF U, L
<1> QED
  BY <1>2, <1>3 DEF IInv, TypeInv

LEMMA MemoryKeptHolds == IInv => MemoryKept
<1> SUFFICES ASSUME IInv, pc = "generate", iterations > 0, -IntLimit <= option["m"] * MemUnit
             PROVE  max_records > 0 /\ max_records * RecordSize <= option["m"] * MemUnit
  BY DEF MemoryKept
<1> DEFINE m == option["m"]
           M == max_records
<1>1. m \in Int
  BY DEF IInv, TypeInv, Letters, ModeFlags
<1>2. M \in MaxRecords(m) /\ M # 0 /\ iterations = ToInt(Total \div ToUll(M))
  BY DEF IInv, SizesInv
<1>3. MemUnit \in Nat \ {0} /\ IntLimit \in Nat \ {0} /\ RecordSize \in Nat \ {0}
  BY Units
<1>4. m * MemUnit \in Int /\ -IntLimit <= m * MemUnit
  BY <1>1, <1>3
<1> HIDE DEF m, M
<1>5. M \notin (-IntLimit) .. -1
  <2> SUFFICES ASSUME M \in (-IntLimit) .. -1 PROVE FALSE
    OBVIOUS
  <2>1. iterations = 0
    BY <1>2, TotalBelow, NegativeRecords
  <2> QED
    BY <2>1
<1>6. CASE m * MemUnit < IntLimit
  <2>1. M = (m * MemUnit) \div RecordSize
    BY <1>2, <1>3, <1>4, <1>6 DEF MaxRecords, Int32
  <2>2. CASE m > 0
    <3>1. m \in Nat \ {0}
      BY <1>1, <2>2
    <3>2. M \in Nat \ {0} /\ M * RecordSize = m * MemUnit
      BY <1>2, <1>6, <3>1, AskedMemory
    <3> QED
      BY <1>4, <3>2 DEF m, M
  <2>3. CASE m = 0
    <3>1. m * MemUnit = 0
      BY <1>3, <2>3
    <3>2. 0 \div RecordSize = 0
      BY <1>3
    <3> QED
      BY <1>2, <2>1, <3>1, <3>2
  <2>4. CASE m < 0
    <3>1. M \in (-IntLimit) .. -1
      BY <1>1, <1>3, <1>4, <2>1, <2>4, NegativeMemory
    <3> QED
      BY <1>5, <3>1
  <2> QED
    BY <1>1, <2>2, <2>3, <2>4
<1>7. CASE IntLimit <= m * MemUnit
  <2>1. m \in Nat
    <3> SUFFICES ASSUME m < 0 PROVE FALSE
      BY <1>1
    <3>1. -m \in Nat /\ (-m) * MemUnit \in Nat /\ m * MemUnit = -((-m) * MemUnit)
      BY <1>1, <1>3
    <3> QED
      BY <1>3, <1>7, <3>1
  <2>2. M \in (-IntLimit) .. (IntLimit - 1) /\ (M > 0 => M * RecordSize <= m * MemUnit)
    BY <1>2, <1>7, <2>1, OverflowedMemory
  <2>3. M > 0
    BY <1>2, <1>3, <1>5, <2>2
  <2> QED
    BY <2>2, <2>3 DEF m, M
<1> QED
  BY <1>3, <1>4, <1>6, <1>7

(* Whatever the memory option is and however its product overflows, a      *)
(* generating phase that runs at all never uses more memory than granted,  *)
(* unless a negative product wraps around.                                 *)
THEOREM OptionsMemoryKept == Spec => []MemoryKept
  BY IInvAlways, MemoryKeptHolds, PTL

=============================================================================
