------------------------------ MODULE MCOptions ------------------------------
(***************************************************************************)
(* Instances of Options for TLC.  The units are scaled down, so that an    *)
(* int overflows from -m 8 on and the product is 0 again for -m 16; it is  *)
(* that of -m 1 for -m -15, while -m -8 still fits; the number of          *)
(* iterations overflows with -m 1 -s 100.                                  *)
(***************************************************************************)
EXTENDS Options

(* The line of the benchmark scripts, in full or with one option left out, *)
(* and with one option of any kind after it.                               *)
MCSizes == {<<<<"t", 3>>, <<"o", 2>>, <<"i", 1>>, <<"m", m>>, <<"s", s>>, <<"f", 1>>>> :
              m \in {-15, -9, -8, -1, 0, 1, 2, 7, 8, 15, 16, 17, 40}, s \in {-1, 1, 2, 5, 100}}

MCExtra == {<<"t", 1>>, <<"t", -1>>, <<"o", 0>>, <<"m", 3>>, <<"s", 1>>, <<"d", 1>>, <<"h", 0>>,
            <<"?", 0>>, <<"p", 1>>, <<"b", 5>>}

Without(line, n) == SubSeq(line, 1, n - 1) \o SubSeq(line, n + 1, Len(line))

(* Up to three modes, with or without a file. *)
MCModes == {<<"p", -1>>, <<"r", -2>>, <<"p", 0>>, <<"p", 1>>, <<"p", 3>>, <<"r", 1>>, <<"r", 2>>, <<"r", 4>>,
            <<"v", 0>>, <<"v", 1>>, <<"b", 0>>, <<"b", 5>>}

MCCommandLines ==
  {<<>>}
  \cup MCSizes
  \cup {Without(line, n) : line \in MCSizes, n \in 1 .. 6}
  \cup {Append(line, extra) : line \in MCSizes, extra \in MCExtra}
  \cup {<<a, <<"f", 1>>>> : a \in MCModes} \cup {<<a>> : a \in MCModes}
  \cup {<<a, <<"f", 1>>, b, c>> : a, b, c \in MCModes}

(* What file_size may hold without -s. *)
MCGarbage == {-2, 0, 3}

(* Empty, whole records, and a file cut short inside a record. *)
MCFileSizes == {0, 4, 12, 13, 16}

=============================================================================
