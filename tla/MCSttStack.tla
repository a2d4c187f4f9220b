----------------------------- MODULE MCSttStack -----------------------------
(* The instance of SttStack for TLC.                                        *)
EXTENDS SttStack

File(chunks, cut) == [magic |-> TRUE, cut |-> cut, chunks |-> chunks]

Spoken == Data(<<1, 0, 1>>, 0)
Still  == Data(<<0, 0, 1>>, 0)

(* Quiet as a whole or as far as it reached the disk, and the reverse.      *)
Rising == Data(<<0, 0, 1, 1>>, 0)
Fading == Data(<<1, 0, 0, 0>>, 0)

(* Odd chunks before the samples, lengths around a block, cuts within and   *)
(* between the blocks, before the samples and in the format, and every way  *)
(* a file can be refused.                                                   *)
MCRecordings ==
  { File(<<Fmt(2, TRUE), d>>, 0) :
      d \in {Spoken, Still, Data(<<>>, 0), Data(<<0, 0>>, 0), Data(<<0, 1>>, 0),
             Data(<<0>>, 1), Data(<<0, 0, 0, 0, 0>>, 0)} }
  \cup { File(<<Fmt(2, TRUE), d>>, cut) : d \in {Rising, Fading}, cut \in {0, 1, 4, 8, 9} }
  \cup { File(<<Fmt(3, TRUE), Other(1), d, Other(2)>>, cut) :
           d \in {Spoken, Still}, cut \in {0, 1, 5} }
  \cup { File(<<Fmt(3, TRUE)>>, cut) : cut \in {1, 2, 4} }
  \cup { File(<<Fmt(2, FALSE), Still>>, 0),
         File(<<Fmt(1, TRUE), Still>>, 0), File(<<Other(1), Still>>, 0),
         File(<<Fmt(2, TRUE), Other(1)>>, 0), File(<<Fmt(2, TRUE), Other(2)>>, 1),
         [magic |-> FALSE, cut |-> 0, chunks |-> <<Fmt(2, TRUE), Still>>] }
=============================================================================
