----------------------------- MODULE MCWaterTap -----------------------------
(***************************************************************************)
(* The programs with the kernel's table of ten slots, on one line of up to *)
(* four students, on two, three and four lines, with a volume of 0, and    *)
(* without an input file.  At the fourth line the table is full.           *)
(***************************************************************************)
EXTENDS WaterTap

Line(n) == [1..n -> {1, 2, 12}]

\* The input.txt of the repository is Sample.
Sample == << <<4, 2, 1>>, <<5, 3, 4, 1>>, <<8, 5, 2>> >>

MCInputs ==
  {NULL, <<>>, Sample, << <<1>>, <<2>>, <<1>>, <<2>> >>, << <<2, 0, 1>> >>}
  \cup {<<line>> : line \in Line(1) \cup Line(2) \cup Line(3) \cup Line(4)}
  \cup {<<a, b>> : a \in Line(2), b \in Line(2)}
=============================================================================
