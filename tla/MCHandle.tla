------------------------------ MODULE MCHandle -------------------------------
(***************************************************************************)
(* Small instances of AmbixHandle.  Channel counts include a full set (4), *)
(* a reduced one (3), a count that is neither (2) and none (0); matrices   *)
(* include one that expands to a full set, one that does not, and two that *)
(* differ in content only.                                                 *)
(***************************************************************************)
EXTENDS AmbixHandle

M43(name) == [rows |-> 4, cols |-> 3, of |-> <<name>>]
M33 == [rows |-> 3, cols |-> 3, of |-> <<"square">>]
M14 == [rows |-> 1, cols |-> 4, of |-> <<"mono">>]
M44 == [rows |-> 4, cols |-> 4, of |-> <<"rotate">>]
M43s == [rows |-> 4, cols |-> 3, of |-> <<"singular">>]

File1(kind, width, uuids) ==
  [file |-> [kind |-> kind, channels |-> width, uuid |-> uuids],
   chunks |-> [mark |-> <<>>, regn |-> <<>>, strg |-> <<>>],
   frames |-> IF kind = "missing" THEN 0 ELSE 1]

SomeFiles == {
  File1("missing", 0, <<>>),
  File1("caf", 4, <<>>),
  File1("caf", 3, <<>>),
  File1("caf", 4, <<M43("a")>>),
  File1("caf", 3, <<NoMatrix, M43("b")>>),
  File1("caf", 3, <<M44>>),
  File1("caf", 4, <<M33>>),
  File1("amb", 4, <<>>),
  File1("amb", 5, <<>>),
  File1("amb", 2, <<>>),
  File1("other", 4, <<>>),
  [File1("caf", 4, <<>>) EXCEPT !.chunks =
     [mark |-> << <<[at |-> "l1", id |-> 1]>>, <<>>, <<[at |-> "l2", id |-> 2]>> >>,
      regn |-> <<>>,
      strg |-> << <<[name |-> "l2", id |-> 1], [name |-> "l1", id |-> 2]>> >>]] }

SomeContents == {"identity", "fuma", "pinv", "a", "b", "square", "mono",
                 "rotate", "singular"}
SomeMatrices == {M43("a"), M33, M14, M44, M43s}
SomeSingular == {M43s}
FewMatrices == {M43("a"), M44}
=============================================================================
