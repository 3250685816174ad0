------------------------------ MODULE MCTools --------------------------------
(***************************************************************************)
(* Small instances of Tools: sound files of one, three (shorter than it    *)
(* says) and four channels, an empty one, one that is missing and two .amb *)
(* files; matrices that fit, do not, and have no columns.                  *)
(***************************************************************************)
EXTENDS Tools

SoundOf(kind, width, length) ==
  [kind |-> kind, channels |-> width, frames |-> length, kept |-> length]

SomeSounds ==
  { SoundOf("wav", 1, 3), SoundOf("wav", 4, 2), [SoundOf("wav", 3, 4) EXCEPT !.kept = 3],
    SoundOf("wav", 1, 0), SoundOf("missing", 0, 0), SoundOf("amb", 4, 2),
    SoundOf("amb", 2, 2) }

Odd(r, c) == r + 2 * c - 1
SomeMatrices ==
  {MatrixOf(4, 3, Odd), MatrixOf(1, 2, Odd), MatrixOf(3, 3, Odd), MatrixOf(4, 0, Odd)}

SomeOrders == {-1, 0, 1}

Numbered(width, length) == [f \in 1 .. length |-> [c \in 0 .. width - 1 |-> 10 * c + f]]
Caf(width, m, length) ==
  [kind |-> "caf", channels |-> width, matrix |-> m, frames |-> Numbered(width, length)]
SomeForeign ==
  { Caf(4, NoMatrix, 3), Caf(2, NoMatrix, 2), Caf(5, MatrixOf(4, 3, Odd), 3),
    Caf(4, MatrixOf(4, 0, Odd), 2), Caf(2, MatrixOf(4, 3, Odd), 1), Caf(3, MatrixOf(3, 3, Odd), 2),
    [Caf(4, NoMatrix, 2) EXCEPT !.kind = "amb"],
    [Caf(3, NoMatrix, 2) EXCEPT !.kind = "amb"],
    [Caf(1, NoMatrix, 2) EXCEPT !.kind = "amb"],
    [Caf(4, NoMatrix, 2) EXCEPT !.kind = "wav"]}
=============================================================================
