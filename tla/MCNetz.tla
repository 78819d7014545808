-------------------------------- MODULE MCNetz -------------------------------
(* Small domains for Netz: a cfg chooses bricks, their size and the slices.  *)
EXTENDS Netz

OneBrick == <<1, 1, 1>>
TwoInX == <<2, 1, 1>>
FourInYZ == <<1, 2, 2>>

Cube == <<2, 2, 2>>
Bar == <<2, 2, 1>>

NoSlices == <<>>
Top == <<1>>

=============================================================================
