---------------------------- MODULE MCProcessors -----------------------------
(* One of the processors, loaded into a program with two files. The program   *)
(* and one processor take all the steps; the others' state stays as it is     *)
(* when a library is not there. Marching cubes is checked by itself, with any *)
(* slab after the first in place of the slabs Isosurf makes of a file.        *)
EXTENDS Mesh, Isosurf, Silo, Minmax, Provenance, Nek5k, Writers

CONSTANTS a, b

VARIABLE loaded

Processors ==
    {"mesh", "isosurf", "silo", "minmax", "provenance", "nek5k", "adios", "enzo"}

\* Slabs whose voxels repeat every two, after the first front buffer of zeros;
\* then every slab there is.
MCFirst == Voxels
Periodic ==
    {{v \in Voxels : <<v[1] % 2, v[2] % 2>> \in p} : p \in SUBSET ((0 .. 1) \X (0 .. 1))}
MCSlabsAt(n) == IF n = 0 THEN Periodic ELSE SUBSET Voxels

MCBasename == [f \in {a, b} |-> f]

MCValues == {-50, 3}
MCMin == -100

Init ==
    /\ loaded \in Processors
    /\ MeshInit /\ IsosurfInit /\ SiloInit /\ MinmaxInit /\ ProvenanceInit
    /\ NekInit /\ WritersInit
    /\ loaded # "enzo" => \A i \in DOMAIN dumps : dumps[i] = NULL
    /\ loaded = "mesh" => overlap = FALSE

Next ==
    /\ UNCHANGED loaded
    /\ \/ /\ loaded = "mesh" /\ MeshNext
          /\ UNCHANGED <<programVars, isoVars, siloVars, minmaxVars,
                         provenanceVars, nekVars, writersVars>>
       \/ /\ loaded = "isosurf" /\ IsosurfNext
          /\ UNCHANGED <<meshVars, siloVars, minmaxVars,
                         provenanceVars, nekVars, writersVars>>
       \/ /\ loaded = "silo" /\ SiloNext
          /\ UNCHANGED <<meshVars, isoVars, minmaxVars,
                         provenanceVars, nekVars, writersVars>>
       \/ /\ loaded = "minmax" /\ MinmaxNext
          /\ UNCHANGED <<meshVars, isoVars, siloVars,
                         provenanceVars, nekVars, writersVars>>
       \/ /\ loaded = "provenance" /\ ProvenanceNext
          /\ UNCHANGED <<meshVars, isoVars, siloVars, minmaxVars,
                         nekVars, writersVars>>
       \/ /\ loaded = "nek5k" /\ NekNext
          /\ UNCHANGED <<meshVars, isoVars, siloVars, minmaxVars,
                         provenanceVars, writersVars>>
       \/ /\ \/ loaded = "adios" /\ AdiosNext
             \/ loaded = "enzo" /\ EnzoNext
          /\ UNCHANGED <<meshVars, isoVars, siloVars, minmaxVars,
                         provenanceVars, nekVars>>

allVars == <<loaded, programVars, meshVars, isoVars, siloVars, minmaxVars,
             provenanceVars, nekVars, writersVars>>

Spec == Init /\ [][Next]_allVars

=============================================================================
