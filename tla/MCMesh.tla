------------------------------- MODULE MCMesh --------------------------------
(* One layer of four cells between a slab that lies below the isovalue and    *)
(* any other: the words marchlayer writes for its triangles.                  *)
EXTENDS Mesh

MCFirst == Voxels
MCSlabsAt(n) == SUBSET Voxels

=============================================================================
