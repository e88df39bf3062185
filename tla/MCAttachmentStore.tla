------------------------- MODULE MCAttachmentStore -------------------------
(* Two tasks in two workspaces for TLC; every cfg says how many files.     *)
EXTENDS AttachmentStore, TLC

CONSTANTS k1, k2, w1, w2, a1, a2, a3, p1, p2

MCWorkspaceOf == (k1 :> w1) @@ (k2 :> w2)

MCOneTask == k1 :> w1

StoreSymmetry == Permutations(Files) \cup Permutations(Procs)
=============================================================================
