------------------------------- MODULE General -------------------------------
(* What General.h gives the parts of a data server to tell requests apart. *)
EXTENDS Integers

VFS_SUB_ID_BASE == 10
LFS_SUB_ID_BASE == 1

\* Mutant of PageSubID: it is not rounded down.
PageSubIDUnrounded(subID) == subID

\* The SubID of the page request that a page or block request came from.
PageSubID(subID) == (subID \div VFS_SUB_ID_BASE) * VFS_SUB_ID_BASE
==============================================================================
