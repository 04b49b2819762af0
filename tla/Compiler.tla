------------------------------ MODULE Compiler ------------------------------
(***************************************************************************)
(* The build cache, the ownership maps and the optimizer of the compiler,  *)
(* side by side.                                                           *)
(***************************************************************************)
EXTENDS BuildCache, Optimizer

CONSTANTS Writes, Ways, WarmFrom, HashFrom, Reuse,
          MaxBranches, MaxDepth, MaxWrites          \* of OwnershipMaps

VARIABLES vec, warm, taken, branches, opened, writes, misfiled

Own == INSTANCE OwnershipMaps

ASSUME OwnershipAssumption == Own!OwnershipAssumption

buildCache == <<disk, build, cut, builds, kills, doubt, misled>>
ownership == <<vec, warm, taken, branches, opened, writes, misfiled>>

-----------------------------------------------------------------------------
\* OwnershipMaps.tla: a lookup by an index rightly filed gives what a scan gives.
RightlyFiledAreAuthoritative == Own!RightlyFiledAreAuthoritative
=============================================================================
