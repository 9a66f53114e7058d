--------------------------- MODULE MCAtomicDrive ---------------------------
(* Instances of the drive loop for TLC.                                     *)
EXTENDS AtomicDrive, TLC

AllFaults == DriveFaults
FewFaults == {"no_encsig", "xmr"}

(* No maker is special before the first negotiation, and none is named in   *)
(* the safety properties.                                                   *)
MakerSymmetry == Permutations(Makers)

(* Bounds the product of defects, crashes and changes of maker.  A swap     *)
(* that keeps its maker may crash and that maker may have any defect; in a  *)
(* swap that changes it each maker has one of the few defects, and the loop *)
(* is not restarted.                                                        *)
MakersAlike == \A m, n \in Makers : fault[m] = fault[n]
Bounded ==
  \/ MakersAlike /\ switches = 0
  \/ restarts = 0 /\ \A m \in Makers : fault[m] \in FewFaults \cup {"none"}
=============================================================================
