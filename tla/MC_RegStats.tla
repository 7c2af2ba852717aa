---------------------------- MODULE MC_RegStats ----------------------------
(***************************************************************************)
(* A small RISC-V: three integer registers and a system register in one    *)
(* LLVM class, two double registers, their single halves, and a status     *)
(* register no class matches.  Every module that uses some of them.        *)
(***************************************************************************)
EXTENDS RegStats, TLC

MC_Classes == <<"GPR", "FPR", "FPR_W", "SYS">>
MC_FullMatch == "GPR" :> {10, 11, 12} @@ "FPR" :> {20, 21}
                @@ "FPR_W" :> {30, 31} @@ "SYS" :> {13}
\* The expression of SYS is not anchored.
MC_Match == [MC_FullMatch EXCEPT !["SYS"] = {12, 13}]
MC_SubOf == "FPR_W" :> "FPR"
MC_TargetClasses == <<{10, 11, 12, 13}, {10, 11}, {20, 21}, {30, 31}, {30}, {40}>>
MC_Uses == (SUBSET {10, 12, 13, 20, 21, 30, 31}) \cup {{10, 40}}

ASSUME Fits

=============================================================================
