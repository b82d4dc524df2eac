--------------------------- MODULE MCStaffRecords ---------------------------
(***************************************************************************)
(* An employee in two companies with the same manager, and the manager.    *)
(* Three faces on a line: f2 is near f1 and nearer to f3 than the margin   *)
(* tells apart.                                                            *)
(***************************************************************************)
EXTENDS StaffRecords, TLC

CONSTANTS ann, mia, acme, beta, f1, f2, f3, s1, s2

MCUsers == {ann, mia}
MCCompanies == {acme, beta}
MCCompaniesOf == (ann :> {acme, beta}) @@ (mia :> {})
MCManagers == (acme :> {mia}) @@ (beta :> {mia})
MCSlots == {s1, s2}
Symmetry == Permutations(MCSlots)
MCFaces == {f1, f2, f3}
At == (f1 :> 0) @@ (f2 :> 2) @@ (f3 :> 3)
MCDistance == [p \in MCFaces \X MCFaces |->
                 IF At[p[1]] > At[p[2]] THEN At[p[1]] - At[p[2]] ELSE At[p[2]] - At[p[1]]]
=============================================================================
