----------------------------- MODULE MCBulkJobs -----------------------------
(***************************************************************************)
(* Instances of BulkJobs for TLC.                                          *)
(***************************************************************************)
EXTENDS BulkJobs, TLC

CONSTANTS j1, j2, j3, r1, r2, r3

\* Model values of this instance's jobs and rows: one job of two rows ...
OneJobOf   == [r \in Row |-> j1]
NoAfter    == [r \in Row |-> NoRow]
NoReverts  == [j \in Job |-> NoJob]
\* ... whose second row waits for the first, ...
SecondWaits == [r \in Row |-> IF r = r2 THEN r1 ELSE NoRow]
\* ... and a job of one row with one or two reverts.
RowPerJob  == [r \in Row |-> CASE r = r1 -> j1 [] r = r2 -> j2 [] OTHER -> j3]
RevertsOfOne == [j \in Job |-> IF j = j1 THEN NoJob ELSE j1]

Symmetric == Permutations(Token) \cup Permutations(Worker) \cup Permutations(Proc)
\* The two reverts of RevertsOfOne, each with its row, are alike too.
RevertsSwapped == (j2 :> j3) @@ (j3 :> j2) @@ (r2 :> r3) @@ (r3 :> r2)
SymmetricReverts == Symmetric \cup {RevertsSwapped}
=============================================================================
