----------------------------- MODULE MCFileLock -----------------------------
EXTENDS FileLock, TLC

CONSTANTS t1, t2, t3, p1, p2, p3

\* one task in each of three processes
Apart == (t1 :> p1) @@ (t2 :> p2) @@ (t3 :> p3)

=============================================================================
