------------------------------ MODULE MCThreadPool -----------------------------
EXTENDS ThreadPool, TLC

\* The workers run the same code.
WorkerSymmetry == Permutations(Workers)
===============================================================================
