------------------------------ MODULE MCAsyncPool ------------------------------
EXTENDS AsyncPool, TLC

\* The clients run the same code: their names do not matter.
ThreadSymmetry == Permutations(Threads)
===============================================================================
