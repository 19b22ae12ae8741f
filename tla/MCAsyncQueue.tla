------------------------------ MODULE MCAsyncQueue -----------------------------
EXTENDS AsyncQueue, TLC

\* The producers differ only in name.
ProducerSymmetry == Permutations(Producers)
===============================================================================
