----------------------- MODULE MCConnectionLifecycle -----------------------
EXTENDS ConnectionLifecycle, TLC

CONSTANTS u1, u2, d1, d2, t1, t2

\* Threads, users and devices are interchangeable.
Interchangeable ==
    Permutations(Threads) \cup Permutations(Users) \cup Permutations(Devices)
=============================================================================
