------------------------------ MODULE MCShared ------------------------------
(***************************************************************************)
(* The parts of the library that are shared: those of Shared, and here the *)
(* iterator, which walks a disk that another process changes.              *)
(***************************************************************************)
EXTENDS Shared, TLC

CONSTANT Subjects       \* the systems of this run

SomePorts == {<<1, 2>>}

\* Disks with a deep directory, with one that cannot be opened, and an almost empty one.
Deep == (<< >> :> "dir") @@ (<<"a">> :> "dir") @@ (<<"b">> :> "file") @@ (<<"a", "b">> :> "dir") @@ (<<"a", "a">> :> "file")
Locked == (<< >> :> "dir") @@ (<<"a">> :> "dir") @@ (<<"b">> :> "locked") @@ (<<"a", "b">> :> "dir")
          @@ (<<"a", "b", "a">> :> "file")
Bare == (<< >> :> "dir") @@ (<<"b">> :> "file")
Made == {<<"a">>, <<"a", "b">>, <<"a", "b", "a">>, <<"b", "a">>}
Disks == {Deep, Locked, Bare}
Walk == INSTANCE FsDisk WITH
    os <- s1, disk <- s2, noise <- s3, mk <- s4, stat <- s5, iter <- s6, pool <- s7,
    DiskPlatforms <- Platforms, Layouts <- {Deep, Locked}, Targets <- {}, Walked <- {<< >>, <<"b">>},
    Noisy <- {<<"b">>, <<"a", "b">>, <<"a", "b", "a">>}, MaxNoise <- 1, MaxSlots <- 4, MaxWalks <- 1

Init ==
    /\ \/ SharedInit
       \/ subject = "walk" /\ Walk!DiskInit /\ Unused(7)
    /\ subject \in Subjects

Next ==
    \/ SharedNext
    \/ subject = "walk" /\ Walk!DiskNext /\ UNCHANGED <<subject, Tail8>>

Spec == Init /\ [][Next]_state

----------------------------------------------------------------------------

\* The iterator (vlFSIterNext) shows every entry once, under its right path, and the
\* slots of paths have one owner.
DiskSound == subject = "walk" => Walk!WalkSound

============================================================================
