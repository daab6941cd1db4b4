------------------------------ MODULE MCLiveRoom ------------------------------
(* Instances of LiveRoom: a few viewers and a few changes of one fixture.    *)
EXTENDS LiveRoom, TLC

Symmetric == Permutations(Sockets) \cup Permutations(Handlers)
===============================================================================
