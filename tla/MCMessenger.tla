----------------------------- MODULE MCMessenger -----------------------------
(* Small instances of Messenger for TLC.                                     *)
EXTENDS Messenger, TLC

ThreadSymmetry == Permutations(Threads)

NoFaults    == {}
\* Everything that can go wrong, except a failing write of __head__.
AllButAck   == AllFaults \ {"ack"}
RedisErrors == {"hset"}
=============================================================================
