-------------------------- MODULE MCChannelPrograms --------------------------
(* One of the programs of ChannelPrograms at a time; those that do not run *)
(* have one initial state.                                                 *)
EXTENDS ChannelPrograms, TLC

MCInit ==
    /\ Init
    /\ program # "ChannelCopyTest" => version = "channelCopy1"
    /\ program # "TimeService" => resolved = {}
    /\ program # "LockTest" => file = <<>>
MCSpec == MCInit /\ [][Next]_vars /\ Fairness
=============================================================================
