--------------------------- MODULE MCDeviceOutbox ---------------------------
(* DeviceOutbox on a conversation and on lines that are written to every     *)
(* device of an account.                                                     *)
EXTENDS DeviceOutbox, TLC

CONSTANTS PeerLines, DeviceLines

Written == ({Peer} \X PeerLines) \cup (Devices \X DeviceLines)

Interchangeable ==
    {p @@ n @@ d : p \in Permutations(PeerLines), n \in Permutations(DeviceLines),
                   d \in Permutations(Devices)}
=============================================================================
