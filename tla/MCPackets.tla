------------------------------- MODULE MCPackets -------------------------------
(* Packets on a ring of three slots, with slots of the real 23 bytes: two      *)
(* boards whose ids have digits above and below ten, texts of no, twelve and   *)
(* thirteen characters, one packet a byte too long for a slot, and reports of  *)
(* devices that differ from a board in one respect each.                       *)
EXTENDS Packets

MCDeviceIds == {<<160, 31, 7, 1>>, <<9, 240, 7, 1>>}
MCTexts == {<<>>, [i \in 1 .. 12 |-> 120], [i \in 1 .. 13 |-> 120]}
MCOtherPackets == {[dataLength |-> 24, data |-> [i \in 1 .. 24 |-> 1]]}

MCUnusedBytes == {Zeros(4), [i \in 1 .. 4 |-> 255]}

MCPayloads == {BleMessageReq(m) : m \in Message} \union {<<>>} \union {p.data : p \in MCOtherPackets}
MCOffered == {packet(m) : m \in Message} \union MCOtherPackets
MCZeroPayload == <<>>

Board == advertisingData(<<160, 31, 7, 1>>, NoId)
MCOtherReports ==
    {[Board EXCEPT ![3] = 221], [Board EXCEPT ![2] = 1], SubSeq(Board, 1, 21), Board \o <<0>>}
================================================================================
