-------------------------------- MODULE Packets --------------------------------
(***************************************************************************)
(* One board talks, a peer listens.  First the board advertises until the  *)
(* peer has heard it, told it from other devices and connected; then its   *)
(* messages are laid out in bytes, wait in the packet queue of their       *)
(* connection and are read again by the peer; until the link ends.         *)
(* TransmissionQueue is the queue, Messages has the layouts.               *)
(*                                                                         *)
(* Times are in the units of the advertising and scanning parameters,      *)
(* 0.625 ms; what the radio adds to them at random is a multiple of 10 ms. *)
(***************************************************************************)
EXTENDS TransmissionQueue, Messages

CONSTANTS DeviceIds,     \* ids of boards
          Versions,      \* what a byte of a version says
          Texts,         \* what users type after bro, as bytes
          OtherPackets,  \* packets that are none of the mesh's
          OtherReports,  \* advertising data of other devices
          UnusedBytes    \* what can lie in the bytes advertisingData leaves unset

\* A text ends before its end mark.  No board has the id that stands for none.
\* Nobody else advertises under the manufacturer's number with data this long.
ASSUME PacketsAssumption ==
    /\ DeviceIds \subseteq [1 .. 4 -> Byte] \ {NoId}
    /\ Versions \subseteq Byte
    /\ Texts \subseteq Seq(Byte \ {0})
    /\ UnusedBytes \subseteq [1 .. 4 -> Byte]
    /\ \A data \in OtherReports :
           Len(data) = 22 => data[2] # AD_MANUFACTURER \/ SubSeq(data, 3, 4) # MANUFACTURER_ID

VARIABLES unsent,        \* history: the messages the queue has accepted
          report,        \* the advertising report handled last, and whose it is
          radio          \* what the peer does; the board's next advertising event comes
                         \* at phase of its sweep over the channels; missed were before

pvars == <<vars, unsent, report, radio>>

--------------------------------------------------------------------------------
(* Advertising and scanning.  The board advertises on channel 37 only; the peer *)
(* listens to one channel per interval, to each of the three in turn.           *)

\* Slip: as long as the sweep over the channels.
meshAdvertisingParams_resonant == [interval |-> 480, channels |-> {37}]

meshAdvertisingParams == [interval |-> 512, channels |-> {37}]
meshScanningParams == [interval |-> 160, window |-> 64]
meshConnectionScanningParams == meshScanningParams @@ [timeout |-> 4800]

\* The parameters of the link, in 1.25 ms and 10 ms.
ATTR_MESH_CONNECTION_INTERVAL == 80
ATTR_MESH_CONNECTION_TIMEOUT == 50

meshConnectionParams ==
    [min_conn_interval |-> ATTR_MESH_CONNECTION_INTERVAL,
     max_conn_interval |-> ATTR_MESH_CONNECTION_INTERVAL,
     slave_latency |-> 0,
     conn_sup_timeout |-> ATTR_MESH_CONNECTION_TIMEOUT]

\* sd_ble_gap_connect refuses an interval or a timeout out of range, and a timeout
\* of less than two intervals.
ConnectionAccepted ==
    LET p == meshConnectionParams
    IN  /\ 6 <= p.min_conn_interval
        /\ p.min_conn_interval <= p.max_conn_interval /\ p.max_conn_interval <= 3200
        /\ p.slave_latency <= 499
        /\ p.conn_sup_timeout \in 10 .. 3200
        /\ p.conn_sup_timeout * 4 > (1 + p.slave_latency) * p.max_conn_interval

Sweep == 3 * meshScanningParams.interval
advDelay == {0, 16}                              \* up to 10 ms, at random
Phases == {16 * i : i \in 0 .. Sweep \div 16 - 1}

\* The peer listens to this channel at this phase.
Listens(channel, phase) ==
    LET start == (channel - 37) * meshScanningParams.interval
    IN  phase \in start .. start + meshScanningParams.window - 1

Heard == \E channel \in meshAdvertisingParams.channels : Listens(channel, radio.phase)

Nobody == [id |-> NoId, data |-> <<>>, response |-> <<>>]

PacketsInit ==
    /\ Init
    /\ unsent = <<>>
    /\ report = Nobody
    /\ radio \in [gap : {"scanning"}, phase : Phases, missed : {0}]

\* Bound: the attempt ends when the next event would come too late; the delays
\* do not count.
AttemptGoesOn == (radio.missed + 1) * meshAdvertisingParams.interval
                    <= meshConnectionScanningParams.timeout

missed_event ==
    /\ radio.gap \in {"scanning", "initiating"} /\ ~Heard
    /\ radio.gap = "initiating" => AttemptGoesOn
    /\ \E delay \in advDelay :
           radio' = [radio EXCEPT
               !.phase = (@ + meshAdvertisingParams.interval + delay) % Sweep,
               !.missed = @ + 1]
    /\ UNCHANGED <<vars, unsent, report>>

\* The board advertises with whatever lay on its stack in the bytes it leaves unset.
board_reported ==
    /\ radio.gap = "scanning" /\ Heard
    /\ report' \in {[id |-> id, data |-> advertisingData(id, unused), response |-> scanResponseData] :
                       id \in DeviceIds, unused \in UnusedBytes}

other_reported ==
    /\ radio.gap = "scanning"
    /\ report' \in [id : {NoId}, data : OtherReports, response : {<<>>}]

\* An attempt scans too, from any phase on; without one, or when the softdevice
\* refuses it, the scan goes on.  With the one link there is here, the peer never
\* runs out of child slots (gap.c:192); Device has that case.
handle_advertising_report_event ==
    /\ board_reported \/ other_reported
    /\ IF should_connect_to_advertiser(report'.data) /\ ConnectionAccepted
       THEN radio' \in [gap : {"initiating"}, phase : Phases, missed : {0}]
       ELSE UNCHANGED radio
    /\ UNCHANGED <<vars, unsent>>

handle_connection_event ==
    /\ radio.gap = "initiating" /\ Heard
    /\ radio' = [gap |-> "linked", phase |-> 0, missed |-> 0]
    /\ report' = Nobody
    /\ UNCHANGED <<vars, unsent>>

handle_connection_timeout_event ==
    /\ radio.gap = "initiating" /\ ~Heard /\ ~AttemptGoesOn
    /\ radio' \in [gap : {"scanning"}, phase : Phases, missed : {0}]
    /\ report' = Nobody
    /\ UNCHANGED <<vars, unsent>>

--------------------------------------------------------------------------------
(* Messages. *)

\* A board says its own version in its handshake; peers may run another one.
Handshake ==
    [type : {"handshake"}, deviceId : DeviceIds, majorVersion : Versions, minorVersion : Versions]

\* The version in a heartbeat is a constant of the source.
Heartbeat ==
    {m \in [type : {"heartbeat"}, deviceId : DeviceIds,
             centralConnectionDeviceId : DeviceIds \union {NoId},
             majorVersion : {0}, minorVersion : {1}] :
        m.deviceId # m.centralConnectionDeviceId}

\* A longer text is refused with a line of its own.
Broadcast ==
    [type : {"broadcast"}, message : {text \in Texts : Len(text) <= BROADCAST_MESSAGE_MAX_SIZE}]

Message == Handshake \union Heartbeat \union Broadcast

packet(m) == [dataLength |-> Len(BleMessageReq(m)), data |-> BleMessageReq(m)]

ASSUME OffersAssumption == OtherPackets \union {packet(m) : m \in Message} \subseteq Offered

Sent(m) ==
    /\ radio.gap = "linked"
    /\ push_onto_queue(packet(m))
    /\ unsent' = IF ok' THEN Append(unsent, m) ELSE unsent
    /\ UNCHANGED <<report, radio>>

send_handshake_message == \E m \in Handshake : Sent(m)
send_heartbeat_message == \E m \in Heartbeat : Sent(m)
send_broadcast_message == \E m \in Broadcast : Sent(m)

\* Anything else that is offered is too long for a slot.
push_other ==
    /\ radio.gap = "linked"
    /\ \E p \in OtherPackets : ~push_succeeds(queue, p) /\ push_onto_queue(p)
    /\ UNCHANGED <<unsent, report, radio>>

\* send_next_packet: popped once the softdevice has taken it; before that it is
\* peeked at.  With an empty queue nothing is popped.
peek == radio.gap = "linked" /\ peek_from_queue /\ UNCHANGED <<unsent, report, radio>>

pop ==
    /\ radio.gap = "linked" /\ pop_from_queue
    /\ unsent' = IF queue_is_empty(queue) THEN unsent ELSE Tail(unsent)
    /\ UNCHANGED <<report, radio>>

handle_disconnection_event ==
    /\ radio.gap = "linked" /\ reset
    /\ unsent' = <<>>
    /\ radio' \in [gap : {"scanning"}, phase : Phases, missed : {0}]
    /\ UNCHANGED report

PacketsNext ==
    \/ missed_event \/ handle_advertising_report_event
    \/ handle_connection_event \/ handle_connection_timeout_event
    \/ send_handshake_message \/ send_heartbeat_message \/ send_broadcast_message
    \/ push_other \/ peek \/ pop \/ handle_disconnection_event

PacketsSpec == PacketsInit /\ [][PacketsNext]_pvars

--------------------------------------------------------------------------------
\* A board that advertises is heard by a board that scans: it advertises at an
\* interval out of step with the scanner's sweep over the channels, and at most
\* thirteen of its events in a row, four and a half seconds, miss the window,
\* wherever they began and whatever the radio adds to the intervals.
HeardInTime == radio.gap = "scanning" => radio.missed <= 13

\* The receive handlers of the peer read out of the bytes, field by field, what
\* the board meant to say with its oldest unsent message, however long it waited
\* in the ring and whatever its slot had held before.
HearsWhatWasSaid == out # <<>> => received(out[1].data) = Head(unsent)

\* What the queue hands out can be written and read.  It fits the 20 bytes of one
\* write and the characteristic of the peer: the queue takes up to 23 bytes, and
\* a message the softdevice always refuses would block it until the link ends.
\* And it ends inside the struct of its type: receive_broadcast_message, which
\* prints up to the end mark, reads nothing behind the packet.
PacketsAreWritable ==
    out # <<>> => LET data == out[1].data
                  IN  /\ Len(data) <= 20 /\ Len(data) <= FOO_CHARACTERISTIC_MAX_LENGTH
                      /\ data[1] = MessageType.broadcast =>
                            /\ Len(data) = 1 + BROADCAST_MESSAGE_MAX_SIZE + 1
                            /\ 0 \in {data[i] : i \in 2 .. Len(data)}

\* A scanning board sets out to connect to the boards of the mesh, whatever their
\* ids and the bytes advertisingData leaves unset, and to no other device.
RecognisesMesh ==
    report # Nobody => (radio.gap = "initiating" <=> report.id # NoId)

\* The advertising data and the scan response fit 31 bytes, and any scanner can
\* take them apart: each length leads to the next structure, the last one ends
\* with the data, and the digits of the name give back the lower half of the id.
AdvertisementParses ==
    report.id # NoId =>
        LET data == report.data
            name == data[1] + 2                    \* the second structure
            digit(i) == hex_digit_to_uint8(data[name + 1 + i])
        IN  /\ Len(data) <= 31 /\ Len(report.response) <= 31
            /\ name + data[name] = Len(data)
            /\ data[name + 1] = AD_LOCAL_NAME
            /\ 16 * digit(8) + digit(9) = report.id[1]
            /\ 16 * digit(6) + digit(7) = report.id[2]
            /\ 1 + report.response[1] = Len(report.response)

\* Whatever version a peer claims in its handshake or its heartbeat, what "cons"
\* then prints about it fits version[9] and result[50] of
\* print_single_connection_info, and the line of the heartbeat fits
\* heartbeatLog[256] and the buffer of the log behind it.
PrintedTextFits ==
    out # <<>> =>
        LET m == received(out[1].data)
        IN  /\ m.type = "handshake" =>
                /\ VersionLength(m.majorVersion, m.minorVersion) < 9
                /\ ConnectionLength(m.deviceId, m.majorVersion, m.minorVersion) < 50
            /\ m.type = "heartbeat" =>
                HeartbeatLength(m.centralConnectionDeviceId, m.majorVersion, m.minorVersion)
                    < NRF_LOG_BACKEND_MAX_STRING_LENGTH
================================================================================
