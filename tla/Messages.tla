------------------------------- MODULE Messages -------------------------------
(***************************************************************************)
(* What boards say to each other, byte by byte: the packed structs of      *)
(* inc/message_types/ and inc/gap.h as sequences of bytes, the device name *)
(* of src/device.c and the texts printed about peers.  An id is the        *)
(* sequence of its four bytes as they lie in memory, lowest first.         *)
(***************************************************************************)
EXTENDS Integers, Sequences, SequencesExt

Byte == 0 .. 255
Zeros(n) == [i \in 1 .. n |-> 0]
NoId == Zeros(4)

--------------------------------------------------------------------------------
(* Names: "Mesh-" and the lower two bytes of the id in hexadecimal digits. *)

HEX_DIGITS == <<48, 49, 50, 51, 52, 53, 54, 55, 56, 57, 65, 66, 67, 68, 69, 70>>
HEX_DEVICE_ID_LENGTH == 10
HEX_DEVICE_ID_TEMPLATE == <<77, 101, 115, 104, 45, 48, 48, 48, 48, 0>>

\* The i-th digit of the id, from the lowest on: what is masked out after i shifts by 4.
Nibble(id, i) == (id[(i \div 2) + 1] \div (IF i % 2 = 0 THEN 1 ELSE 16)) % 16

get_short_hex_device_id(id) ==
    [i \in 1 .. HEX_DEVICE_ID_LENGTH |->
        IF i \in 6 .. 9 THEN HEX_DIGITS[Nibble(id, 9 - i) + 1] ELSE HEX_DEVICE_ID_TEMPLATE[i]]

\* The last digit equal to it, or 0.
hex_digit_to_uint8(digit) ==
    IF \E i \in 0 .. 15 : HEX_DIGITS[i + 1] = digit
    THEN CHOOSE i \in 0 .. 15 : HEX_DIGITS[i + 1] = digit ELSE 0

--------------------------------------------------------------------------------
(* Messages.  The first byte is the type, in the order of registration (Boot). *)

\* Slip: as much text as a packet holds that has no type and no end mark.
BROADCAST_MESSAGE_MAX_SIZE_20 == 20

BROADCAST_MESSAGE_MAX_SIZE == 12
FOO_CHARACTERISTIC_MAX_LENGTH == 40
MessageType == [broadcast |-> 1, handshake |-> 2, heartbeat |-> 3]

\* A text up to its end mark.
Text(bytes) ==
    LET end == CHOOSE i \in 1 .. Len(bytes) :
                   bytes[i] = 0 /\ \A j \in 1 .. i - 1 : bytes[j] # 0
    IN  SubSeq(bytes, 1, end - 1)

\* The request that send_*_message fills in, after a memset.
BleMessageReq(m) ==
    CASE m.type = "broadcast" ->
            <<MessageType.broadcast>> \o m.message
                \o Zeros(BROADCAST_MESSAGE_MAX_SIZE + 1 - Len(m.message))
      [] m.type = "handshake" ->
            <<MessageType.handshake>> \o m.deviceId \o <<m.majorVersion, m.minorVersion>>
      [] m.type = "heartbeat" ->
            <<MessageType.heartbeat>> \o m.deviceId \o m.centralConnectionDeviceId
                \o <<m.majorVersion, m.minorVersion>>

\* Slip: the ids of a heartbeat are read in the other order.
received_swapped(data) ==
    CASE data[1] = MessageType.broadcast ->
            [type |-> "broadcast", message |-> Text(Tail(data))]
      [] data[1] = MessageType.handshake ->
            [type |-> "handshake", deviceId |-> SubSeq(data, 2, 5),
             majorVersion |-> data[6], minorVersion |-> data[7]]
      [] data[1] = MessageType.heartbeat ->
            [type |-> "heartbeat", deviceId |-> SubSeq(data, 6, 9),
             centralConnectionDeviceId |-> SubSeq(data, 2, 5),
             majorVersion |-> data[10], minorVersion |-> data[11]]

\* What receive_*_message reads out of the bytes, cast to the struct of their type.
received(data) ==
    CASE data[1] = MessageType.broadcast ->
            [type |-> "broadcast", message |-> Text(Tail(data))]
      [] data[1] = MessageType.handshake ->
            [type |-> "handshake", deviceId |-> SubSeq(data, 2, 5),
             majorVersion |-> data[6], minorVersion |-> data[7]]
      [] data[1] = MessageType.heartbeat ->
            [type |-> "heartbeat", deviceId |-> SubSeq(data, 2, 5),
             centralConnectionDeviceId |-> SubSeq(data, 6, 9),
             majorVersion |-> data[10], minorVersion |-> data[11]]

--------------------------------------------------------------------------------
(* Advertising: two AD structures, each with its length without the length byte. *)

AD_MANUFACTURER == 255      \* BLE_GAP_AD_TYPE_MANUFACTURER_SPECIFIC_DATA
AD_LOCAL_NAME == 9          \* BLE_GAP_AD_TYPE_COMPLETE_LOCAL_NAME
MANUFACTURER_ID == <<222, 192>>    \* 0xC0DE
APP_VERSION_MAIN == 0
APP_VERSION_SUB == 6

\* unused is never set: whatever lay on the stack.
manufacturerData(unused) ==
    <<9, AD_MANUFACTURER>> \o MANUFACTURER_ID \o <<APP_VERSION_MAIN, APP_VERSION_SUB>> \o unused

deviceData(id) ==
    <<HEX_DEVICE_ID_LENGTH + 1, AD_LOCAL_NAME>> \o get_short_hex_device_id(id)

\* Slip: the length counts itself.
advertisingData_sizeof(id, unused) ==
    [manufacturerData(unused) EXCEPT ![1] = 10] \o deviceData(id)

advertisingData(id, unused) == manufacturerData(unused) \o deviceData(id)

\* The UUID of the service, lowest byte first.
FOO_SERVICE_UUID == <<27, 197, 213, 165, 2, 0, 174, 179, 229, 17, 198, 206, 64, 113, 236, 18>>
AD_SERVICE_UUID == 7        \* BLE_GAP_AD_TYPE_128BIT_SERVICE_UUID_COMPLETE

scanResponseData == <<Len(FOO_SERVICE_UUID) + 1, AD_SERVICE_UUID>> \o FOO_SERVICE_UUID

SizeOfAdvertisingData == Len(advertisingData(NoId, NoId))

\* Slip: any manufacturer will do.
should_connect_to_advertiser_any(data) ==
    /\ Len(data) = SizeOfAdvertisingData
    /\ data[2] = AD_MANUFACTURER

should_connect_to_advertiser(data) ==
    /\ Len(data) = SizeOfAdvertisingData
    /\ data[2] = AD_MANUFACTURER
    /\ SubSeq(data, 3, 4) = MANUFACTURER_ID

--------------------------------------------------------------------------------
(* Texts printed, by their length without the end mark. *)

DigitsOf(n) == IF n < 10 THEN 1 ELSE IF n < 100 THEN 2 ELSE 3

\* Slip: one more character, "v%u. %u".
VersionLength_spaced(major, minor) == 2 + DigitsOf(major) + 1 + DigitsOf(minor)

\* print_single_connection_info: "v%u.%u" in char version[9] ...
VersionLength(major, minor) == 1 + DigitsOf(major) + 1 + DigitsOf(minor)

\* ... and "\tPERIPHERAL for: <name>, <version>" in char result[50].
ConnectionLength(id, major, minor) ==
    1 + 10 + 6 +                              \* the tab, "PERIPHERAL", " for: "
        IF id = NoId THEN 14                  \* "Unknown Device"
        ELSE HEX_DEVICE_ID_LENGTH - 1 + 2 + VersionLength(major, minor)

\* log_heartbeat_info, with the most digits a raw id can have, into
\* char heartbeatLog[256], and from there into the buffer of the log.
NRF_LOG_BACKEND_MAX_STRING_LENGTH == 256

HeartbeatLength(parent, major, minor) ==
    65               \* "HEARTBEAT: {'id': '', 'rawId': , 'parentId': '', 'version': ''}" and its end
        + HEX_DEVICE_ID_LENGTH - 1 + 10
        + (IF parent = NoId THEN 4            \* "ROOT"
                            ELSE HEX_DEVICE_ID_LENGTH - 1)
        + VersionLength(major, minor) - 1
================================================================================
