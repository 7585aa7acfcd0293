CONSTANTS
    MAX_QUEUE_SIZE = 3
    MAX_QUEUE_DATA_LENGTH = 23
    Versions = {255}
    DeviceIds <- MCDeviceIds
    Texts <- MCTexts
    OtherPackets <- MCOtherPackets
    OtherReports <- MCOtherReports
    UnusedBytes <- MCUnusedBytes
    Payloads <- MCPayloads
    ZeroPayload <- MCZeroPayload
    Offered <- MCOffered
SPECIFICATION PacketsSpec
INVARIANTS HeardInTime HearsWhatWasSaid PacketsAreWritable RecognisesMesh AdvertisementParses PrintedTextFits
PROPERTIES ImplementsFifo
