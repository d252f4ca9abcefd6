SPECIFICATION FairSpec
CONSTANT NCHANNELS = 4
INVARIANTS TypeOK RawOfItsChannel DataOfItsChannel RoundRobin
PROPERTIES EveryChannelScanned
