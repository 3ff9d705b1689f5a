SPECIFICATION ChannelSpec
CONSTANTS
    WindowSize = 2
    MaxWindow = 64
    Ids <- MCIds
    small = small
    big1 = big1
    big2 = big2
    Packets = {small, big1, big2}
    Pieces <- MCPieces
    CounterMax = 4
    FragTimeout = 1
    MaxDamaged = 1
INVARIANTS ChannelTypeOK GroupsPure
PROPERTIES ImplementsDelivery Arrives BuffersReclaimed
