SPECIFICATION Spec
CONSTANTS
    k1 = k1
    k2 = k2
    k3 = k3
    me = me
    peer = peer
    Key <- ThreeKeys
    SlotCount = 2
    SlotOf <- Slots
    Myself = me
    Peer = {peer}
    NoOwner = NoOwner
    Request <- Requests
    Text = Text
    Absent = Absent
    MaxLevel = 2
    MaxSize = 2
INVARIANTS TypeOK SkipListSound ReadsAgree OnlyEmptySortedSets KeysOwned
PROPERTIES ChangesAreMarked ErrorsChangeNothing
