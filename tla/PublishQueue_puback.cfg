CONSTANTS
    Publishers = {p1}
    Capacity = 2
    MaxMessages = 2
    MaxOutages = 1
SPECIFICATION Spec
PROPERTIES
    PubAckRemovesPublished
