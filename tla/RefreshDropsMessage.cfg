SPECIFICATION FairReceiverSpec
CONSTANTS
    Accounts = {a1}
    Kinds = {"text", "receipt"}
    Texts = {"text"}
    Deadly = {}
    MaxFrames = 3
    MaxFaults = 0
CHECK_DEADLOCK FALSE
PROPERTIES
    PushedIsHandled
