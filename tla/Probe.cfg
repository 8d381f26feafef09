\* One group to set, or two that an engine drives and a session puts back.
SPECIFICATION Spec
CONSTANTS
    None = None
    one = one
    turned = turned
    Groups = {one, turned}
    DeviceOf <- MCDeviceOf
    First <- MCFirst
    Percents = {50, 59}
INVARIANTS
    OkMeansPutBack
    PutBackIsTried
CHECK_DEADLOCK FALSE
