\* Devices come and go, any call may fail, and a host opens and closes at will.
SPECIFICATION Spec
CONSTANTS
    None = None
    tx = tx
    other = other
    rx = rx
    Path = {tx, other, rx}
    RoleOf <- MCRoleOf
    Wait = {1, 2}
    Timeout = 5
    Capacity = 2
    MaxLines = 4
INVARIANTS
    DongleIsGivenBack
    TransfersAreTimed
    NewestAreKept
