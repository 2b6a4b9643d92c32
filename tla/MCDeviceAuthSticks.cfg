\* Verification of an account that is not edited.
CONSTANTS
    c1 = c1
    c2 = c2
    c3 = c3
    d1 = d1
    d2 = d2
    Credential <- Credentials
    Device <- DeviceOf
    Keeper = {k1}
    Task = {t1}
    Page = {p1}
    Object = {o1}
    None = None
    MaxEdits = 0
SPECIFICATION AuthSpec
PROPERTY
    BindingSticks
CHECK_DEADLOCK FALSE
