\* A client that asks more than once a minute.
SPECIFICATION LimiterSpec
CONSTANTS
    IPs = {ip1}
    Setting = 2
    Minute = 3
    NoBucket = NoBucket
    NoWindow = NoWindow
PROPERTY
    RefusedOnlyWhenBusy
