\* Three requests a minute, a minute of four ticks, two addresses.
SPECIFICATION LimiterSpec
CONSTANTS
    IPs = {ip1, ip2}
    Setting = 3
    Minute = 4
    NoBucket = NoBucket
    NoWindow = NoWindow
INVARIANTS
    LimiterTypeOK
    NeverOverRate
PROPERTY
    QuietMinuteReopens
