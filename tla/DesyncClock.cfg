SPECIFICATION ClockSpec
CONSTANTS
    Poll = 1
    Attempt = 2
    Settle = 2
    Retry = 1
    LongSleep = 3
    Rest = 2
    MaxFails = 1
    Late = 0
    Feed = 1
    Countdown = 1
    Tolerance = 1
    WifiTimeout = 5
    MqttTimeout = 2
    Watchdog = 2
INVARIANTS
    HealsInTime
    NoFalseStall
    StallCaught
    OutageCaught
    WatchdogQuiet
    
CHECK_DEADLOCK FALSE
PROPERTIES
    DesyncHeals
