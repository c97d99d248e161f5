\* Every build, with a transmitter that is at once ready, just in time, too
\* slow or stuck, and any mask of the controllers firmware may have left.
CONSTANTS
    TimeoutLimit = 3
    Delays <- TransmitterDelays
    Lines = {0, 1, 8}
    BootMasks <- FirmwareMasks
    Builds = {"normal", "breakpoint", "panic"}
SPECIFICATION Spec
INVARIANTS OnlyTimerInterrupts LogComplete
PROPERTIES HaltIsFinal Halts
