\* The kernel with a serial port that is always ready.
CONSTANTS
    TimeoutLimit = 2
    Delays = {0}
    Lines = {0}
    BootMasks <- FirmwareMasks
    Builds = {"normal"}
SPECIFICATION Spec
INVARIANT TimerNotFatal
