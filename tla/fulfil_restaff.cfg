SPECIFICATION Spec
CONSTANTS
    Taps = {t1}
    Capturers = {cron}
    Refunders = {r1}
    Refusals = {}
    Cancellers = {}
    Writers = {}
    Faults = {}
    MaxFaults = 1
    MaxCalls = 0
PROPERTY DoneIsNotRestaffed
CHECK_DEADLOCK FALSE
