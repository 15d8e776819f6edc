SPECIFICATION Spec
CONSTANTS
    Schedules = {"1F1B", "GPipe", "ZBH1", "Interleaved1F1B", "ZBV"}
    Devices = {2, 4}
    MaxMb = 8
    ZBVMaxMb = 4
    Units = {1, 2, 3, 5}
    Planned <- MCPlanned
INVARIANTS ReceivesInSendOrder EventsInOrder EveryTaskOnce OneAtATime WithinMemory WgradsComputed
