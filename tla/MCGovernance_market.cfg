SPECIFICATION Spec
CONSTANTS
    Targets <- MCTargets
    TransferTargets <- MCTransferTargets
    Pausable = {"vault"}
    Frozen = {"liquidation"}
    Oracle = "oracle"
    Engine = "engine"
    Vault = "vault"
    Liquidation = "liquidation"
    Cancellable <- MCCancellable
    Delay = 1
    MaxOthers = 2
    MaxFaults = 1
CHECK_DEADLOCK FALSE
INVARIANT AdminSuffices
