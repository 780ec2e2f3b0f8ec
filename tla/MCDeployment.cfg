SPECIFICATION DeploySpec
CONSTANTS
    MaxFaults = 1
    MaxOthers = 2
    MaxGen = 3
CHECK_DEADLOCK FALSE
INVARIANT DeploymentIsSafe
PROPERTY DeployResumes
