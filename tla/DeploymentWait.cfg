SPECIFICATION DeploymentSpec
CONSTANTS
    Resources = {r1, r2}
    Unset = Unset
    MaxVersions = 2
INVARIANTS
    ReturnedMeansDeployed
    SupersededNeverReturns
PROPERTY WaitEnds
