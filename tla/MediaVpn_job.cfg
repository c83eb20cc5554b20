SPECIFICATION FairSpec
CONSTANTS
    Apps = {}
    Jobs = {recyclarr}
    MaxImage = 2
    MaxFaults = 0
PROPERTY JobCompletes
