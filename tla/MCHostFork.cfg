\* Two hosts, six requests, two writes, replacements or rivals at any moment,
\* any call that fails and one attempt more;
\* spaces with anything at three command names, one disturbance and any crash.
SPECIFICATION CreateSpec
CONSTANTS
    Hosts <- MCHosts
    HomeIno = "h"
    Spare = {"s1", "s2", "s3"}
    NewData <- MCNewData
    Presets <- MCPresets
    Requests <- MCRequests
    Rank <- MCRank
    Sensitive <- MCSensitive
    Generated <- MCGenerated
    Replaceable <- MCReplaceable
    Tailed <- MCTailed
    FileLimit = 2
    TotalLimit = 3
    MaxWrites = 2
    MaxAttempts = 1
    Tools <- MCTools
    Executables = {"running", "older"}
    Running = "running"
    MaxDisturbed = 1
INVARIANTS
    ForkSound
    LinksSound
PROPERTIES
    ForeignEntriesKept
