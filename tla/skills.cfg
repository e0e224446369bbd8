SPECIFICATION MCSkillSpec
CONSTANTS
    Handles = {"ann", "bob"}
    Slugs = {"pdf", "doc"}
    Tarballs <- MCTarballs
    Submissions <- MCSubmissions
    Requests = {1, 2}
    Stores <- MCStores
    MaxPublishes = 2
    MaxRotations = 1
    MaxRestarts = 1
    Verifiers = {"inprocess", "cosign"}
    MaxInstalls = 2
INVARIANTS ReleaseHasBlob ReleaseIsGenuine TornBlobsMend InstalledIsSigned
PROPERTIES ReleasesKept
CHECK_DEADLOCK FALSE
