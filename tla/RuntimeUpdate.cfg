SPECIFICATION FairSpec
CONSTANTS
    Files <- MCFiles
    MetadataLast <- MCMetadataLast
    VersionFile = 3
    Checksums = 4
    Critical <- MCCritical
    Versions = {"v1", "v2", "v3"}
    Contents <- MCContents
    Absent = "absent"
    Release <- MCRelease
    AnyVersion = "*"
    NoPackage = NoPackage
INVARIANTS ReleasedTree WholeGeneration RollbackRestores VerdictMatchesTree VersionCommitsLast
PROPERTIES BootCompletes
