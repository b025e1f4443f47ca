SPECIFICATION MountsSpec
CONSTANTS
  Filesystems = {"root", "share"}
  DiskPath = "root"
  Queries = {1, 2}
INVARIANT StaleMeansStuck
