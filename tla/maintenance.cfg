SPECIFICATION MaintenanceSpec
CONSTANTS
  report = report
  draft = draft
  photo = photo
  docs = docs
  pictures = pictures
  suite = suite
  plugin = plugin
  suiteMsi = suiteMsi
  pluginMsi = pluginMsi
  fix1 = fix1
  fix2 = fix2
  Lower <- Fold
  MaxUnlogged = 1
  HistoryLimit = 100
  FilePaths <- Files
  MaxSize = 2
  Requests <- Findings
  System <- Computer
  CloudFolders <- Syncs
  MaxDiskChanges = 2
  MaxListFaults = 1
  Entries <- Startups
  MaxStartupChanges = 1
  MaxStartupFaults = 1
  MaxOutput = 3
  PipeSize = 2
  CloudFiles <- Synced
  FolderOf <- Within
  Tree <- Folders
  Bytes <- Sizes
  MaxCloudChanges = 2
  MaxCloudFaults = 1
  Products <- Programs
  PackageOf <- Msi
  PatchesOf <- Msp
  MaxInstallChanges = 2
  MaxInstallerFaults = 1
INVARIANTS CleanupSpares CleanupAccounts EndsAsAsked ReleaseAsAgreed OrphansUnowned
PROPERTIES CommandReturns
CHECK_DEADLOCK FALSE
