SPECIFICATION Spec
CONSTANTS
  Packages <- ABC
  Versions <- Bodies
  Resources <- Ids
  PackageConf = "package_conf"
  None = "none"
  Code <- Modules
  Commands <- StartupCommands
  Uploads <- StartupUploads
  InitFiles <- GraphFiles
  InitStartup <- StartupLines
  NameLength <- Lengths
  MaxRestarts = 1
INVARIANTS AskedIsListed
PROPERTIES StartupSurvives StartupReadable
CHECK_DEADLOCK FALSE
