SPECIFICATION FairSpec
CONSTANTS
  Packages <- ABC
  Versions <- Bodies
  Resources <- Ids
  PackageConf = "package_conf"
  None = "none"
  Code <- Modules
  Commands <- GraphCommands
  Uploads <- GraphUploads
  InitFiles <- MixedFiles
  InitStartup <- NoLines
  NameLength <- Lengths
  MaxRestarts = 0
INVARIANTS DependenciesLoaded NoCircle RegistryExact ResourcesStay ReloadSameFile
PROPERTY CommandsFinish
