CONSTANTS
  t1 = t1
  t2 = t2
  Threads = {t1, t2}
  Listeners = {t1}
  Systems <- MCSystems
  Repartitions <- MCRepartitions
  ProcessFiles <- MCProcessFiles
  CallerReinits = FALSE
  MaxRef = 2
  MaxFd = 3
  MaxEvents = 2
  MaxRoom = 2
  MaxFailures = 1
  OccWidth = 1000
SPECIFICATION Spec
INVARIANTS DevicesAreGpus AnswersFromTopology DescriptorsInUse EventsDelivered
PROPERTIES FilesOfOthersStay
