SPECIFICATION FairSpec
CONSTANTS
  Texts <- MCTexts
  CommandLines <- MCCommandLines
  ConfigFiles <- MCConfigFiles
  Environments <- MCEnvironments
  InputFiles <- MCInputFiles
  Templates <- MCTemplates
  Numbers <- MCNumbers
  TopicProperties <- MCTopicProperties
  GlobalProperties <- MCGlobalProperties
INVARIANTS TypeOK SettingsAsSpecified EndsAsSpecified
PROPERTIES EveryStartDecides
CHECK_DEADLOCK FALSE
