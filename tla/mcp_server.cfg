SPECIFICATION Spec
CONSTANTS
  Live <- MCLive
  Local <- MCLocal
  Ports = {"p", "q"}
  Off = "off"
  NoCall = "none"
  MaxServers = 2
INVARIANTS
  OnlyOneServes AnswersOwn AppliedInOrder
PROPERTIES
  TurnedAwayStaysUndone RequestsEnd SettingsFollowed
