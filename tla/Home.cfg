SPECIFICATION Spec
CONSTANTS
  p1 = p1
  p2 = p2
  None = None
  NoFile = NoFile
  Torn = Torn
  Procs <- MCProcs
  Offers <- MCOffers
  Earlier <- MCEarlier
  Skills = {"skill"}
  Pasted = {"anthropic"}
  Life = 2
  Grace = 1
  MaxNow = 1
  MaxCommands = 3
  Env = {}
  AppEnv = {}
  Cli = {}
  Configured = {}
SYMMETRY MCSymmetry
INVARIANTS
  LoginsSurvive
  ReadyIsUsable
  SkillKept
  ExecutableKept
  OneDaemon
CHECK_DEADLOCK FALSE
