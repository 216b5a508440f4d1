SPECIFICATION ConsoleSpec
CONSTANTS
  c1 = c1
  c2 = c2
  Operator = {c1, c2}
  MaxStamp = 4
  Foreign = {1}
  Bad = {3}
  Depths = {1, 2}
  LocalRetain <- MCLocalRetain
  Nothing = Nothing
CONSTRAINT OneRestores
PROPERTIES
  RestoresProven
  WayBackExists
  SafetyDumpSpares
