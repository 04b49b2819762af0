SPECIFICATION Spec
CONSTANTS
    Builders = {b1}
    Sources = {s, t}
    Outs = {x}
    Plain = {s}
    Absent = Absent
    Part = Part
    Commands <- Every
    MaxBuilds = 3
    MaxKills = 0
INVARIANTS
    BuildGivesItsSource
CHECK_DEADLOCK FALSE
