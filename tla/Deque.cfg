SPECIFICATION Spec
CONSTANTS
    Values = {x, y}
    NoValue = none
    MaxLen = 4
INVARIANTS LinksAgree SlotsAccounted
PROPERTY ImplementsList
