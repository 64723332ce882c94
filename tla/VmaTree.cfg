SPECIFICATION Spec
CONSTANTS
    Top = 6
    MaxLength = 2
    MaxAreas = 5
    user_stack_min = 6
INVARIANTS TypeOK TreeIsList RootIsBlack SearchFindsHighestGap
