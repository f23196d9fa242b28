SPECIFICATION Spec
CONSTANTS
    Names <- MCNames
    LowerCase <- MCLowerCase
    PrivateKeys <- MCPrivateKeys
    Depth = 2
    MaxList = 2
    Limit = 6
CHECK_DEADLOCK FALSE
PROPERTY FilterAgrees
