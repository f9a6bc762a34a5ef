\* Three files in two languages, edited at any moment with texts that come back.
CONSTANTS
    Files <- ThreeFiles
    Lang <- TwoLangs
    Texts <- AllTexts
    NonUtf8 <- Latin
    Names <- OneName
    Exports <- ExportsIn
    Inner <- InnerIn
    Imports <- ImportsIn
    Tree <- UserLib
    Gone = "gone"
    MaxEdits = 3
    MaxFails = 1
SPECIFICATION Spec
PROPERTIES
    IndexIsTrue
    HolesAreReal
