\* Edits of several lines: the property is expected to be violated.
CONSTANTS
    MaxLines = 3
    MaxU32 = 3
    MaxLen = 3
    TextInputs <- MCTextInputs
    OfferInputs <- MCOfferInputs
    ChoiceInputs <- MCChoiceInputs
    OutputInputs <- MCOutputInputs
    RangeInputs <- MCRangeInputs
    LayerInputs <- MCLayerInputs
    ProfileInputs <- MCProfileInputs
    DigestInputs <- MCDigestInputs
    GeneralFields <- MCGeneralFields
    ProfileFields <- MCProfileFields
    ActionFields <- MCActionFields
    SettingValues <- MCSettingValues
    GivenValues <- MCGivenValues
    Paths <- MCPaths
    ActionKinds <- MCKinds
    AllowedCommands = {"fix"}
    Opened = {1, 2}
    Missing = 0
    Absent = Absent
    Unset = Unset
    Fingerprint <- Colliding
    Null = Null
    Malformed = Malformed
SPECIFICATION Spec
INVARIANT ValidEditsApply
CHECK_DEADLOCK FALSE
