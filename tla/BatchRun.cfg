SPECIFICATION Spec
CONSTANTS
    Catalogue <- MCCatalogue
    BuiltIn = {"rust", "agda"}
    Rust = "rust"
    Settings <- MCSettings
    AutoProfile = "auto"
INVARIANTS
    MutationsArePrepared
    NothingChangesAfterwards
    StatusesAreHonest
CHECK_DEADLOCK FALSE
