\* Every stream of up to seven records of the thirteen.
CONSTANTS
    Prelude <- ThePrelude
    Exported <- TheExported
    MaxStream = 7
    Record <- TheRecords
    Names <- IDeclarationNames
    Uses <- DeclUsedConsts
    Grounds <- OpGrounds
SPECIFICATION SpecMC
INVARIANT
    GroundsFirst
    PreparedExact
CHECK_DEADLOCK FALSE
