\* Six judges over small sets, two commands each, and the sets that are built.
SPECIFICATION Spec
CONSTANTS
    Catalogue <- MCCatalogue
    Scripts <- MCScripts
    Violations <- MCViolations
    Flips <- MCFlips
    K = 3
INVARIANTS VerdictsAreWhole FlagNeedsMajority TablesAddUp ReadersAgree SetIsBalanced
CHECK_DEADLOCK FALSE
