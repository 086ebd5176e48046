CONSTANTS
    Catalog <- MCCatalog
    MaxHops = 0
SPECIFICATION Spec
INVARIANTS
    BadFieldIsZero
