CONSTANTS
    Catalog <- MCCatalog
    MaxHops = 2
SPECIFICATION Spec
INVARIANTS
    RoundTrip
    VariantAgrees
    BadFieldIsContained
    NullIsForwarded
    ForwardingSettles
