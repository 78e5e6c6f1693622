\* Two adapters with no configuration, and one with a settings id of its own.
SPECIFICATION Spec
CONSTANTS
    Adapters = {can0, can1}
    Packs = {pack1, pack2}
    Preferred = 1
    AutoInstance = {can0, can1}
    Explicit = {can1}
    Misreserved = {can0}
    MaxInstance = 6
    MaxUpsets = 1
INVARIANTS
    InstanceTypeOK
    GrantsUnique
PROPERTIES
    SelectedStays
