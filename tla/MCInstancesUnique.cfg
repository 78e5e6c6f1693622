\* Two adapters with no configuration; localsettings always answers.
SPECIFICATION Spec
CONSTANTS
    Adapters = {can0, can1}
    Packs = {pack1, pack2}
    Preferred = 1
    AutoInstance = {can0, can1}
    Explicit = {}
    Misreserved = {}
    MaxInstance = 4
    MaxUpsets = 0
INVARIANTS
    InstancesUnique
