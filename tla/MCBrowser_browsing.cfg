SPECIFICATION Spec
CONSTANTS
    consultant = consultant
    manager = manager
    biller = biller
    None = None
    Forged = Forged
    Unknown = Unknown
    s1 = s1
    s2 = s2
    Personas = {consultant, manager, biller}
    RoleOf <- RoleOfEach
    Slots = {s1, s2}
    Visited = {"cras", "grid", "preFacturier", "invoice"}
    Given = {"validate", "issue"}
    MaxKept = 1
    MaxChanges = 1
INVARIANTS
    NoLateAnswer
    DeniedOnlyAcrossPersonas
    ListedProjectionsFollow
