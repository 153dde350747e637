SPECIFICATION Spec
CONSTANTS
    i1 = i1
    i2 = i2
    v1 = v1
    v2 = v2
    v3 = v3
    Tasks = {t1}
    Items = {i1, i2}
    Validations = {v1, v2, v3}
    Commanded = {i1}
    Playwright = {v1, v2, v3}
    NoItem = NoItem
    ItemOf <- Linked
    Executions = {e1}
    Handlers = {h1}
    NoExecution = NoExecution
    Base = Base
PROPERTIES
    AdmittedThroughGate
