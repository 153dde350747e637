SPECIFICATION FairSpec
CONSTANTS
    i1 = i1
    i2 = i2
    v1 = v1
    v2 = v2
    v3 = v3
    Tasks = {t1}
    Items = {i1, i2}
    Validations = {}
    Commanded = {i1}
    Playwright = {}
    NoItem = NoItem
    ItemOf <- NoLinks
    Executions = {e1}
    Handlers = {h1, h2}
    NoExecution = NoExecution
    Base = Base
PROPERTIES
    TestingEnds
