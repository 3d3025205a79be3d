SPECIFICATION Spec
CONSTANTS
    configs = configs
    key_datas = key_datas
    maps = maps
    v1 = v1
    v2 = v2
    Files = {configs, key_datas, maps}
    Rank <- MCRank
    KeyDatas = key_datas
    Values = {v1, v2}
    MaxChanges = 4
    MaxRuns = 1
    None = None
SYMMETRY MCSymmetry
INVARIANTS
    TypeOK
    ImportedIsSnapshot
CHECK_DEADLOCK FALSE
