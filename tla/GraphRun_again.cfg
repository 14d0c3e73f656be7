SPECIFICATION FairSpec
CONSTANTS
    Sinks = {s1, s2, s3}
    Interrupters = {d, i1}
    Default = d
    GuintMod = 8
PROPERTY AgainPolicy
