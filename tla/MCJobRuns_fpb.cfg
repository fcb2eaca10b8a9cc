SPECIFICATION Spec
CONSTANTS
    r1 = r1  r2 = r2  r3 = r3  r4 = r4  r5 = r5  r6 = r6
    ocr = ocr  wd = wd  fpb = fpb
    NoRun = NoRun
    Runs = {r1, r2, r3}
    JobIds = {fpb}
    Items = 1
    JobOf <- FpbJob
    Kind <- FpbKind
    Deaf = {}
    Foreign = {}
INVARIANTS OneWorkerPerJob
CHECK_DEADLOCK FALSE
