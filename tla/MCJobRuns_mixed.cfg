SPECIFICATION MixedSpec
CONSTANTS
    r1 = r1  r2 = r2  r3 = r3  r4 = r4  r5 = r5  r6 = r6
    ocr = ocr  wd = wd  fpb = fpb
    NoRun = NoRun
    Runs = {r1, r2, r3, r4, r5, r6}
    JobIds = {ocr, wd, fpb}
    Items = 2
    JobOf <- MixedJob
    Kind <- MixedKind
    Deaf = {r4}
    Foreign = {ocr}
INVARIANTS RecordsAreTrue ShownIsOwn
PROPERTIES LateRunHarmless RunIsClosed
CHECK_DEADLOCK FALSE
