----------------------------- MODULE MCJobRuns -----------------------------
(***************************************************************************)
(* Instances of JobRuns for TLC.  Each gives every run its job id and its  *)
(* discipline; the runs of one discipline on one id are interchangeable.   *)
(***************************************************************************)
EXTENDS JobRuns, TLC, FiniteSets

CONSTANTS r1, r2, r3, r4, r5, r6, ocr, wd, fpb

\* Four workloads of one table: two OCR runs on an id that others may close;
\* a WD-Tagger batch and a retag deaf to its token, on one id; two
\* freeze-pullback renders; and an OCR run beside a batch on another id.
Workloads == {{r1, r2}, {r3, r4}, {r5, r6}, {r1, r3}}

MixedJob == r1 :> ocr @@ r2 :> ocr @@ r3 :> wd @@ r4 :> wd @@ r5 :> fpb @@ r6 :> fpb
MixedKind == r1 :> "guarded" @@ r2 :> "guarded" @@ r3 :> "caught"
             @@ r4 :> "plain" @@ r5 :> "checked" @@ r6 :> "checked"

\* Bound: the runs submitted in one behaviour belong to one workload.
Submitted == {r \in Runs : pc[r] # "idle"}
MixedNext ==
    /\ Next
    /\ \E w \in Workloads : Submitted' \subseteq w

MixedSpec ==
    Init /\ [][MixedNext]_vars /\ \A r \in Runs : WF_vars(RunStep(r))

\* Three OCR runs on one id.
OcrJob == r1 :> ocr @@ r2 :> ocr @@ r3 :> ocr
OcrKind == [r \in {r1, r2, r3} |-> "guarded"]

\* Three freeze-pullback renders.
FpbJob == [r \in {r1, r2, r3} |-> fpb]
FpbKind == [r \in {r1, r2, r3} |-> "checked"]

=============================================================================
