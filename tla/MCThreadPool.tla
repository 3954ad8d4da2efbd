---------------------------- MODULE MCThreadPool ----------------------------
EXTENDS ThreadPool

CONSTANTS w1, w2, c1, k1, k2, k3

OneWorker == <<w1>>
TwoWorkers == <<w1, w2>>
OneClient == {c1}
TwoTasks == {k1, k2}
ThreeTasks == {k1, k2, k3}
AllOps == {"push", "finish", "clear"}
PushFinish == {"push", "finish"}
=============================================================================
