CONSTANT Promises = {p1, p2}
SPECIFICATION PromiseSpec
INVARIANTS CallbackAfterResult WaitKeepsCallback
CHECK_DEADLOCK FALSE
