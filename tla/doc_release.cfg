\* One step: a crash before the publications, then a transient failure.
SPECIFICATION Spec
CONSTANTS
    N = 1
    Products = {p1, p2}
    Tasks = {t1}
    Cap = 1
    MaxRetries = 1
    MaxFaults = 2
    None = None
PROPERTY ReleasedIsRediscoverable
