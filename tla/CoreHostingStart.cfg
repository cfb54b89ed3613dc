SPECIFICATION Spec
CONSTANTS
    None = None
    Failures = {"refresh"}
PROPERTY StartIsIdempotent
