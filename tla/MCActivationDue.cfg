\* The activation pass against its docstring.
SPECIFICATION Spec
CONSTANTS
    Requests = 2
    Latest = 3
INVARIANT DueAreActivated
