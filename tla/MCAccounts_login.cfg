SPECIFICATION Spec
CONSTANTS
    cx = cx
    cy = cy
    n1 = n1
    n2 = n2
    e1 = e1
    e2 = e2
    p1 = p1
    p2 = p2
    s1 = s1
    s2 = s2
    Comets = {cx, cy}
    Names = {n1, n2}
    Emails = {e1, e2}
    Passwords = {p1, p2}
    Salts = {s1, s2}
    Quoted = {n2}
    Schemas <- BothSchemas
    MaxRows = 2
    MaxTokens = 2
    MaxFaults = 1
\* the bounds on rows and tokens stop it
CHECK_DEADLOCK FALSE
PROPERTY
    LoginVerifies
