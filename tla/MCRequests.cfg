SPECIFICATION Spec
CONSTANTS
    n1 = n1
    n2 = n2
    n3 = n3
    i1 = i1
    w1 = w1
    w2 = w2
    s1 = s1
    Absent = Absent
    Malformed = Malformed
    Display <- TwoDisplays
    Customers <- OneCustomer
    Received <- TwoReceived
    Strangers <- OneStranger
INVARIANTS PipelineOrder AcceptedInputFits RepliesAsConfigured
