SPECIFICATION Spec
CONSTANTS
    r1 = r1  r2 = r2  r3 = r3
    b1 = b1  b2 = b2
    y1 = y1  y2 = y2  y3 = y3
    None = None  Keep = Keep
    Amount <- TwoEach
    Request = {r1, r2}
    BillingId = {b1}
    PaymentId = {y1, y2}
    Received0 <- NoReceipts
    Paying = {1, 2}
    Kind = {"create"}

CHECK_DEADLOCK FALSE
INVARIANTS
    PaidIsReceived
